--------------------------- MODULE SignalViewsProofs ---------------------------
(***************************************************************************)
(* Proofs about what follows the samples of signals in the GUI thread, for *)
(* any signals, values, digits and numbers of samples, timeouts and        *)
(* resets: what the power panel has summed up fits the extrema beside it,  *)
(* and its displays read true; the results of a moving average or product  *)
(* channel are right; a file that is saved has the samples in their order; *)
(* and the table of the data view is the merge of its signals.             *)
(***************************************************************************)
EXTENDS SignalViews, TLAPS, NaturalsInduction, WellFoundedInduction, SequenceTheorems,
        FiniteSetTheorems

(* The clock does not run backwards, and a panel has two signals or none.  *)
SourceInv ==
  /\ DOMAIN latest = Signals /\ \A s \in Signals : LastValue(s) \in Int
  /\ digits \in [Signals -> Int] /\ now \in Int
  /\ voltage # NoSignal => voltage \in Signals /\ current \in Signals
  /\ watched # {} \/ announced # 0 => voltage # NoSignal

(* The mean holds at all times, also before the first value and while the  *)
(* extrema are still those of no value, since no time has passed then.     *)
SumsInv ==
  /\ start \in Int /\ last \in Int /\ start <= last /\ last <= now
  /\ charge \in Int /\ energy \in Int
  /\ \A r \in Readings \ {"resistance"} : lo[r] \in Int /\ hi[r] \in Int
  /\ Between(charge, "current") /\ Between(energy, "power")

(* A display shows a number with the digits of its device.                 *)
IsDisplay(d) ==
  /\ DOMAIN d = {"type", "value", "sr_digits", "decimal_places", "number",
                 "unit_si_prefix", "unit_changed", "label"}
  /\ d.type \in {"AutoRangeWithSRDigits", "AutoRange"}
  /\ d.value \in Int /\ d.sr_digits \in Int
  /\ d.label = d.unit_si_prefix

DisplaysInv ==
  /\ DOMAIN displays = {"voltage", "max"}
  /\ \A d \in DOMAIN displays : IsDisplay(displays[d])
  /\ ReadingsAreTrue

PanelInv == SourceInv /\ SumsInv /\ DisplaysInv

-----------------------------------------------------------------------------
(* Sums                                                                    *)
LEMMA MinMax ==
  ASSUME NEW a \in Int, NEW b \in Int
  PROVE  /\ Min({a, b}) \in Int /\ Min({a, b}) <= a /\ Min({a, b}) <= b
         /\ Max({a, b}) \in Int /\ Max({a, b}) >= a /\ Max({a, b}) >= b
BY DEF Min, Max

LEMMA Product ==
  ASSUME NEW a \in Int, NEW b \in Int, a <= b, NEW n \in Nat
  PROVE  a * n <= b * n
OBVIOUS

LEMMA Distributes ==
  ASSUME NEW a \in Int, NEW n \in Int, NEW k \in Int
  PROVE  a * (n + k) = a * n + a * k /\ a * n \in Int /\ a * k \in Int
OBVIOUS

(* A value x for a time k more leaves the mean between the extrema.        *)
LEMMA MeanStays ==
  ASSUME NEW l \in Int, NEW h \in Int, NEW sum \in Int, NEW x \in Int, NEW n \in Nat, NEW k \in Nat,
         l * n <= sum, sum <= h * n
  PROVE  /\ Min({l, x}) * (n + k) <= sum + x * k
         /\ sum + x * k <= Max({h, x}) * (n + k)
<1> DEFINE low == Min({l, x})  high == Max({h, x})
<1>1. low \in Int /\ low <= l /\ low <= x /\ high \in Int /\ high >= h /\ high >= x
  BY MinMax
<1> HIDE DEF low, high
<1>2. low * n <= l * n /\ low * k <= x * k /\ h * n <= high * n /\ x * k <= high * k
  BY <1>1, Product
<1>3. /\ low * (n + k) = low * n + low * k /\ high * (n + k) = high * n + high * k
      /\ low * n \in Int /\ low * k \in Int /\ high * n \in Int /\ high * k \in Int
  BY <1>1, Distributes
<1>4. l * n \in Int /\ h * n \in Int /\ x * k \in Int
  OBVIOUS
<1>5. low * (n + k) <= sum + x * k /\ sum + x * k <= high * (n + k)
  BY ONLY <1>2, <1>3, <1>4, l * n <= sum, sum <= h * n, sum \in Int
<1> QED
  BY <1>5 DEF low, high

-----------------------------------------------------------------------------
(* Displays                                                                *)

(* A value other than 0 has a magnitude.                                   *)
LEMMA MagnitudeIsInt ==
  ASSUME NEW v \in Int, v # 0
  PROVE  Magnitude(v) \in Int
<1> DEFINE E == {e \in Exponents : 10 ^ (e + 6) <= Abs(v)}
<1>1. -6 \in E
  <2>1. Abs(v) >= 1
    BY DEF Abs
  <2>2. 10 ^ (-6 + 6) = 1
    OBVIOUS
  <2> QED
    BY <2>1, <2>2 DEF Exponents
<1>2. E \subseteq -6 .. 3
  BY DEF Exponents
<1>3. \E m \in E : \A e \in E : m >= e
  <2> HIDE DEF E
  <2>1. \A e \in E : e \in {-6, -5, -4, -3, -2, -1, 0, 1, 2, 3}
    BY <1>2
  <2> QED
    BY <1>1, <2>1
<1>4. Max(E) \in E
  BY ONLY <1>3 DEF Max
<1> QED
  BY <1>2, <1>4 DEF Magnitude

LEMMA RawPrefixIsInt ==
  ASSUME NEW v \in Int, v # 0
  PROVE  RawPrefix(v) \in Int
<1> DEFINE e == Magnitude(v)
<1>1. e \in Int
  BY MagnitudeIsInt
<1>2. RawPrefix(v) = CASE e >= 1               -> e \div 3
                       [] e < 1 /\ IsPower(v)  -> Quotient(e - 3, 3)
                       [] OTHER                -> -((2 - e) \div 3)
  BY DEF RawPrefix
<1> HIDE DEF e
<1> QED
  BY <1>1, <1>2 DEF Quotient

(* The prefix is large enough for the digits of the device.                *)
LEMMA PrefixIsRight ==
  ASSUME NEW v \in Int, v # 0, Abs(v) < Overflow, NEW n \in Int
  PROVE  PrefixFromValue(v, n) \in Int /\ n + 3 * PrefixFromValue(v, n) >= 0
<1>1. RawPrefix(v) \in Int
  BY RawPrefixIsInt
<1>2. Abs(v) \in Int /\ ~(Abs(v) >= Overflow)
  BY OverflowAssumption DEF Abs
<1>3. PrefixFromValue(v, n) = IF 3 * RawPrefix(v) < -n
                              THEN Quotient(-n + (IF n < 0 THEN 2 ELSE 0), 3) ELSE RawPrefix(v)
  BY <1>2 DEF PrefixFromValue
<1> QED
  BY ONLY <1>1, <1>3, n \in Int DEF Quotient

LEMMA NumberIsRight ==
  ASSUME NEW d, IsDisplay(d)
  PROVE  /\ Number(d).of = d.value
         /\ d.type = "AutoRangeWithSRDigits" /\ d.value # 0 /\ Abs(d.value) < Overflow =>
              3 * Number(d).prefix - Number(d).places = -d.sr_digits
<1>1. Abs(d.value) \in Int /\ (Abs(d.value) < Overflow <=> ~(Abs(d.value) >= Overflow))
  BY OverflowAssumption DEF IsDisplay, Abs
<1>2. CASE ~(Abs(d.value) < Overflow)
  BY <1>1, <1>2 DEF Number
<1>3. CASE Abs(d.value) < Overflow /\ d.type = "AutoRangeWithSRDigits"
  <2>1. Number(d) = FormatValue(d.value, d.sr_digits)
    BY <1>1, <1>3 DEF Number
  <2> DEFINE p == PrefixFromValue(d.value, d.sr_digits)
  <2>2. Number(d) = [of |-> d.value, prefix |-> p, places |-> DecimalPlaces(p, d.sr_digits)]
    BY <2>1 DEF FormatValue
  <2>3. CASE d.value = 0
    BY <2>2, <2>3
  <2>4. CASE d.value # 0
    <3>1. p \in Int /\ d.sr_digits \in Int /\ d.sr_digits + 3 * p >= 0
      BY <1>3, <2>4, PrefixIsRight DEF IsDisplay
    <3> HIDE DEF p
    <3>2. DecimalPlaces(p, d.sr_digits) = d.sr_digits + 3 * p
      BY <3>1 DEF DecimalPlaces, Max
    <3> QED
      BY <2>2, <3>1, <3>2
  <2> QED
    BY <2>3, <2>4
<1>4. CASE Abs(d.value) < Overflow /\ d.type = "AutoRange"
  BY <1>1, <1>4 DEF Number, Autoscale
<1> QED
  BY <1>2, <1>3, <1>4 DEF IsDisplay

LEMMA UpdatedReadsTrue ==
  ASSUME NEW d, IsDisplay(d)
  PROVE  IsDisplay(UpdateDisplay(d)) /\ ReadsTrue(UpdateDisplay(d))
<1> DEFINE u == UpdateDisplay(d)
<1>1. u = [d EXCEPT !.number = Number(d), !.unit_changed = FALSE,
                    !.unit_si_prefix = IF WritesUnit(d) THEN Number(d).prefix ELSE @,
                    !.label = IF WritesUnit(d) THEN Number(d).prefix ELSE @]
  BY DEF UpdateDisplay
<1> HIDE DEF u
<1>a. /\ u.type = d.type /\ u.value = d.value /\ u.sr_digits = d.sr_digits
      /\ u.number = Number(d) /\ DOMAIN u = DOMAIN d
      /\ u.label = IF WritesUnit(d) THEN Number(d).prefix ELSE d.label
      /\ u.unit_si_prefix = IF WritesUnit(d) THEN Number(d).prefix ELSE d.unit_si_prefix
  BY <1>1 DEF IsDisplay
<1>b. ~WritesUnit(d) => Number(d).prefix = d.unit_si_prefix /\ d.label = d.unit_si_prefix
  BY DEF WritesUnit, IsDisplay
<1>2. /\ u.type = d.type /\ u.value = d.value /\ u.sr_digits = d.sr_digits
      /\ u.number = Number(d) /\ DOMAIN u = DOMAIN d
      /\ u.label = Number(d).prefix /\ u.label = u.unit_si_prefix
  BY <1>a, <1>b
<1>3. IsDisplay(u)
  BY <1>2 DEF IsDisplay
<1>4. ReadsTrue(u)
  BY <1>2, NumberIsRight DEF ReadsTrue
<1> QED
  BY <1>3, <1>4 DEF u

LEMMA DisplaySteps ==
  ASSUME NEW d, IsDisplay(d), NEW n \in Int, NEW places
  PROVE  /\ IsDisplay(SetValue(d, n)) /\ ReadsTrue(SetValue(d, n))
         /\ IsDisplay(SetSrDigits(d, n)) /\ ReadsTrue(SetSrDigits(d, n))
         /\ IsDisplay(SetDecimalPlaces(d, places)) /\ ReadsTrue(SetDecimalPlaces(d, places))
         /\ IsDisplay(SetUnit(d)) /\ ReadsTrue(SetUnit(d))
         /\ IsDisplay(ResetValue(d)) /\ ReadsTrue(ResetValue(d))
<1>0. IsDisplay([d EXCEPT !.unit_changed = TRUE])
  BY DEF IsDisplay
<1>1. IsDisplay([d EXCEPT !.value = n])
  BY DEF IsDisplay
<1>2. IsDisplay([d EXCEPT !.sr_digits = n])
  BY DEF IsDisplay
<1>3. IsDisplay([d EXCEPT !.decimal_places = places])
  BY DEF IsDisplay
<1>4. IsDisplay(ResetValue(d)) /\ ResetValue(d).number = NoNumber
  BY DEF IsDisplay, ResetValue
<1> QED
  BY <1>0, <1>1, <1>2, <1>3, <1>4, UpdatedReadsTrue
     DEF SetUnit, SetValue, SetSrDigits, SetDecimalPlaces, ReadsTrue

-----------------------------------------------------------------------------
LEMMA PanelInit == Init => PanelInv
<1> SUFFICES ASSUME Init
             PROVE  PanelInv
  OBVIOUS
<1>1. SourceInv
  <2>1. \A d \in Digits : d \in Int
    BY SourceConstantsOK
  <2>2. /\ DOMAIN latest = Signals /\ \A s \in Signals : latest[s].v = 0
        /\ now \in Int /\ voltage = NoSignal /\ announced = 0 /\ watched = {}
    BY DEF Init, InitSource, InitPowerPanel
  <2>3. digits \in [Signals -> Int]
    BY <2>1 DEF Init, InitSource
  <2> QED
    BY <2>2, <2>3 DEF SourceInv, LastValue
<1>2. SumsInv
  <2>1. \A r \in Readings : lo[r] = Overflow /\ hi[r] = -Overflow
    BY DEF Init, InitPowerPanel, Highest, Lowest, Readings
  <2>2. start = 1 /\ last = 1 /\ now = 1 /\ charge = 0 /\ energy = 0
    BY DEF Init, InitSource, InitPowerPanel
  <2> QED
    BY <2>1, <2>2, OverflowAssumption DEF SumsInv, Between, Readings
<1>3. DisplaysInv
  <2>1. displays = [voltage |-> NewDisplay("AutoRangeWithSRDigits"), max |-> NewDisplay("AutoRange")]
    BY DEF Init, InitPowerPanel
  <2>2. \A type \in {"AutoRangeWithSRDigits", "AutoRange"} :
          IsDisplay(NewDisplay(type)) /\ ReadsTrue(NewDisplay(type))
    BY DEF IsDisplay, NewDisplay, ReadsTrue
  <2> QED
    BY <2>1, <2>2 DEF DisplaysInv, ReadingsAreTrue
<1> QED
  BY <1>1, <1>2, <1>3 DEF PanelInv

(* What the devices and the other windows do.                              *)
LEMMA WorldStep ==
  ASSUME PanelInv, World, UNCHANGED panelVars
  PROVE  PanelInv'
<1>1. SourceInv' /\ now' >= now
  <2>a. ASSUME NEW s \in Signals, NEW v \in Values, NEW what, PushSample(s, v, what),
               now' \in Int, now' >= now
        PROVE  SourceInv' /\ now' >= now
    <3>1. v \in Int
      BY SourceConstantsOK
    <3>2. /\ UNCHANGED <<digits, watched, announced, voltage, current>>
          /\ latest' = [latest EXCEPT ![s] = IF what.left = 1 THEN [t |-> what.t, v |-> v] ELSE @]
      BY <2>a DEF PushSample, digitVars, panelVars
    <3>3. DOMAIN latest' = Signals /\ \A o \in Signals : latest'[o].v \in Int
      BY <3>1, <3>2 DEF PanelInv, SourceInv, LastValue
    <3> QED
      BY <2>a, <3>2, <3>3 DEF PanelInv, SourceInv, LastValue
  <2>1. ASSUME NEW s \in Signals, NEW v \in Values, NEW gap \in Gaps, NEW size, NEW stride,
               PushSamples(s, v, gap, size, stride)
        PROVE  SourceInv' /\ now' >= now
    <3>1. now' = now + gap /\ gap \in Nat /\ now \in Int
      BY <2>1, SourceConstantsOK DEF PushSamples, PanelInv, SourceInv
    <3>2. PushSample(s, v, [left |-> size, t |-> now', stride |-> stride])
      BY <2>1 DEF PushSamples
    <3> QED
      BY <2>a, <3>1, <3>2
  <2>4. ASSUME NEW s \in Signals, NEW v \in Values, PushNext(s, v)
        PROVE  SourceInv' /\ now' >= now
    <3>1. now' = now /\ now \in Int /\ PushSample(s, v, packet[s])
      BY <2>4 DEF PushNext, PanelInv, SourceInv
    <3> QED
      BY <2>a, <3>1
  <2>2. ASSUME NEW s \in Signals, ClearSignal(s)
        PROVE  SourceInv' /\ now' >= now
    BY <2>2 DEF ClearSignal, digitVars, pushVars, panelVars, PanelInv, SourceInv, LastValue
  <2>3. ASSUME NEW s \in Signals, NEW d \in Digits, ChangeDigits(s, d)
        PROVE  SourceInv' /\ now' >= now
    BY <2>3, SourceConstantsOK DEF ChangeDigits, pushVars, panelVars, PanelInv, SourceInv, LastValue
  <2> QED
    BY <2>1, <2>2, <2>3, <2>4 DEF World, SamplesCome, DigitsCome
<1>2. now \in Int /\ now' \in Int
  BY <1>1 DEF PanelInv, SourceInv
<1>3. SumsInv'
  BY <1>1, <1>2 DEF panelVars, PanelInv, SumsInv, Between
<1>4. DisplaysInv'
  BY DEF panelVars, PanelInv, DisplaysInv, ReadingsAreTrue
<1> QED
  BY <1>1, <1>3, <1>4 DEF PanelInv

-----------------------------------------------------------------------------
(* The handlers of the panel                                               *)
LEMMA SetSignalsStep ==
  ASSUME PanelInv, NEW v \in Signals, NEW i \in Signals, SetSignals(v, i)
  PROVE  PanelInv'
<1>1. /\ voltage' = v /\ current' = i /\ UNCHANGED <<latest, digits, now, announced>>
      /\ start' = now /\ last' = now /\ lo' = Highest /\ hi' = Lowest /\ charge' = 0 /\ energy' = 0
      /\ displays' = [voltage |-> SetSrDigits(SetUnit(displays.voltage), digits[v]),
                      max     |-> SetDecimalPlaces(SetUnit(displays.max), 2)]
  BY DEF SetSignals, InitTimer, InitDisplays, pushVars
<1>2. SourceInv'
  BY <1>1, PanelAssumption DEF PanelInv, SourceInv, LastValue
<1>3. SumsInv'
  <2>1. \A r \in Readings : lo'[r] = Overflow /\ hi'[r] = -Overflow
    BY <1>1 DEF Highest, Lowest, Readings
  <2>2. now \in Int
    BY DEF PanelInv, SourceInv
  <2> QED
    BY <1>1, <2>1, <2>2, OverflowAssumption DEF SumsInv, Between, Readings
<1>4. DisplaysInv'
  <2>1. digits[v] \in Int
    BY DEF PanelInv, SourceInv
  <2>2. IsDisplay(SetUnit(displays.voltage)) /\ IsDisplay(SetUnit(displays.max))
    BY <2>1, DisplaySteps DEF PanelInv, DisplaysInv
  <2>3. IsDisplay(displays'.voltage) /\ ReadsTrue(displays'.voltage)
    BY <1>1, <2>1, <2>2, DisplaySteps
  <2>4. IsDisplay(displays'.max) /\ ReadsTrue(displays'.max)
    BY <1>1, <2>1, <2>2, DisplaySteps
  <2>5. DOMAIN displays' = {"voltage", "max"}
    BY <1>1
  <2> QED
    BY <2>3, <2>4, <2>5 DEF DisplaysInv, ReadingsAreTrue
<1> QED
  BY <1>2, <1>3, <1>4 DEF PanelInv

LEMMA ResetDisplaysStep ==
  ASSUME PanelInv, ResetDisplaysTriggered
  PROVE  PanelInv'
<1>1. /\ UNCHANGED <<sourceVars, voltage, current>>
      /\ start' = now /\ last' = now /\ lo' = Highest /\ hi' = Lowest /\ charge' = 0 /\ energy' = 0
      /\ displays' = [d \in DOMAIN displays |-> ResetValue(displays[d])]
  BY DEF ResetDisplaysTriggered, InitTimer, ResetDisplays
<1>2. SourceInv'
  BY <1>1 DEF PanelInv, SourceInv, sourceVars, pushVars, LastValue
<1>3. SumsInv'
  <2>1. \A r \in Readings : lo'[r] = Overflow /\ hi'[r] = -Overflow
    BY <1>1 DEF Highest, Lowest, Readings
  <2>2. now \in Int /\ now' = now
    BY <1>1 DEF PanelInv, SourceInv, sourceVars
  <2> QED
    BY <1>1, <2>1, <2>2, OverflowAssumption DEF SumsInv, Between, Readings
<1>4. DisplaysInv'
  <2>1. \A d \in DOMAIN displays : IsDisplay(ResetValue(displays[d])) /\ ReadsTrue(ResetValue(displays[d]))
    BY DisplaySteps DEF PanelInv, DisplaysInv
  <2> QED
    BY <1>1, <2>1 DEF PanelInv, DisplaysInv, ReadingsAreTrue
<1> QED
  BY <1>2, <1>3, <1>4 DEF PanelInv

LEMMA OnUpdateStep ==
  ASSUME PanelInv, NEW gap \in Gaps, OnUpdate(gap)
  PROVE  PanelInv'
<1>1. /\ now' = now + gap /\ UNCHANGED <<latest, digits, watched, announced, voltage, current, start>>
  BY DEF OnUpdate, digitVars, pushVars
<1>2. now \in Int /\ now' \in Int /\ now' >= now
  BY <1>1, SourceConstantsOK DEF PanelInv, SourceInv
<1>3. SourceInv'
  BY <1>1, <1>2 DEF PanelInv, SourceInv, LastValue
<1>4. CASE UNCHANGED <<last, lo, hi, charge, energy, displays>>
  <2>1. SumsInv'
    BY <1>1, <1>2, <1>4 DEF PanelInv, SumsInv, Between
  <2>2. DisplaysInv'
    BY <1>4 DEF PanelInv, DisplaysInv, ReadingsAreTrue
  <2> QED
    BY <1>3, <2>1, <2>2 DEF PanelInv
<1>5. CASE ~(voltage = NoSignal \/ Count(voltage) = 0 \/ Count(current) = 0)
  <2> DEFINE v == LastValue(voltage)  i == LastValue(current)
  <2>1. v \in Int /\ i \in Int /\ v * i \in Int
    BY <1>5 DEF PanelInv, SourceInv
  <2>2. /\ last' = now'
        /\ lo' = [r \in Readings |-> Min({lo[r], Read[r]})]
        /\ hi' = [r \in Readings |-> Max({hi[r], Read[r]})]
        /\ charge' = charge + Read.current * (now' - last)
        /\ energy' = energy + Read.power * (now' - last)
        /\ displays' = [voltage |-> SetValue(displays.voltage, Read.voltage),
                        max     |-> SetValue(displays.max, hi'["voltage"])]
    BY <1>5 DEF OnUpdate
  <2>3. Read.voltage = v /\ Read.current = i /\ Read.power = v * i
    BY DEF Read
  <2> HIDE DEF v, i
  <2>4. ASSUME NEW r \in {"current", "power"}, NEW sum \in Int, Between(sum, r), NEW x \in Int, Read[r] = x
        PROVE  /\ lo'[r] \in Int /\ hi'[r] \in Int
               /\ lo'[r] * (last' - start') <= sum + x * (now' - last)
               /\ sum + x * (now' - last) <= hi'[r] * (last' - start')
    <3> DEFINE n == last - start  k == now' - last
    <3>1. /\ lo[r] \in Int /\ hi[r] \in Int /\ n \in Nat /\ k \in Nat
          /\ start \in Int /\ last \in Int
      <4>1. start \in Int /\ last \in Int /\ start <= last /\ last <= now
        BY DEF PanelInv, SumsInv
      <4>2. lo[r] \in Int /\ hi[r] \in Int
        BY DEF PanelInv, SumsInv, Readings
      <4>3. last - start \in Nat /\ now' - last \in Nat
        <5>1. \A a, b \in Int : a <= b => b - a \in Nat
          OBVIOUS
        <5>2. last <= now'
          BY <1>2, <4>1
        <5> QED
          BY ONLY <1>2, <4>1, <5>1, <5>2
      <4> QED
        BY <4>1, <4>2, <4>3
    <3>2. lo[r] * n <= sum /\ sum <= hi[r] * n
      BY <2>4 DEF Between
    <3>3. lo'[r] = Min({lo[r], x}) /\ hi'[r] = Max({hi[r], x})
      BY <2>2, <2>4 DEF Readings
    <3>4. last' - start' = n + k
      BY <1>1, <1>2, <2>2, <3>1
    <3> HIDE DEF n
    <3>5. /\ Min({lo[r], x}) * (n + k) <= sum + x * k
          /\ sum + x * k <= Max({hi[r], x}) * (n + k)
      BY <3>1, <3>2, MeanStays
    <3>6. lo'[r] \in Int /\ hi'[r] \in Int
      BY <3>1, <3>3, MinMax
    <3>7. /\ lo'[r] * (last' - start') = Min({lo[r], x}) * (n + k)
          /\ hi'[r] * (last' - start') = Max({hi[r], x}) * (n + k)
      BY ONLY <3>3, <3>4, Zenon
    <3> QED
      BY ONLY <3>5, <3>6, <3>7, Zenon
  <2>5. lo'["voltage"] \in Int /\ hi'["voltage"] \in Int
    <3>1. lo["voltage"] \in Int /\ hi["voltage"] \in Int
      BY DEF PanelInv, SumsInv, Readings
    <3>2. lo'["voltage"] = Min({lo["voltage"], v}) /\ hi'["voltage"] = Max({hi["voltage"], v})
      BY <2>2, <2>3 DEF Readings
    <3> QED
      BY <2>1, <3>1, <3>2, MinMax
  <2>6. SumsInv'
    <3>1. /\ charge \in Int /\ energy \in Int /\ start \in Int /\ last \in Int /\ start <= last /\ last <= now
          /\ Between(charge, "current") /\ Between(energy, "power")
      BY DEF PanelInv, SumsInv
    <3>2. /\ lo'["current"] \in Int /\ hi'["current"] \in Int
          /\ lo'["current"] * (last' - start') <= charge'
          /\ charge' <= hi'["current"] * (last' - start')
      BY <2>1, <2>2, <2>3, <2>4, <3>1
    <3>3. /\ lo'["power"] \in Int /\ hi'["power"] \in Int
          /\ lo'["power"] * (last' - start') <= energy'
          /\ energy' <= hi'["power"] * (last' - start')
      BY <2>1, <2>2, <2>3, <2>4, <3>1
    <3>4. charge' \in Int /\ energy' \in Int
      <4>1. i * (now' - last) \in Int /\ (v * i) * (now' - last) \in Int
        BY <1>2, <2>1, <3>1
      <4> QED
        BY <2>2, <2>3, <3>1, <4>1
    <3>5. start' \in Int /\ last' \in Int /\ start' <= last' /\ last' <= now'
      BY <1>1, <1>2, <2>2, <3>1
    <3> QED
      BY <2>5, <3>2, <3>3, <3>4, <3>5 DEF SumsInv, Between, Readings
  <2>7. DisplaysInv'
    <3>1. IsDisplay(displays.voltage) /\ IsDisplay(displays.max)
      BY DEF PanelInv, DisplaysInv
    <3>2. IsDisplay(displays'.voltage) /\ ReadsTrue(displays'.voltage)
      BY <2>1, <2>2, <2>3, <3>1, DisplaySteps
    <3>3. IsDisplay(displays'.max) /\ ReadsTrue(displays'.max)
      BY <2>2, <2>5, <3>1, DisplaySteps
    <3>4. DOMAIN displays' = {"voltage", "max"}
      BY <2>2
    <3> QED
      BY <3>2, <3>3, <3>4 DEF DisplaysInv, ReadingsAreTrue
  <2> QED
    BY <1>3, <2>6, <2>7 DEF PanelInv
<1> QED
  BY <1>4, <1>5 DEF OnUpdate

LEMMA OnDigitsChangedStep ==
  ASSUME PanelInv, OnDigitsChanged
  PROVE  PanelInv'
<1>1. /\ announced > 0 /\ announced' = 0
      /\ displays' = [displays EXCEPT !.voltage = SetSrDigits(@, digits[voltage])]
      /\ UNCHANGED <<latest, digits, now, watched, voltage, current, start, last, lo, hi, charge, energy>>
  BY DEF OnDigitsChanged, pushVars
<1>2. SourceInv' /\ SumsInv'
  BY <1>1 DEF PanelInv, SourceInv, SumsInv, Between, LastValue
<1>3. digits[voltage] \in Int
  BY <1>1 DEF PanelInv, SourceInv
<1>4. IsDisplay(displays.voltage) /\ DOMAIN displays = {"voltage", "max"}
  BY DEF PanelInv, DisplaysInv
<1>5. IsDisplay(SetSrDigits(displays.voltage, digits[voltage])) /\ ReadsTrue(SetSrDigits(displays.voltage, digits[voltage]))
  BY <1>3, <1>4, DisplaySteps
<1>6. DisplaysInv'
  BY <1>1, <1>4, <1>5 DEF PanelInv, DisplaysInv, ReadingsAreTrue
<1> QED
  BY <1>2, <1>6 DEF PanelInv

(* What the other windows do leaves the panel and its signals alone.       *)
LEMMA OthersStep ==
  ASSUME PanelInv, UNCHANGED <<latest, digits, now, watched, announced, panelVars>>
  PROVE  PanelInv'
<1>1. SourceInv' /\ SumsInv'
  BY DEF panelVars, PanelInv, SourceInv, SumsInv, Between, LastValue
<1>2. DisplaysInv'
  BY DEF panelVars, PanelInv, DisplaysInv, ReadingsAreTrue
<1> QED
  BY <1>1, <1>2 DEF PanelInv

LEMMA PanelStep == PanelInv /\ [Next]_vars => PanelInv'
<1> SUFFICES ASSUME PanelInv, [Next]_vars
             PROVE  PanelInv'
  OBVIOUS
<1>1. CASE World /\ Others
  BY <1>1, WorldStep DEF Others
<1>2. CASE PowerPanelNext
  BY <1>2, SetSignalsStep, ResetDisplaysStep, OnUpdateStep, OnDigitsChangedStep DEF PowerPanelNext
<1>3. CASE DataViewNext /\ UNCHANGED panelVars
  BY <1>3, OthersStep DEF DataViewNext, AddSignal, OnTableEvent, digitVars, pushVars
<1>4. CASE MathChannelsNext /\ UNCHANGED panelVars
  BY <1>4, OthersStep DEF MathChannelsNext, AddMathChannel, OnSampleAppended, digitVars, pushVars
<1>5. CASE SignalSaveNext /\ UNCHANGED panelVars
  BY <1>5, OthersStep DEF SignalSaveNext, Accept, sourceVars, pushVars
<1>6. CASE UNCHANGED vars
  BY <1>6, OthersStep DEF vars, sourceVars, pushVars
<1> QED
  BY <1>1, <1>2, <1>3, <1>4, <1>5, <1>6 DEF Next

LEMMA PanelInvariance == Spec => []PanelInv
BY PanelInit, PanelStep, PTL DEF Spec

(* The charge and the energy of PowerPanelView::on_update() fit the lowest *)
(* and highest current and power that are shown with them, whenever they   *)
(* are reset, signals are exchanged, the timer is late or a signal empty.  *)
THEOREM SumsFitExtremes == Spec => []MeanIsBetweenExtremes
<1>1. PanelInv => MeanIsBetweenExtremes
  BY DEF PanelInv, SumsInv, MeanIsBetweenExtremes
<1> QED
  BY <1>1, PanelInvariance, PTL

(* The displays of the panel show their value with its own prefix, and the *)
(* digits the device has announced, for any values and digits:             *)
(* MonoFontDisplay::update_display() and util::format_value_si().          *)
THEOREM DisplaysReadTrue == Spec => []ReadingsAreTrue
<1>1. PanelInv => ReadingsAreTrue
  BY DEF PanelInv, DisplaysInv
<1> QED
  BY <1>1, PanelInvariance, PTL

-----------------------------------------------------------------------------
(* Sums of values, as the ring of an average has them                      *)

(* A set of numbers has a least element.                                   *)
LEMMA NatMin ==
  ASSUME NEW S \in SUBSET Nat, S # {}
  PROVE  \E m \in S : \A k \in S : m <= k
<1>1. PICK R : /\ IsWellFoundedOn(R, Nat)
               /\ \A k, m \in Nat : k < m => <<k, m>> \in R
  <2>1. \A k, m \in Nat : k < m => <<k, m>> \in OpToRel(<, Nat)
    BY SMT DEF OpToRel
  <2> QED BY <2>1, NatLessThanWellFounded, Zenon
<1>2. PICK m \in S : \A k \in S : ~ (<<k, m>> \in R)
  <2>1. S \subseteq Nat
    OBVIOUS
  <2>2. IsWellFoundedOn(R, Nat)
    BY <1>1
  <2> QED BY ONLY <2>1, <2>2, S # {}, WFMin
<1>3. ASSUME NEW k \in S, ~(m <= k)
      PROVE  FALSE
  <2>1. k \in Nat /\ m \in Nat /\ k < m
    BY <1>3
  <2> QED BY <1>1, <1>2, <2>1
<1> QED BY <1>3

(* The running sums of a function exist.                                   *)
LEMMA SumExists ==
  ASSUME NEW g
  PROVE  \E f : f = [k \in Nat |-> IF k = 0 THEN 0 ELSE f[k - 1] + g[k]]
<1> DEFINE Upto(n, h) == h = [k \in 0..n |-> IF k = 0 THEN 0 ELSE h[k - 1] + g[k]]
<1>1. ASSUME NEW n \in Nat
      PROVE  \E h : Upto(n, h)
  <2> DEFINE S == {m \in Nat : ~\E h : Upto(m, h)}
  <2>1. S \in SUBSET Nat
    OBVIOUS
  <2>2. ASSUME S # {}
        PROVE  FALSE
    <3>1. PICK m \in S : \A k \in S : m <= k
      BY <2>1, <2>2, NatMin
    <3>2. m \in Nat /\ ~\E h : Upto(m, h)
      BY <3>1
    <3>3. CASE m = 0
      <4>1. Upto(0, [k \in 0..0 |-> 0])
        OBVIOUS
      <4> QED BY <3>2, <3>3, <4>1
    <3>4. CASE m # 0
      <4>1. m - 1 \in Nat /\ ~(m <= m - 1)
        BY <3>2, <3>4
      <4>2. m - 1 \notin S
        BY <3>1, <4>1
      <4>3. PICK h : Upto(m - 1, h)
        BY <4>1, <4>2
      <4> DEFINE new == [k \in 0..m |-> IF k = m THEN h[m - 1] + g[m] ELSE h[k]]
      <4>4. ASSUME NEW k \in 0..m
            PROVE  new[k] = IF k = 0 THEN 0 ELSE new[k - 1] + g[k]
        <5>1. CASE k = m
          <6>1. new[k] = h[m - 1] + g[m] /\ new[m - 1] = h[m - 1]
            BY <3>2, <3>4, <4>1, <5>1
          <6> QED BY <3>4, <5>1, <6>1
        <5>2. CASE k # m
          <6>1. k \in 0..(m - 1) /\ new[k] = h[k] /\ (k # 0 => k - 1 \in 0..(m - 1) /\ new[k - 1] = h[k - 1])
            BY <3>2, <4>4, <5>2
          <6>2. h[k] = IF k = 0 THEN 0 ELSE h[k - 1] + g[k]
            BY <4>3, <6>1
          <6> QED BY <6>1, <6>2
        <5> QED BY <5>1, <5>2
      <4>5. Upto(m, new)
        BY <4>4
      <4> QED BY <3>2, <4>5
    <3> QED BY <3>3, <3>4
  <2> QED BY <2>2
<1>2. ASSUME NEW n \in Nat, NEW p \in Nat, NEW a, NEW b, Upto(n, a), Upto(p, b),
             NEW k \in 0..n, k <= p
      PROVE  a[k] = b[k]
  <2> DEFINE S == {j \in Nat : j <= n /\ j <= p /\ a[j] # b[j]}
  <2>1. ASSUME S # {}
        PROVE  FALSE
    <3>1. PICK m \in S : \A j \in S : m <= j
      <4>1. S \in SUBSET Nat
        OBVIOUS
      <4> QED BY <2>1, <4>1, NatMin
    <3>2. m \in Nat /\ m <= n /\ m <= p /\ a[m] # b[m] /\ m \in 0..n /\ m \in 0..p
      BY <3>1
    <3>3. /\ a[m] = IF m = 0 THEN 0 ELSE a[m - 1] + g[m]
          /\ b[m] = IF m = 0 THEN 0 ELSE b[m - 1] + g[m]
      BY <1>2, <3>2
    <3>4. m # 0 /\ m - 1 \in Nat /\ ~(m <= m - 1) /\ m - 1 <= n /\ m - 1 <= p
      BY <3>2, <3>3
    <3>5. a[m - 1] = b[m - 1]
      BY <3>1, <3>4
    <3> QED BY <3>2, <3>3, <3>5
  <2>2. k \in Nat /\ k <= n
    OBVIOUS
  <2> QED BY <1>2, <2>1, <2>2
<1> DEFINE H(n) == CHOOSE h : Upto(n, h)
           f == [k \in Nat |-> H(k)[k]]
<1>3. \A n \in Nat : Upto(n, H(n))
  BY <1>1
<1> HIDE DEF H
<1>4. ASSUME NEW k \in Nat
      PROVE  f[k] = IF k = 0 THEN 0 ELSE f[k - 1] + g[k]
  <2>1. f[k] = H(k)[k] /\ (k # 0 => k - 1 \in Nat /\ f[k - 1] = H(k - 1)[k - 1])
    OBVIOUS
  <2>2. Upto(k, H(k)) /\ k \in 0..k
    BY <1>3
  <2>3. H(k)[k] = IF k = 0 THEN 0 ELSE H(k)[k - 1] + g[k]
    BY <2>2
  <2>4. ASSUME k # 0
        PROVE  H(k)[k - 1] = H(k - 1)[k - 1]
    <3>1. k - 1 \in Nat /\ k - 1 \in 0..k /\ k - 1 <= k - 1 /\ Upto(k - 1, H(k - 1))
      BY <1>3, <2>4
    <3> HIDE DEF Upto
    <3> QED BY <1>2, <2>2, <3>1
  <2> QED BY <2>1, <2>3, <2>4
<1>5. f = [k \in Nat |-> IF k = 0 THEN 0 ELSE f[k - 1] + g[k]]
  BY <1>4
<1> QED BY <1>5

(* So do the states of a channel after the passes of its loop.             *)
LEMMA PassesExist ==
  ASSUME NEW x
  PROVE  \E f : f = [k \in Nat |-> IF k = 0 THEN x ELSE Process(f[k - 1])]
<1> DEFINE Upto(n, h) == h = [k \in 0..n |-> IF k = 0 THEN x ELSE Process(h[k - 1])]
<1>1. ASSUME NEW n \in Nat
      PROVE  \E h : Upto(n, h)
  <2> DEFINE S == {m \in Nat : ~\E h : Upto(m, h)}
  <2>1. S \in SUBSET Nat
    OBVIOUS
  <2>2. ASSUME S # {}
        PROVE  FALSE
    <3>1. PICK m \in S : \A k \in S : m <= k
      BY <2>1, <2>2, NatMin
    <3>2. m \in Nat /\ ~\E h : Upto(m, h)
      BY <3>1
    <3>3. CASE m = 0
      <4>1. Upto(0, [k \in 0..0 |-> x])
        OBVIOUS
      <4> QED BY <3>2, <3>3, <4>1
    <3>4. CASE m # 0
      <4>1. m - 1 \in Nat /\ ~(m <= m - 1)
        BY <3>2, <3>4
      <4>2. m - 1 \notin S
        BY <3>1, <4>1
      <4>3. PICK h : Upto(m - 1, h)
        BY <4>1, <4>2
      <4> DEFINE new == [k \in 0..m |-> IF k = m THEN Process(h[m - 1]) ELSE h[k]]
      <4>4. ASSUME NEW k \in 0..m
            PROVE  new[k] = IF k = 0 THEN x ELSE Process(new[k - 1])
        <5>1. CASE k = m
          <6>1. new[k] = Process(h[m - 1]) /\ new[m - 1] = h[m - 1]
            BY <3>2, <3>4, <4>1, <5>1
          <6> QED BY <3>4, <5>1, <6>1
        <5>2. CASE k # m
          <6>1. k \in 0..(m - 1) /\ new[k] = h[k] /\ (k # 0 => k - 1 \in 0..(m - 1) /\ new[k - 1] = h[k - 1])
            BY <3>2, <4>4, <5>2
          <6>2. h[k] = IF k = 0 THEN x ELSE Process(h[k - 1])
            BY <4>3, <6>1
          <6> QED BY <6>1, <6>2
        <5> QED BY <5>1, <5>2
      <4>5. Upto(m, new)
        BY <4>4
      <4> QED BY <3>2, <4>5
    <3> QED BY <3>3, <3>4
  <2> QED BY <2>2
<1>2. ASSUME NEW n \in Nat, NEW p \in Nat, NEW a, NEW b, Upto(n, a), Upto(p, b),
             NEW k \in 0..n, k <= p
      PROVE  a[k] = b[k]
  <2> DEFINE S == {j \in Nat : j <= n /\ j <= p /\ a[j] # b[j]}
  <2>1. ASSUME S # {}
        PROVE  FALSE
    <3>1. PICK m \in S : \A j \in S : m <= j
      <4>1. S \in SUBSET Nat
        OBVIOUS
      <4> QED BY <2>1, <4>1, NatMin
    <3>2. m \in Nat /\ m <= n /\ m <= p /\ a[m] # b[m] /\ m \in 0..n /\ m \in 0..p
      BY <3>1
    <3>3. /\ a[m] = IF m = 0 THEN x ELSE Process(a[m - 1])
          /\ b[m] = IF m = 0 THEN x ELSE Process(b[m - 1])
      BY <1>2, <3>2
    <3>4. m # 0 /\ m - 1 \in Nat /\ ~(m <= m - 1) /\ m - 1 <= n /\ m - 1 <= p
      BY <3>2, <3>3
    <3>5. a[m - 1] = b[m - 1]
      BY <3>1, <3>4
    <3> QED BY <3>2, <3>3, <3>5
  <2>2. k \in Nat /\ k <= n
    OBVIOUS
  <2> QED BY <1>2, <2>1, <2>2
<1> DEFINE H(n) == CHOOSE h : Upto(n, h)
           f == [k \in Nat |-> H(k)[k]]
<1>3. \A n \in Nat : Upto(n, H(n))
  BY <1>1
<1> HIDE DEF H
<1>4. ASSUME NEW k \in Nat
      PROVE  f[k] = IF k = 0 THEN x ELSE Process(f[k - 1])
  <2>1. f[k] = H(k)[k] /\ (k # 0 => k - 1 \in Nat /\ f[k - 1] = H(k - 1)[k - 1])
    OBVIOUS
  <2>2. Upto(k, H(k)) /\ k \in 0..k
    BY <1>3
  <2>3. H(k)[k] = IF k = 0 THEN x ELSE Process(H(k)[k - 1])
    BY <2>2
  <2>4. ASSUME k # 0
        PROVE  H(k)[k - 1] = H(k - 1)[k - 1]
    <3>1. k - 1 \in Nat /\ k - 1 \in 0..k /\ k - 1 <= k - 1 /\ Upto(k - 1, H(k - 1))
      BY <1>3, <2>4
    <3> HIDE DEF Upto
    <3> QED BY <1>2, <2>2, <3>1
  <2> QED BY <2>1, <2>3, <2>4
<1>5. f = [k \in Nat |-> IF k = 0 THEN x ELSE Process(f[k - 1])]
  BY <1>4
<1> QED BY <1>5

LEMMA SumsAre ==
  ASSUME NEW v, NEW k \in Nat
  PROVE  Sums(v)[k] = IF k = 0 THEN 0 ELSE Sums(v)[k - 1] + v[k]
<1>1. \E f : f = [i \in Nat |-> IF i = 0 THEN 0 ELSE f[i - 1] + v[i]]
  BY SumExists
<1>2. Sums(v) = [i \in Nat |-> IF i = 0 THEN 0 ELSE Sums(v)[i - 1] + v[i]]
  BY <1>1 DEF Sums
<1> QED
  BY <1>2

(* The first n values are numbers; w are those that come after a others.   *)
Numbers(v, n)    == \A k \in 1..n : v[k] \in Int
Part(w, v, a, n) == \A k \in 1..n : w[k] = v[a + k]

LEMMA SumsInt ==
  ASSUME NEW v, NEW n \in Nat, Numbers(v, n), NEW j \in 0..n
  PROVE  Sums(v)[j] \in Int
<1> DEFINE S == {k \in Nat : k <= n /\ Sums(v)[k] \notin Int}
<1>1. ASSUME S # {}
      PROVE  FALSE
  <2>1. PICK m \in S : \A k \in S : m <= k
    <3>1. S \in SUBSET Nat
      OBVIOUS
    <3> QED
      BY <1>1, <3>1, NatMin
  <2>2. m \in Nat /\ m <= n /\ Sums(v)[m] \notin Int
    BY <2>1
  <2>3. m # 0
    BY <2>2, SumsAre
  <2>4. m - 1 \in Nat /\ m - 1 <= n /\ ~(m <= m - 1) /\ m \in 1..n
    BY <2>2, <2>3
  <2>5. Sums(v)[m - 1] \in Int
    BY <2>1, <2>4
  <2> QED
    BY <2>2, <2>3, <2>4, <2>5, SumsAre DEF Numbers
<1>2. j \in Nat /\ j <= n
  OBVIOUS
<1> QED
  BY <1>1, <1>2

(* What starts at 0 and grows by the values is their running sum.          *)
LEMMA SumsAreAll ==
  ASSUME NEW v, NEW n \in Nat, NEW h, h[0] = 0, \A k \in 1..n : h[k] = h[k - 1] + v[k],
         NEW j \in 0..n
  PROVE  Sums(v)[j] = h[j]
<1> DEFINE S == {k \in Nat : k <= n /\ Sums(v)[k] # h[k]}
<1>1. ASSUME S # {}
      PROVE  FALSE
  <2>1. PICK m \in S : \A k \in S : m <= k
    <3>1. S \in SUBSET Nat
      OBVIOUS
    <3> QED
      BY <1>1, <3>1, NatMin
  <2>2. m \in Nat /\ m <= n /\ Sums(v)[m] # h[m]
    BY <2>1
  <2>3. m # 0
    BY <2>2, SumsAre
  <2>4. m - 1 \in Nat /\ m - 1 <= n /\ ~(m <= m - 1) /\ m \in 1..n
    BY <2>2, <2>3
  <2>5. Sums(v)[m - 1] = h[m - 1]
    BY <2>1, <2>4
  <2> QED
    BY <2>2, <2>3, <2>4, <2>5, SumsAre
<1>2. j \in Nat /\ j <= n
  OBVIOUS
<1> QED
  BY <1>1, <1>2

(* Another value in one place.                                             *)
LEMMA SumsChange ==
  ASSUME NEW v, NEW w, NEW n \in Nat, Numbers(v, n),
         NEW i \in 1..n, w[i] \in Int, \A k \in 1..n : k # i => w[k] = v[k]
  PROVE  Sums(w)[n] = Sums(v)[n] + w[i] - v[i]
<1> DEFINE h == [k \in 0..n |-> IF i <= k THEN Sums(v)[k] + w[i] - v[i] ELSE Sums(v)[k]]
<1>1. \A k \in 0..n : Sums(v)[k] \in Int
  BY SumsInt
<1>2. h[0] = 0
  BY SumsAre
<1>3. ASSUME NEW k \in 1..n
      PROVE  h[k] = h[k - 1] + w[k]
  <2>1. k \in 0..n /\ k - 1 \in 0..n /\ k \in Nat /\ k # 0 /\ v[k] \in Int /\ v[i] \in Int /\ w[i] \in Int
    BY DEF Numbers
  <2>2. Sums(v)[k] = Sums(v)[k - 1] + v[k]
    BY <2>1, SumsAre
  <2>3. Sums(v)[k] \in Int /\ Sums(v)[k - 1] \in Int
    BY <1>1, <2>1
  <2>4. h[k] = (IF i <= k THEN Sums(v)[k] + w[i] - v[i] ELSE Sums(v)[k])
        /\ h[k - 1] = (IF i <= k - 1 THEN Sums(v)[k - 1] + w[i] - v[i] ELSE Sums(v)[k - 1])
    BY <2>1
  <2> HIDE DEF h
  <2>5. CASE k = i
    BY <2>1, <2>2, <2>3, <2>4, <2>5
  <2>6. CASE k # i
    <3>1. w[k] = v[k] /\ (i <= k <=> i <= k - 1)
      BY <2>6
    <3> QED
      BY <2>1, <2>2, <2>3, <2>4, <3>1
  <2> QED
    BY <2>5, <2>6
<1>4. n \in 0..n /\ h[n] = Sums(v)[n] + w[i] - v[i]
  OBVIOUS
<1> HIDE DEF h
<1>5. Sums(w)[n] = h[n]
  BY <1>2, <1>3, <1>4, SumsAreAll
<1> QED
  BY <1>4, <1>5

(* Values that stand a places earlier.                                     *)
LEMMA SumsPart ==
  ASSUME NEW v, NEW w, NEW a \in Nat, NEW n \in Nat,
         Numbers(v, a + n), Part(w, v, a, n)
  PROVE  Sums(w)[n] = Sums(v)[a + n] - Sums(v)[a]
<1> DEFINE h == [k \in 0..n |-> Sums(v)[a + k] - Sums(v)[a]]
<1>1. \A k \in 0..(a + n) : Sums(v)[k] \in Int
  <2>1. a + n \in Nat
    OBVIOUS
  <2> QED
    BY <2>1, SumsInt
<1>2. h[0] = 0
  <2>1. a \in 0..(a + n) /\ a + 0 = a
    OBVIOUS
  <2>2. h[0] = Sums(v)[a] - Sums(v)[a]
    BY <2>1
  <2> QED
    BY <1>1, <2>1, <2>2
<1>3. ASSUME NEW k \in 1..n
      PROVE  h[k] = h[k - 1] + w[k]
  <2>1. /\ k \in 0..n /\ k - 1 \in 0..n /\ a + k \in Nat /\ a + k # 0 /\ (a + k) - 1 = a + (k - 1)
        /\ a + k \in 0..(a + n) /\ a + (k - 1) \in 0..(a + n) /\ a \in 0..(a + n) /\ a + k \in 1..(a + n)
    <3>0. k \in Nat /\ 1 <= k /\ k <= n
      OBVIOUS
    <3> QED
      BY ONLY <3>0, a \in Nat, n \in Nat
  <2>2. Sums(v)[a + k] = Sums(v)[a + (k - 1)] + v[a + k]
    BY <2>1, SumsAre
  <2>3. h[k] = Sums(v)[a + k] - Sums(v)[a] /\ h[k - 1] = Sums(v)[a + (k - 1)] - Sums(v)[a]
    BY <2>1
  <2> HIDE DEF h
  <2>4. Sums(v)[a + k] \in Int /\ Sums(v)[a + (k - 1)] \in Int /\ Sums(v)[a] \in Int /\ v[a + k] \in Int
    BY <1>1, <2>1 DEF Numbers
  <2>5. w[k] = v[a + k]
    BY DEF Part
  <2> QED
    BY <2>2, <2>3, <2>4, <2>5
<1>4. n \in 0..n /\ h[n] = Sums(v)[a + n] - Sums(v)[a]
  OBVIOUS
<1> HIDE DEF h
<1>5. Sums(w)[n] = h[n]
  BY ONLY <1>2, <1>3, <1>4, n \in Nat, SumsAreAll
<1> QED
  BY <1>4, <1>5

LEMMA SumsZero ==
  ASSUME NEW v, NEW n \in Nat, \A k \in 1..n : v[k] = 0
  PROVE  Sums(v)[n] = 0
<1> DEFINE h == [k \in 0..n |-> 0]
<1>1. h[0] = 0 /\ h[n] = 0 /\ n \in 0..n
  OBVIOUS
<1>2. \A k \in 1..n : h[k] = h[k - 1] + v[k]
  OBVIOUS
<1> HIDE DEF h
<1> QED
  BY <1>1, <1>2, SumsAreAll

(* Samples of a ring that is shorter than their distance share no slot.    *)
LEMMA MoreThanAll ==
  ASSUME NEW n \in Nat \ {0}, NEW d \in Int, n * d < n, -n < n * d
  PROVE  d = 0
<1>1. d >= 1 => n * d >= n
  OBVIOUS
<1>2. d <= -1 => n * d <= -n
  OBVIOUS
<1> QED
  BY <1>1, <1>2

LEMMA Remainder ==
  ASSUME NEW n \in Nat \ {0}, NEW a \in Nat
  PROVE  a % n \in 0..(n - 1) /\ a \div n \in Int /\ a = n * (a \div n) + (a % n)
<1>1. a % n \in 0..(n - 1)
  OBVIOUS
<1>2. a \div n \in Int
  OBVIOUS
<1>3. a = n * (a \div n) + (a % n)
  OBVIOUS
<1> QED
  BY <1>1, <1>2, <1>3

LEMMA SlotInRing ==
  ASSUME NEW n \in Nat \ {0}, NEW a \in Nat
  PROVE  Slot(a, n) \in 1..n
BY Remainder DEF Slot

LEMMA SlotsDiffer ==
  ASSUME NEW n \in Nat \ {0}, NEW a \in Nat, NEW b \in Nat, a < b, b < a + n
  PROVE  Slot(a, n) # Slot(b, n)
<1> DEFINE p == a \div n  q == b \div n  r == a % n  s == b % n
<1>1. p \in Int /\ r \in 0..(n - 1) /\ a = n * p + r /\ q \in Int /\ s \in 0..(n - 1) /\ b = n * q + s
  BY Remainder
<1>2. Slot(a, n) = r + 1 /\ Slot(b, n) = s + 1
  BY DEF Slot
<1> HIDE DEF p, q, r, s
<1>3. ASSUME r = s
      PROVE  FALSE
  <2>1. n * (q - p) = n * q - n * p /\ n * q \in Int /\ n * p \in Int /\ q - p \in Int
    BY <1>1
  <2>2. n * (q - p) = b - a
    BY <1>1, <1>3, <2>1
  <2>3. q - p = 0
    BY <2>1, <2>2, MoreThanAll
  <2> QED
    BY <2>2, <2>3
<1> QED
  BY <1>1, <1>2, <1>3

LEMMA SlotsRepeat ==
  ASSUME NEW n \in Nat \ {0}, NEW a \in Nat
  PROVE  Slot(a + n, n) = Slot(a, n)
<1> DEFINE p == a \div n  q == (a + n) \div n  r == a % n  s == (a + n) % n
<1>0. a + n \in Nat
  OBVIOUS
<1>1. p \in Int /\ r \in 0..(n - 1) /\ a = n * p + r /\ q \in Int /\ s \in 0..(n - 1) /\ a + n = n * q + s
  BY <1>0, Remainder
<1>2. Slot(a, n) = r + 1 /\ Slot(a + n, n) = s + 1
  BY DEF Slot
<1> HIDE DEF p, q, r, s
<1>3. n * (q - p - 1) = n * q - n * p - n /\ n * q \in Int /\ n * p \in Int /\ q - p - 1 \in Int
  BY <1>1
<1>4. n * (q - p - 1) = r - s
  BY <1>1, <1>3
<1>5. q - p - 1 = 0
  BY <1>1, <1>3, <1>4, MoreThanAll
<1>6. r - s = 0
  BY <1>4, <1>5
<1> QED
  BY <1>1, <1>2, <1>6

-----------------------------------------------------------------------------
(* The last values of a signal                                             *)

StoredSamples == [t : Nat, v : Int]
Channels == [kind : {"MultiplySF"}, signal : Signals, by : Factors]
            \cup [kind : {"MovingAvg"}, signal : Signals, by : Windows]
ValuesOf(of) == [k \in DOMAIN of |-> of[k].v]

(* The ring after n samples: the last ones, zeros before, and their sum.   *)
Recent(values, n, size) == Sums(values)[n] - (IF n < size THEN 0 ELSE Sums(values)[n - size])
RingHolds(ring, values, n, size) ==
  /\ ring \in Seq(Int) /\ Len(ring) = size
  /\ \A k \in 1..n : n < k + size => ring[Slot(k - 1, size)] = values[k]
  /\ \A i \in 1..size : n < i => ring[i] = 0
  /\ Sums(ring)[size] = Recent(values, n, size)

ResultIsRight(c, of, k, result) ==
  /\ result.t = of[k].t
  /\ c.kind = "MultiplySF" => result.v = c.by * of[k].v
  /\ c.kind = "MovingAvg" /\ k >= c.by => result.v = Recent(ValuesOf(of), k, c.by) \div c.by

(* A channel that has followed a signal so far: [next, window, results].   *)
Follows(c, of, state) ==
  /\ state.next \in 0..Len(of)
  /\ state.results \in Seq(StoredSamples) /\ Len(state.results) = state.next
  /\ \A k \in 1..state.next : ResultIsRight(c, of, k, state.results[k])
  /\ c.kind = "MovingAvg" => RingHolds(state.window, ValuesOf(of), state.next, c.by)

LEMMA ValuesAre ==
  ASSUME NEW of \in Seq(StoredSamples)
  PROVE  /\ ValuesOf(of) \in Seq(Int) /\ Len(ValuesOf(of)) = Len(of)
         /\ \A k \in 1..Len(of) : ValuesOf(of)[k] = of[k].v /\ of[k].v \in Int /\ of[k].t \in Nat
<1>1. \A k \in 1..Len(of) : of[k] \in StoredSamples
  BY ElementOfSeq
<1>2. \A k \in 1..Len(of) : of[k].v \in Int /\ of[k].t \in Nat
  BY <1>1 DEF StoredSamples
<1>3. DOMAIN of = 1..Len(of) /\ Len(of) \in Nat
  BY LenProperties
<1>4. ValuesOf(of) = [k \in 1..Len(of) |-> of[k].v]
  BY <1>3 DEF ValuesOf
<1>5. ValuesOf(of) \in Seq(Int) /\ Len(ValuesOf(of)) = Len(of)
  BY <1>2, <1>3, <1>4
<1> QED
  BY <1>2, <1>4, <1>5

(* The mean of the last values is made of two sums.                        *)
LEMMA MeanIs ==
  ASSUME NEW values \in Seq(Int), NEW n \in 1..Len(values), NEW size \in Nat \ {0}, size <= n
  PROVE  Mean(values, n, size) = Recent(values, n, size) \div size
<1>1. Len(values) \in Nat /\ \A k \in 1..Len(values) : values[k] \in Int
  BY LenProperties, ElementOfSeq
<1>2. n - size \in Nat /\ n \in Nat /\ size \in Nat /\ (n - size) + size = n /\ n - size + 1 \in Int
      /\ n - size + 1 <= n /\ n - (n - size + 1) + 1 = size /\ ~(n < size)
  BY <1>1
<1>3. PICK a \in Nat, m \in Nat : a = n - size /\ m = size
  BY <1>2
<1>4. PICK part : part = SubSeq(values, n - size + 1, n)
  OBVIOUS
<1>5. \A k \in (n - size + 1)..n : values[k] \in Int
  BY <1>1, <1>2
<1>6. Len(part) = m /\ \A k \in 1..m : part[k] = values[(n - size + 1) + k - 1]
  BY <1>2, <1>3, <1>4, <1>5, SubSeqProperties
<1>7. Part(part, values, a, m)
  <2>1. \A k \in 1..m : (n - size + 1) + k - 1 = a + k
    BY <1>2, <1>3
  <2> QED
    BY <1>6, <2>1 DEF Part
<1>8. Numbers(values, a + m)
  BY <1>1, <1>2, <1>3 DEF Numbers
<1>9. Sums(part)[m] = Sums(values)[a + m] - Sums(values)[a]
  BY ONLY <1>7, <1>8, SumsPart
<1>10. Total(part) = Sums(values)[n] - Sums(values)[n - size]
  BY <1>2, <1>3, <1>6, <1>9 DEF Total
<1> QED
  BY <1>2, <1>3, <1>4, <1>10 DEF Mean, Recent

(* Values that come later are not among the recent ones.                   *)
LEMMA RecentStays ==
  ASSUME NEW v, NEW w, NEW m \in Nat, Numbers(v, m), Part(w, v, 0, m),
         NEW n \in 0..m, NEW size \in Nat
  PROVE  Recent(w, n, size) = Recent(v, n, size)
<1>1. ASSUME NEW k \in 0..m
      PROVE  Sums(w)[k] = Sums(v)[k]
  <2>1. k \in Nat /\ 0 \in Nat /\ Numbers(v, 0 + k) /\ Numbers(v, k) /\ Part(w, v, 0, k) /\ k \in 0..k
    BY DEF Numbers, Part
  <2>2. Sums(w)[k] = Sums(v)[0 + k] - Sums(v)[0]
    BY ONLY <2>1, SumsPart
  <2>3. Sums(v)[0] = 0 /\ Sums(v)[k] \in Int /\ 0 + k = k
    BY <2>1, SumsAre, SumsInt
  <2> QED
    BY <2>2, <2>3
<1>2. ~(n < size) => n - size \in 0..m
  OBVIOUS
<1> QED
  BY <1>1, <1>2 DEF Recent

LEMMA RingMoves ==
  ASSUME NEW values \in Seq(Int), NEW n \in 0..(Len(values) - 1), NEW size \in Nat \ {0},
         NEW ring, RingHolds(ring, values, n, size)
  PROVE  LET slot == Slot(n, size)
         IN  RingHolds([ring EXCEPT ![slot] = values[n + 1]], values, n + 1, size)
<1> DEFINE slot == Slot(n, size)
           x == values[n + 1]
           new == [ring EXCEPT ![slot] = x]
<1>1. /\ Len(values) \in Nat /\ n \in Nat /\ n + 1 \in 1..Len(values)
      /\ \A k \in 1..Len(values) : values[k] \in Int
  BY LenProperties, ElementOfSeq
<1>2. x \in Int /\ slot \in 1..size
  BY <1>1, SlotInRing
<1>3. ring \in Seq(Int) /\ Len(ring) = size /\ \A i \in 1..size : ring[i] \in Int
  BY ElementOfSeq DEF RingHolds
<1> HIDE DEF x, slot
<1>4. /\ new \in Seq(Int) /\ Len(new) = size /\ new[slot] = x
      /\ \A i \in 1..size : i # slot => new[i] = ring[i]
  BY <1>2, <1>3, ExceptSeq
<1> HIDE DEF new
<1>5. ASSUME NEW k \in 1..(n + 1), n + 1 < k + size
      PROVE  new[Slot(k - 1, size)] = values[k]
  <2>1. CASE k = n + 1
    BY <1>1, <1>4, <2>1 DEF slot, x
  <2>2. CASE k # n + 1
    <3>1. k \in 1..n /\ n < k + size /\ k - 1 \in Nat /\ k - 1 < n /\ n < (k - 1) + size
      BY <1>1, <1>5, <2>2
    <3>2. Slot(k - 1, size) # slot /\ Slot(k - 1, size) \in 1..size
      BY <1>1, <3>1, SlotsDiffer, SlotInRing DEF slot
    <3>3. ring[Slot(k - 1, size)] = values[k]
      BY <3>1 DEF RingHolds
    <3> QED
      BY <1>4, <3>2, <3>3
  <2> QED
    BY <2>1, <2>2
<1>6. n < size => slot = n + 1
  <2>1. ASSUME n < size
        PROVE  n % size = n
    BY <1>1, <2>1
  <2> QED
    BY <1>1, <2>1 DEF slot, Slot
<1>7. ASSUME NEW i \in 1..size, n + 1 < i
      PROVE  new[i] = 0
  <2>1. n < size /\ n < i /\ i # n + 1
    BY <1>1, <1>7
  <2>2. ring[i] = 0
    BY <2>1 DEF RingHolds
  <2> QED
    BY <1>4, <1>6, <2>1, <2>2
<1>8. Sums(new)[size] = Sums(ring)[size] + x - ring[slot]
  <2>1. \A w : w[slot] = x /\ (\A i \in 1..size : i # slot => w[i] = ring[i])
              => Sums(w)[size] = Sums(ring)[size] + w[slot] - ring[slot]
    BY <1>2, <1>3, SumsChange DEF Numbers
  <2> QED
    BY <1>4, <2>1
<1>9. \A k \in 0..Len(values) : Sums(values)[k] \in Int
  BY <1>1, SumsInt DEF Numbers
<1>10. Sums(values)[n + 1] = Sums(values)[n] + x
  <2>1. n + 1 \in Nat /\ n + 1 # 0 /\ (n + 1) - 1 = n
    BY <1>1
  <2> QED
    BY <2>1, SumsAre DEF x
<1>11. Sums(ring)[size] = Recent(values, n, size)
  BY DEF RingHolds
<1>12. Sums(new)[size] = Recent(values, n + 1, size)
  <2>1. n \in 0..Len(values)
    BY <1>1
  <2>2. CASE n < size
    <3>1. ring[slot] = 0
      <4>1. n + 1 \in 1..size /\ n < n + 1
        BY <1>1, <2>2
      <4> QED
        BY <1>6, <2>2, <4>1 DEF RingHolds
    <3>2. Recent(values, n, size) = Sums(values)[n]
      BY <1>9, <2>1, <2>2 DEF Recent
    <3>3. Recent(values, n + 1, size) = Sums(values)[n + 1]
      <4>1. CASE n + 1 < size
        BY <1>9, <1>1, <4>1 DEF Recent
      <4>2. CASE n + 1 = size
        <5>1. Sums(values)[0] = 0 /\ Sums(values)[n + 1] \in Int /\ ~(n + 1 < size) /\ (n + 1) - size = 0
          BY <1>1, <1>9, <4>2, SumsAre
        <5> QED
          BY <5>1 DEF Recent
      <4> QED
        BY <1>1, <2>2, <4>1, <4>2
    <3> QED
      BY <1>2, <1>8, <1>9, <1>10, <1>11, <2>1, <3>1, <3>2, <3>3
  <2>3. CASE ~(n < size)
    <3> DEFINE k == n - size
    <3>1. k \in Nat /\ k + 1 \in 1..n /\ k \in 0..Len(values) /\ k + 1 \in 0..Len(values)
          /\ n < (k + 1) + size /\ (n + 1) - size = k + 1 /\ k + size = n /\ (k + 1) - 1 = k /\ k + 1 # 0
      BY <1>1, <2>3
    <3>2. Slot(k, size) = slot
      BY <3>1, SlotsRepeat DEF slot
    <3>3. ring[slot] = values[k + 1]
      <4>1. ring[Slot((k + 1) - 1, size)] = values[k + 1]
        BY <3>1 DEF RingHolds
      <4> QED
        BY <3>1, <3>2, <4>1
    <3>4. Sums(values)[k + 1] = Sums(values)[k] + values[k + 1]
      <4>1. k + 1 \in Nat
        BY <3>1
      <4> QED
        BY <3>1, <4>1, SumsAre
    <3>5. Recent(values, n, size) = Sums(values)[n] - Sums(values)[k]
      BY <2>3 DEF Recent
    <3>6. Recent(values, n + 1, size) = Sums(values)[n + 1] - Sums(values)[k + 1]
      <4>1. ~(n + 1 < size)
        BY <1>1, <2>3
      <4> QED
        BY <3>1, <4>1 DEF Recent
    <3>7. /\ Sums(values)[n] \in Int /\ Sums(values)[k] \in Int /\ Sums(values)[k + 1] \in Int
          /\ Sums(values)[n + 1] \in Int /\ values[k + 1] \in Int
      BY <1>1, <1>9, <2>1, <3>1
    <3> HIDE DEF k
    <3> QED
      <4>1. Sums(new)[size] = (Sums(values)[n] - Sums(values)[k]) + x - values[k + 1]
        BY <1>8, <1>11, <3>3, <3>5
      <4>2. Recent(values, n + 1, size) = (Sums(values)[n] + x) - (Sums(values)[k] + values[k + 1])
        BY <1>10, <3>4, <3>6
      <4>3. \A p, q, r, y \in Int : (p - q) + y - r = (p + y) - (q + r)
        OBVIOUS
      <4>4. x \in Int
        BY <1>2
      <4>5. (Sums(values)[n] - Sums(values)[k]) + x - values[k + 1]
              = (Sums(values)[n] + x) - (Sums(values)[k] + values[k + 1])
        BY ONLY <3>7, <4>3, <4>4
      <4> QED
        BY <4>1, <4>2, <4>5
  <2> QED
    BY <2>2, <2>3
<1>13. RingHolds(new, values, n + 1, size)
  BY <1>4, <1>5, <1>7, <1>12 DEF RingHolds
<1> QED
  BY <1>13 DEF new, slot, x

-----------------------------------------------------------------------------
(* The loop of a math channel                                              *)
LEMMA ChannelIs ==
  ASSUME NEW c \in Channels
  PROVE  /\ c.signal \in Signals
         /\ \/ c.kind = "MultiplySF" /\ c.by \in Int
            \/ c.kind = "MovingAvg" /\ c.by \in Nat \ {0}
BY MathAssumption DEF Channels

(* A pass of the loop follows the signal for one sample more.              *)
LEMMA ProcessFollows ==
  ASSUME NEW c \in Channels, channel = <<c>>, NEW of \in Seq(StoredSamples), samples[c.signal] = of,
         NEW state, Follows(c, of, state), state.next < Len(of)
  PROVE  Follows(c, of, Process(state)) /\ Process(state).next = state.next + 1
<1> DEFINE n == state.next
           x == of[n + 1]
           ring == IF c.kind = "MovingAvg"
                   THEN [state.window EXCEPT ![Slot(n, c.by)] = x.v] ELSE state.window
           v == IF c.kind = "MovingAvg" THEN Total(ring) \div c.by ELSE c.by * x.v
           new == Process(state)
           values == ValuesOf(of)
<1>1. /\ new.next = n + 1 /\ new.window = ring
      /\ new.results = Append(state.results, [t |-> x.t, v |-> v])
  BY DEF Process
<1>2. n \in Nat /\ Len(of) \in Nat /\ n + 1 \in 1..Len(of) /\ n \in 0..(Len(of) - 1)
  BY LenProperties DEF Follows
<1>3. x.t \in Nat /\ x.v \in Int /\ values[n + 1] = x.v /\ values \in Seq(Int) /\ Len(values) = Len(of)
  BY <1>2, ValuesAre
<1> HIDE DEF new, values
<1>4. ASSUME c.kind = "MovingAvg"
      PROVE  RingHolds(ring, values, n + 1, c.by) /\ v = Recent(values, n + 1, c.by) \div c.by /\ v \in Int
  <2>1. c.by \in Nat \ {0}
    BY <1>4, ChannelIs
  <2>2. RingHolds(state.window, values, n, c.by)
    BY <1>4 DEF Follows, values
  <2>3. ring = [state.window EXCEPT ![Slot(n, c.by)] = values[n + 1]]
    BY <1>3, <1>4
  <2>4. RingHolds(ring, values, n + 1, c.by)
    BY <1>2, <1>3, <2>1, <2>2, <2>3, RingMoves
  <2> HIDE DEF n, x, ring
  <2>5. v = Sums(ring)[c.by] \div c.by
    BY <1>4, <2>4 DEF Total, RingHolds
  <2>6. Sums(ring)[c.by] = Recent(values, n + 1, c.by)
    BY <2>4 DEF RingHolds
  <2>7. Sums(ring)[c.by] \in Int
    <3>1. Numbers(ring, c.by)
      BY <2>4, ElementOfSeq DEF RingHolds, Numbers
    <3> QED
      BY <2>1, <3>1, SumsInt
  <2> HIDE DEF v
  <2> QED
    BY <2>1, <2>4, <2>5, <2>6, <2>7
<1>5. v \in Int /\ (c.kind = "MultiplySF" => v = c.by * x.v)
  <2>1. CASE c.kind = "MovingAvg"
    BY <1>4, <2>1
  <2>2. CASE c.kind = "MultiplySF"
    <3>1. c.by \in Int /\ c.kind # "MovingAvg"
      BY <2>2, ChannelIs
    <3>2. v = c.by * x.v
      BY <3>1
    <3>3. \A a, b \in Int : a * b \in Int
      OBVIOUS
    <3> HIDE DEF v, x
    <3> QED
      BY <1>3, <3>1, <3>2, <3>3
  <2> QED
    BY <2>1, <2>2, ChannelIs
<1> HIDE DEF v, ring
<1>6. state.results \in Seq(StoredSamples) /\ Len(state.results) = n
  BY DEF Follows
<1>7. [t |-> x.t, v |-> v] \in StoredSamples
  BY <1>3, <1>5 DEF StoredSamples
<1> HIDE DEF x, n
<1>8. /\ new.results \in Seq(StoredSamples) /\ Len(new.results) = n + 1
      /\ new.results[n + 1] = [t |-> x.t, v |-> v]
      /\ \A k \in 1..n : new.results[k] = state.results[k]
  BY <1>1, <1>2, <1>6, <1>7
<1>9. ASSUME NEW k \in 1..(n + 1)
      PROVE  ResultIsRight(c, of, k, new.results[k])
  <2>1. CASE k = n + 1
    BY <1>4, <1>5, <1>8, <2>1 DEF ResultIsRight, x, values
  <2>2. CASE k # n + 1
    <3>1. k \in 1..n
      BY <1>2, <2>2
    <3>2. ResultIsRight(c, of, k, state.results[k])
      BY <3>1 DEF Follows, n
    <3> QED
      BY <1>8, <3>1, <3>2
  <2> QED
    BY <2>1, <2>2
<1>10. Follows(c, of, new)
  BY <1>1, <1>2, <1>4, <1>8, <1>9 DEF Follows, values
<1> QED
  BY <1>1, <1>10 DEF new, n

LEMMA PassesAre ==
  ASSUME NEW k \in Nat
  PROVE  Passes[k] = IF k = 0 THEN [next |-> next, window |-> window, results |-> results]
                              ELSE Process(Passes[k - 1])
<1> DEFINE x == [next |-> next, window |-> window, results |-> results]
<1>1. \E f : f = [i \in Nat |-> IF i = 0 THEN x ELSE Process(f[i - 1])]
  BY PassesExist
<1>2. Passes = [i \in Nat |-> IF i = 0 THEN x ELSE Process(Passes[i - 1])]
  BY <1>1 DEF Passes
<1> QED
  BY <1>2

LEMMA LoopFollows ==
  ASSUME NEW c \in Channels, channel = <<c>>, NEW of \in Seq(StoredSamples), samples[c.signal] = of,
         Follows(c, of, [next |-> next, window |-> window, results |-> results]),
         NEW n \in Nat, next + n <= Len(of)
  PROVE  Follows(c, of, Passes[n]) /\ Passes[n].next = next + n
<1> DEFINE Good(k) == Follows(c, of, Passes[k]) /\ Passes[k].next = next + k
           S == {k \in Nat : k <= n /\ ~Good(k)}
<1>1. next \in Nat /\ Len(of) \in Nat
  BY LenProperties DEF Follows
<1>2. ASSUME S # {}
      PROVE  FALSE
  <2>1. PICK m \in S : \A k \in S : m <= k
    <3>1. S \in SUBSET Nat
      OBVIOUS
    <3> QED
      BY <1>2, <3>1, NatMin
  <2>2. m \in Nat /\ m <= n /\ ~Good(m)
    BY <2>1
  <2>3. m # 0
    <3>1. Passes[0] = [next |-> next, window |-> window, results |-> results]
      BY PassesAre
    <3>2. Good(0)
      BY <1>1, <3>1
    <3> QED
      BY <2>2, <3>2
  <2>4. m - 1 \in Nat /\ m - 1 <= n /\ ~(m <= m - 1) 
        /\ next + (m - 1) < Len(of) /\ next + (m - 1) + 1 = next + m
    BY <1>1, <2>2, <2>3
  <2>5. Good(m - 1)
    BY <2>1, <2>4
  <2>6. Passes[m] = Process(Passes[m - 1])
    BY <2>2, <2>3, PassesAre
  <2>7. Follows(c, of, Process(Passes[m - 1])) /\ Process(Passes[m - 1]).next = Passes[m - 1].next + 1
    BY <2>4, <2>5, ProcessFollows
  <2>8. Good(m)
    BY <2>4, <2>5, <2>6, <2>7
  <2> QED
    BY <2>2, <2>8
<1>3. n \in Nat /\ n <= n
  OBVIOUS
<1>4. Good(n)
  BY <1>2, <1>3
<1> QED
  BY <1>4

(* Samples that come do not change what was followed so far.               *)
LEMMA StillFollows ==
  ASSUME NEW c \in Channels, NEW of \in Seq(StoredSamples), NEW x \in StoredSamples,
         NEW state, Follows(c, of, state)
  PROVE  Follows(c, Append(of, x), state)
<1> DEFINE more == Append(of, x)  v == ValuesOf(of)  w == ValuesOf(more)  n == state.next
<1>1. /\ more \in Seq(StoredSamples) /\ Len(more) = Len(of) + 1 /\ Len(of) \in Nat
      /\ \A k \in 1..Len(of) : more[k] = of[k]
  BY LenProperties
<1> HIDE DEF more
<1>2. n \in 0..Len(of) /\ n \in 0..Len(more) /\ n \in Nat
  BY <1>1 DEF Follows
<1>3. \A k \in 1..Len(of) : v[k] \in Int /\ w[k] = v[k]
  <2>1. \A k \in 1..Len(of) : k \in 1..Len(more)
    BY <1>1
  <2>2. \A k \in 1..Len(of) : v[k] = of[k].v /\ of[k].v \in Int
    BY ValuesAre
  <2>3. \A k \in 1..Len(more) : w[k] = more[k].v
    BY <1>1, ValuesAre
  <2> HIDE DEF v, w
  <2> QED
    BY <1>1, <2>1, <2>2, <2>3
<1> HIDE DEF v, w, n
<1>4. ASSUME c.kind = "MovingAvg", NEW k \in 0..n
      PROVE  Recent(w, k, c.by) = Recent(v, k, c.by)
  <2>1. c.by \in Nat
    BY <1>4, ChannelIs
  <2>2. k \in 0..Len(of)
    BY <1>1, <1>2
  <2>3. Numbers(v, Len(of)) /\ Part(w, v, 0, Len(of))
    BY <1>3 DEF Numbers, Part
  <2> QED
    BY <1>1, <2>1, <2>2, <2>3, RecentStays
<1>5. ASSUME NEW k \in 1..n
      PROVE  ResultIsRight(c, more, k, state.results[k])
  <2>1. ResultIsRight(c, of, k, state.results[k])
    BY DEF Follows, n
  <2>2. k \in 1..Len(of) /\ k \in 0..n
    BY <1>1, <1>2
  <2>3. more[k] = of[k]
    BY <1>1, <2>2
  <2>4. c.kind = "MovingAvg" => Recent(w, k, c.by) = Recent(v, k, c.by)
    BY <1>4, <2>2
  <2> QED
    BY <2>1, <2>3, <2>4 DEF ResultIsRight, v, w
<1>6. ASSUME c.kind = "MovingAvg"
      PROVE  RingHolds(state.window, w, n, c.by)
  <2>1. RingHolds(state.window, v, n, c.by)
    BY <1>6 DEF Follows, v, n
  <2>2. \A k \in 1..n : w[k] = v[k]
    BY <1>1, <1>2, <1>3
  <2>3. Recent(w, n, c.by) = Recent(v, n, c.by)
    BY <1>2, <1>4, <1>6
  <2> QED
    BY <2>1, <2>2, <2>3 DEF RingHolds
<1> QED
  BY <1>2, <1>5, <1>6 DEF Follows, n, w, more

(* A new channel has followed nothing yet.                                 *)
LEMMA NewFollows ==
  ASSUME NEW c \in Channels, NEW of \in Seq(StoredSamples), NEW state,
         state.next = 0, state.results = <<>>,
         c.kind = "MovingAvg" => state.window = [i \in 1 .. c.by |-> 0]
  PROVE  Follows(c, of, state)
<1>1. Len(of) \in Nat
  BY LenProperties
<1>2. ASSUME c.kind = "MovingAvg"
      PROVE  RingHolds(state.window, ValuesOf(of), 0, c.by)
  <2> DEFINE size == c.by  ring == [i \in 1 .. size |-> 0]
  <2>1. size \in Nat \ {0}
    BY <1>2, ChannelIs
  <2> HIDE DEF size
  <2>2. ring \in Seq(Int) /\ Len(ring) = size /\ \A i \in 1..size : ring[i] = 0
    BY <2>1
  <2>3. Sums(ring)[size] = 0
    BY <2>1, <2>2, SumsZero
  <2>4. Recent(ValuesOf(of), 0, size) = 0
    <3>1. Sums(ValuesOf(of))[0] = 0 /\ 0 < size
      BY <2>1, SumsAre
    <3> QED
      BY <3>1 DEF Recent
  <2>5. state.window = ring
    BY <1>2 DEF size
  <2> HIDE DEF ring
  <2> QED
    BY <2>2, <2>3, <2>4, <2>5 DEF RingHolds, size
<1> QED
  BY <1>1, <1>2 DEF Follows

-----------------------------------------------------------------------------
(* The samples of the signals and their time stamps                        *)

Underway == [left : Nat \ {0}, t : Nat \ {0}, stride : Nat]

(* The next time stamp of a signal is not before this one, unless a packet *)
(* comes from before the last.                                             *)
Reached(s) == IF packet[s] = NoPacket THEN latest[s].t ELSE packet[s].t

(* No signal has more samples than were pushed.                            *)
Ordered(s) ==
  /\ Count(s) <= pushed
  /\ \A k \in 1 .. Count(s) : 1 <= samples[s][k].t
  /\ s \notin backward =>
       /\ \A k \in 1 .. Count(s) : samples[s][k].t <= Reached(s)
       /\ \A k \in 2 .. Count(s) : samples[s][k - 1].t <= samples[s][k].t
SignalsInv ==
  /\ now \in Nat /\ 1 <= now /\ pushed \in Nat
  /\ samples \in [Signals -> Seq(StoredSamples)]
  /\ latest \in [Signals -> StoredSamples]
  /\ packet \in [Signals -> Underway \cup {NoPacket}]
TimesInv == SignalsInv /\ \A s \in Signals : Ordered(s)

(* A sample x of signal s comes.                                           *)
Comes(s, x) ==
  /\ x \in StoredSamples /\ 1 <= x.t
  /\ samples' = [samples EXCEPT ![s] = Append(samples[s], x)] /\ pushed' = pushed + 1
  /\ UNCHANGED <<clears, listening>>
  /\ backward \subseteq backward' /\ backward' \subseteq backward \cup {s}
  /\ s \notin backward' => Reached(s) <= x.t /\ x.t <= Reached(s)'
  /\ \A o \in Signals : o # s => packet'[o] = packet[o] /\ latest'[o] = latest[o]
  /\ \/ queued' = queued + listening[s]
     \/ queued' = queued /\ packet'[s] # NoPacket

LEMMA PushIs ==
  ASSUME SignalsInv, NEW s \in Signals, NEW v \in Values, NEW what \in Underway, PushSample(s, v, what)
  PROVE  /\ [t |-> what.t, v |-> v] \in StoredSamples /\ 1 <= what.t
         /\ samples' = [samples EXCEPT ![s] = Append(samples[s], [t |-> what.t, v |-> v])]
         /\ pushed' = pushed + 1 /\ UNCHANGED <<clears, listening>>
         /\ samples' \in [Signals -> Seq(StoredSamples)]
         /\ latest' \in [Signals -> StoredSamples]
         /\ packet' \in [Signals -> Underway \cup {NoPacket}]
         /\ what.t <= Reached(s)'
         /\ \A o \in Signals : o # s => packet'[o] = packet[o] /\ latest'[o] = latest[o]
         /\ \/ queued' = queued + listening[s]
            \/ queued' = queued /\ packet'[s] # NoPacket
<1> DEFINE x == [t |-> what.t, v |-> v]
           rest == [what EXCEPT !.left = what.left - 1, !.t = what.t + what.stride]
<1>1. /\ what.left \in Nat /\ what.left # 0 /\ what.t \in Nat /\ 1 <= what.t /\ what.stride \in Nat
      /\ x.t = what.t
  BY DEF Underway
<1>2. x \in StoredSamples
  BY <1>1, SourceConstantsOK DEF StoredSamples
<1>3. ASSUME what.left # 1
      PROVE  rest \in Underway /\ rest # NoPacket /\ rest.t = what.t + what.stride
  <2> DEFINE l == what.left - 1  t == what.t + what.stride
  <2>1. l \in Nat /\ l # 0 /\ t \in Nat /\ t # 0 /\ rest = [what EXCEPT !.left = l, !.t = t]
    BY <1>1, <1>3
  <2>2. rest \in Underway /\ rest.t = t
    <3> HIDE DEF l, t, rest
    <3>1. \A w \in Underway : [w EXCEPT !.left = l, !.t = t] \in Underway
      BY <2>1 DEF Underway
    <3>2. \A w \in Underway : [w EXCEPT !.left = l, !.t = t].t = t
      BY <2>1 DEF Underway
    <3> QED BY <2>1, <3>1, <3>2
  <2>3. \A w \in Underway : w # NoPacket
    BY DEF Underway, NoPacket
  <2> QED BY <2>2, <2>3 DEF t
<1>4. /\ samples' = [samples EXCEPT ![s] = Append(samples[s], x)]
      /\ latest' = [latest EXCEPT ![s] = IF what.left = 1 THEN x ELSE latest[s]]
      /\ packet' = [packet EXCEPT ![s] = IF what.left = 1 THEN NoPacket ELSE rest]
      /\ queued' = IF what.left = 1 THEN queued + listening[s] ELSE queued
      /\ pushed' = pushed + 1 /\ UNCHANGED <<clears, listening>>
  BY DEF PushSample
<1> HIDE DEF x, rest
<1>5. samples' \in [Signals -> Seq(StoredSamples)]
  <2>1. Append(samples[s], x) \in Seq(StoredSamples)
    BY <1>2 DEF SignalsInv
  <2> QED BY <1>4, <2>1 DEF SignalsInv
<1>6. /\ latest' \in [Signals -> StoredSamples]
      /\ packet' \in [Signals -> Underway \cup {NoPacket}]
      /\ what.left = 1 => packet'[s] = NoPacket /\ latest'[s] = x
      /\ what.left # 1 => packet'[s] = rest
      /\ \A o \in Signals : o # s => packet'[o] = packet[o] /\ latest'[o] = latest[o]
  BY <1>2, <1>3, <1>4 DEF SignalsInv
<1>7. what.t <= Reached(s)'
  <2>1. CASE what.left = 1
    BY <1>1, <1>6, <2>1 DEF Reached
  <2>2. CASE what.left # 1
    BY <1>1, <1>3, <1>6, <2>2 DEF Reached
  <2> QED BY <2>1, <2>2
<1>8. \/ queued' = queued + listening[s]
      \/ queued' = queued /\ packet'[s] # NoPacket
  BY <1>3, <1>4, <1>6
<1> QED
  BY <1>1, <1>2, <1>4, <1>5, <1>6, <1>7, <1>8 DEF x

LEMMA PushSamplesComes ==
  ASSUME SignalsInv, NEW s \in Signals, NEW v \in Values, NEW gap \in Gaps, NEW size \in 1 .. MaxPacket,
         NEW stride \in Strides, PushSamples(s, v, gap, size, stride)
  PROVE  SignalsInv' /\ \E x : Comes(s, x)
<1> DEFINE what == [left |-> size, t |-> now', stride |-> stride]
           x == [t |-> what.t, v |-> v]
<1>1. now \in Nat /\ 1 <= now /\ pushed \in Nat /\ gap \in Nat /\ stride \in Nat /\ size \in Nat \ {0}
  BY SourceConstantsOK DEF SignalsInv
<1>2. /\ now' = now + gap /\ packet[s] = NoPacket /\ PushSample(s, v, what)
      /\ backward' = IF now' < latest[s].t THEN backward \cup {s} ELSE backward
  BY DEF PushSamples
<1>3. now' \in Nat /\ 1 <= now' /\ what \in Underway /\ what.t = now'
  BY <1>1, <1>2 DEF Underway
<1> HIDE DEF what
<1>4. /\ x \in StoredSamples /\ 1 <= what.t
      /\ samples' = [samples EXCEPT ![s] = Append(samples[s], x)]
      /\ pushed' = pushed + 1 /\ UNCHANGED <<clears, listening>>
      /\ samples' \in [Signals -> Seq(StoredSamples)]
      /\ latest' \in [Signals -> StoredSamples]
      /\ packet' \in [Signals -> Underway \cup {NoPacket}]
      /\ what.t <= Reached(s)'
      /\ \A o \in Signals : o # s => packet'[o] = packet[o] /\ latest'[o] = latest[o]
      /\ \/ queued' = queued + listening[s]
         \/ queued' = queued /\ packet'[s] # NoPacket
  BY <1>2, <1>3, PushIs
<1>5. x.t = now' /\ latest[s].t \in Nat
  BY <1>3 DEF SignalsInv, StoredSamples
<1> HIDE DEF x
<1>6. s \notin backward' => Reached(s) <= x.t
  BY <1>2, <1>3, <1>5 DEF Reached
<1>7. Comes(s, x)
  BY <1>2, <1>3, <1>4, <1>5, <1>6 DEF Comes
<1>8. SignalsInv'
  BY <1>1, <1>3, <1>4 DEF SignalsInv
<1> QED
  BY <1>7, <1>8

LEMMA PushNextComes ==
  ASSUME SignalsInv, NEW s \in Signals, NEW v \in Values, PushNext(s, v)
  PROVE  SignalsInv' /\ \E x : Comes(s, x)
<1> DEFINE what == packet[s]
           x == [t |-> what.t, v |-> v]
<1>1. what \in Underway /\ what.t \in Nat /\ PushSample(s, v, what) /\ packet[s] # NoPacket /\ UNCHANGED <<now, backward>>
  BY DEF PushNext, SignalsInv, Underway
<1> HIDE DEF what
<1>2. /\ x \in StoredSamples /\ 1 <= what.t
      /\ samples' = [samples EXCEPT ![s] = Append(samples[s], x)]
      /\ pushed' = pushed + 1 /\ UNCHANGED <<clears, listening>>
      /\ samples' \in [Signals -> Seq(StoredSamples)]
      /\ latest' \in [Signals -> StoredSamples]
      /\ packet' \in [Signals -> Underway \cup {NoPacket}]
      /\ what.t <= Reached(s)'
      /\ \A o \in Signals : o # s => packet'[o] = packet[o] /\ latest'[o] = latest[o]
      /\ \/ queued' = queued + listening[s]
         \/ queued' = queued /\ packet'[s] # NoPacket
  BY <1>1, PushIs
<1>3. x.t = what.t /\ Reached(s) = what.t
  BY <1>1 DEF Reached, what
<1> HIDE DEF x
<1>4. Comes(s, x)
  BY <1>1, <1>2, <1>3 DEF Comes
<1>5. SignalsInv'
  BY <1>1, <1>2 DEF SignalsInv
<1> QED
  BY <1>4, <1>5

(* Samples come one at a time.                                             *)
LEMMA SamplesComeSo ==
  ASSUME SignalsInv, SamplesCome
  PROVE  /\ SignalsInv'
         /\ \E s \in Signals : ClearSignal(s) \/ \E x : Comes(s, x)
<1>1. ASSUME NEW s \in Signals, ClearSignal(s)
      PROVE  SignalsInv'
  <2>1. <<>> \in Seq(StoredSamples)
    OBVIOUS
  <2> QED BY <1>1, <2>1 DEF ClearSignal, SignalsInv, pushVars
<1> QED
  BY <1>1, PushSamplesComes, PushNextComes DEF SamplesCome

LEMMA SignalsInit == Init => SignalsInv
<1> SUFFICES ASSUME Init
             PROVE  SignalsInv
  OBVIOUS
<1>1. <<>> \in Seq(StoredSamples) /\ [t |-> 0, v |-> 0] \in StoredSamples
  BY DEF StoredSamples
<1> QED
  BY <1>1 DEF Init, InitSource, SignalsInv

LEMMA SignalsStep == SignalsInv /\ [Next]_vars => SignalsInv'
<1> SUFFICES ASSUME SignalsInv, [Next]_vars
             PROVE  SignalsInv'
  OBVIOUS
<1>1. ASSUME UNCHANGED <<samples, pushVars>>, now' = now \/ \E gap \in Gaps : now' = now + gap
      PROVE  SignalsInv'
  <2>1. now' \in Nat /\ 1 <= now'
    BY <1>1, SourceConstantsOK DEF SignalsInv
  <2> QED BY <1>1, <2>1 DEF SignalsInv, pushVars
<1>2. CASE World
  <2>1. CASE SamplesCome
    BY <2>1, SamplesComeSo
  <2>2. CASE DigitsCome
    BY <1>1, <2>2 DEF DigitsCome, ChangeDigits
  <2> QED BY <1>2, <2>1, <2>2 DEF World
<1>3. CASE PowerPanelNext
  BY <1>1, <1>3 DEF PowerPanelNext, SetSignals, ResetDisplaysTriggered, OnUpdate, OnDigitsChanged, sourceVars
<1>4. CASE DataViewNext
  BY <1>1, <1>4 DEF DataViewNext, AddSignal, OnTableEvent
<1>5. CASE MathChannelsNext
  BY <1>1, <1>5 DEF MathChannelsNext, AddMathChannel, OnSampleAppended
<1>6. CASE SignalSaveNext
  BY <1>1, <1>6 DEF SignalSaveNext, Accept, sourceVars
<1>7. CASE UNCHANGED vars
  BY <1>1, <1>7 DEF vars, sourceVars
<1> QED
  BY <1>2, <1>3, <1>4, <1>5, <1>6, <1>7 DEF Next

LEMMA TimesInit == Init => TimesInv
<1> SUFFICES ASSUME Init
             PROVE  TimesInv
  OBVIOUS
<1>1. SignalsInv
  BY SignalsInit
<1>2. pushed = 0 /\ \A s \in Signals : Count(s) = 0
  BY DEF Init, InitSource, Count
<1>3. \A s \in Signals : Ordered(s)
  BY <1>2 DEF Ordered
<1> QED
  BY <1>1, <1>3 DEF TimesInv

LEMMA TimesStays ==
  ASSUME TimesInv, SignalsInv', UNCHANGED <<samples, pushVars>>
  PROVE  TimesInv'
<1>1. \A s \in Signals : Ordered(s)'
  BY DEF TimesInv, Ordered, Count, Reached, pushVars
<1> QED
  BY <1>1 DEF TimesInv

(* What a sample that comes changes of its signal, and of the others.      *)
LEMMA ComesIs ==
  ASSUME SignalsInv, NEW o \in Signals, NEW x, Comes(o, x)
  PROVE  /\ samples'[o] = Append(samples[o], x) /\ Len(samples'[o]) = Len(samples[o]) + 1
         /\ samples'[o][Len(samples[o]) + 1] = x
         /\ \A k \in 1 .. Len(samples[o]) : samples'[o][k] = samples[o][k] /\ samples[o][k] \in StoredSamples
         /\ Len(samples[o]) \in Nat /\ samples[o] \in Seq(StoredSamples)
         /\ \A s \in Signals : s # o => samples'[s] = samples[s] /\ Reached(s)' = Reached(s)
         /\ Reached(o) \in Nat
<1>1. samples[o] \in Seq(StoredSamples) /\ x \in StoredSamples
  BY DEF SignalsInv, Comes
<1>2. samples' = [samples EXCEPT ![o] = Append(samples[o], x)] /\ samples \in [Signals -> Seq(StoredSamples)]
  BY DEF Comes, SignalsInv
<1>3. samples'[o] = Append(samples[o], x) /\ \A s \in Signals : s # o => samples'[s] = samples[s]
  BY <1>2
<1>4. \A s \in Signals : s # o => Reached(s)' = Reached(s)
  BY DEF Comes, Reached
<1>5. \A k \in 1 .. Len(samples[o]) : samples[o][k] \in StoredSamples
  BY <1>1, ElementOfSeq
<1>6. Reached(o) \in Nat
  <2>1. latest[o] \in StoredSamples /\ packet[o] \in Underway \cup {NoPacket}
    BY DEF SignalsInv
  <2> QED BY <2>1 DEF Reached, StoredSamples, Underway, NoPacket
<1> HIDE DEF StoredSamples
<1> QED
  BY <1>1, <1>3, <1>4, <1>5, <1>6, LenProperties

LEMMA TimesPush ==
  ASSUME TimesInv, SignalsInv', NEW o \in Signals, NEW x, Comes(o, x)
  PROVE  TimesInv'
<1>1. /\ samples'[o] = Append(samples[o], x) /\ Len(samples'[o]) = Len(samples[o]) + 1
      /\ samples'[o][Len(samples[o]) + 1] = x
      /\ \A k \in 1 .. Len(samples[o]) : samples'[o][k] = samples[o][k] /\ samples[o][k] \in StoredSamples
      /\ Len(samples[o]) \in Nat
      /\ \A s \in Signals : s # o => samples'[s] = samples[s] /\ Reached(s)' = Reached(s)
      /\ Reached(o) \in Nat
  BY ComesIs DEF TimesInv
<1>2. /\ x.t \in Nat /\ 1 <= x.t /\ pushed' = pushed + 1 /\ pushed \in Nat
      /\ backward \subseteq backward' /\ backward' \subseteq backward \cup {o}
      /\ o \notin backward' => Reached(o) <= x.t /\ x.t <= Reached(o)'
  BY DEF Comes, TimesInv, SignalsInv, StoredSamples
<1>3. ASSUME NEW s \in Signals, s # o
      PROVE  Ordered(s)'
  <2>1. Ordered(s) /\ Count(s)' = Count(s) /\ samples'[s] = samples[s] /\ Reached(s)' = Reached(s)
    BY <1>1, <1>3 DEF TimesInv, Count
  <2>2. Count(s) \in Nat
    BY LenProperties DEF TimesInv, SignalsInv, Count
  <2>3. Count(s) <= pushed'
    BY <1>2, <2>1, <2>2 DEF Ordered
  <2>4. s \notin backward' => s \notin backward
    BY <1>2
  <2> QED BY <2>1, <2>3, <2>4 DEF Ordered
<1>4. Ordered(o)'
  <2> DEFINE n == Len(samples[o])  new == samples'[o]
  <2>1. Ordered(o) /\ Count(o) = n /\ Count(o)' = n + 1 /\ n \in Nat
    BY <1>1 DEF TimesInv, Count
  <2>2. \A k \in 1..n : new[k] = samples[o][k] /\ new[k].t \in Nat /\ 1 <= new[k].t
    BY <1>1, <2>1 DEF Ordered, StoredSamples
  <2>3. \A k \in 1..(n + 1) : 1 <= new[k].t
    <3>1. ASSUME NEW k \in 1..(n + 1)
          PROVE  1 <= new[k].t
      <4>1. CASE k \in 1..n
        BY <2>2, <4>1
      <4>2. CASE k = n + 1
        BY <1>1, <1>2, <4>2
      <4> QED BY <2>1, <4>1, <4>2
    <3> QED BY <3>1
  <2>4. ASSUME o \notin backward'
        PROVE  /\ \A k \in 1 .. (n + 1) : new[k].t <= Reached(o)'
               /\ \A k \in 2 .. (n + 1) : new[k - 1].t <= new[k].t
    <3>1. Reached(o) <= x.t /\ x.t <= Reached(o)' /\ o \notin backward
      BY <1>2, <2>4
    <3>2. \A k \in 1..n : new[k].t <= x.t
      BY <1>1, <1>2, <2>1, <2>2, <3>1 DEF Ordered
    <3>3. Reached(o)' \in Nat
      <4>1. latest'[o] \in StoredSamples /\ packet'[o] \in Underway \cup {NoPacket}
        BY DEF SignalsInv
      <4> QED BY <4>1 DEF Reached, StoredSamples, Underway, NoPacket
    <3>4. ASSUME NEW k \in 1..(n + 1)
          PROVE  new[k].t <= Reached(o)'
      <4>1. CASE k \in 1..n
        <5>1. new[k].t \in Nat /\ new[k].t <= x.t
          BY <2>2, <3>2, <4>1
        <5> QED BY <1>2, <3>1, <3>3, <5>1
      <4>2. CASE k = n + 1
        BY <1>1, <3>1, <4>2
      <4> QED BY <2>1, <4>1, <4>2
    <3>5. ASSUME NEW k \in 2..(n + 1)
          PROVE  new[k - 1].t <= new[k].t
      <4>1. CASE k \in 2..n
        <5>1. k \in 1..n /\ k - 1 \in 1..n
          BY <2>1, <4>1
        <5>2. samples[o][k - 1].t <= samples[o][k].t
          BY <2>1, <3>1, <4>1 DEF Ordered
        <5> QED BY <2>2, <5>1, <5>2
      <4>2. CASE k = n + 1
        <5>1. k - 1 \in 1..n /\ new[k] = x
          BY <1>1, <2>1, <4>2
        <5> QED BY <3>2, <5>1
      <4> QED BY <2>1, <4>1, <4>2
    <3> QED BY <3>4, <3>5
  <2>5. n + 1 <= pushed'
    BY <1>2, <2>1 DEF Ordered
  <2> HIDE DEF n
  <2> QED BY <2>1, <2>3, <2>4, <2>5 DEF Ordered
<1> QED
  BY <1>3, <1>4 DEF TimesInv

LEMMA TimesClear ==
  ASSUME TimesInv, SignalsInv', NEW o \in Signals, ClearSignal(o)
  PROVE  TimesInv'
<1>1. UNCHANGED pushVars /\ samples' = [samples EXCEPT ![o] = <<>>]
  BY DEF ClearSignal
<1>2. ASSUME NEW s \in Signals
      PROVE  Ordered(s)'
  <2>1. Ordered(s) /\ pushed \in Nat /\ Reached(s)' = Reached(s) /\ UNCHANGED <<backward, pushed>>
    BY <1>1 DEF TimesInv, SignalsInv, pushVars, Reached
  <2>2. CASE samples'[s] = samples[s]
    BY <2>1, <2>2 DEF Ordered, Count
  <2>3. CASE samples'[s] = <<>>
    <3>1. Count(s)' = 0
      BY <2>3 DEF Count
    <3> QED BY <2>1, <3>1 DEF Ordered
  <2> QED BY <1>1, <2>2, <2>3 DEF TimesInv, SignalsInv
<1> QED
  BY <1>2 DEF TimesInv

LEMMA TimesStep == TimesInv /\ [Next]_vars => TimesInv'
<1> SUFFICES ASSUME TimesInv, [Next]_vars
             PROVE  TimesInv'
  OBVIOUS
<1>1. SignalsInv /\ SignalsInv'
  BY SignalsStep DEF TimesInv
<1>2. CASE World
  <2>1. CASE SamplesCome
    BY <1>1, <2>1, SamplesComeSo, TimesPush, TimesClear
  <2>2. CASE DigitsCome
    BY <1>1, <2>2, TimesStays DEF DigitsCome, ChangeDigits
  <2> QED BY <1>2, <2>1, <2>2 DEF World
<1>3. CASE PowerPanelNext
  BY <1>1, <1>3, TimesStays DEF PowerPanelNext, SetSignals, ResetDisplaysTriggered, OnUpdate, OnDigitsChanged, sourceVars
<1>4. CASE DataViewNext
  BY <1>1, <1>4, TimesStays DEF DataViewNext, AddSignal, OnTableEvent
<1>5. CASE MathChannelsNext
  BY <1>1, <1>5, TimesStays DEF MathChannelsNext, AddMathChannel, OnSampleAppended
<1>6. CASE SignalSaveNext
  BY <1>1, <1>6, TimesStays DEF SignalSaveNext, Accept, sourceVars
<1>7. CASE UNCHANGED vars
  BY <1>1, <1>7, TimesStays DEF vars, sourceVars
<1> QED
  BY <1>2, <1>3, <1>4, <1>5, <1>6, <1>7 DEF Next

-----------------------------------------------------------------------------
(* Math channels, the devices and the user                                 *)

(* While its signal is being pushed a packet or it has an event to take, a *)
(* channel may be behind.                                                  *)
Waiting == next = 0 /\ window = <<>> /\ results = <<>> /\ queued = 0
FollowsSignal(c) ==
  /\ Follows(c, samples[c.signal], [next |-> next, window |-> window, results |-> results])
  /\ queued = 0 /\ packet[c.signal] = NoPacket => next = 0 \/ next = Count(c.signal)
MathOpen ==
  /\ clears \in Seq(Signals) /\ queued \in Nat
  /\ \/ channel = <<>> /\ Waiting /\ listening = [s \in Signals |-> 0]
     \/ \E c \in Channels :
          /\ channel = <<c>>
          /\ listening = [s \in Signals |-> IF s = c.signal THEN 1 ELSE 0]
          /\ ~Cleared(c.signal) => FollowsSignal(c)
MathInv == IF open = "math" THEN MathOpen ELSE channel = <<>>

LEMMA MathInit == Init => MathInv
<1> SUFFICES ASSUME Init
             PROVE  MathInv
  OBVIOUS
<1>1. /\ channel = <<>> /\ Waiting /\ listening = [s \in Signals |-> 0]
      /\ clears \in Seq(Signals) /\ queued \in Nat
  BY DEF Init, InitMathChannels, InitSource, Waiting
<1> QED
  BY <1>1 DEF MathInv, MathOpen

LEMMA ClearedStays ==
  ASSUME clears \in Seq(Signals), NEW s \in Signals, NEW c \in Signals,
         clears' = Append(clears, s)
  PROVE  (Cleared(c) => Cleared(c)') /\ Cleared(s)' /\ clears' \in Seq(Signals)
<1>1. /\ clears' \in Seq(Signals) /\ Len(clears') = Len(clears) + 1 /\ Len(clears) \in Nat
      /\ clears'[Len(clears) + 1] = s /\ \A i \in 1..Len(clears) : clears'[i] = clears[i]
  BY LenProperties
<1>2. DOMAIN clears = 1..Len(clears) /\ DOMAIN clears' = 1..(Len(clears) + 1)
  BY <1>1, LenProperties
<1>3. Cleared(s)'
  <2>1. Len(clears) + 1 \in DOMAIN clears'
    BY <1>1, <1>2
  <2> QED
    BY <1>1, <2>1 DEF Cleared, Range
<1>4. ASSUME Cleared(c)
      PROVE  Cleared(c)'
  <2>1. PICK i \in DOMAIN clears : clears[i] = c
    BY <1>4 DEF Cleared, Range
  <2>2. i \in DOMAIN clears' /\ clears'[i] = c
    BY <1>1, <1>2, <2>1
  <2> QED
    BY <2>2 DEF Cleared, Range
<1> QED
  BY <1>1, <1>3, <1>4

(* Samples come, or the user deletes a signal, while there is a channel.   *)
LEMMA MathWorld ==
  ASSUME MathInv, SignalsInv, SignalsInv', open = "math", open' = open, World, UNCHANGED mathVars
  PROVE  MathInv'
<1>1. /\ clears \in Seq(Signals) /\ queued \in Nat /\ UNCHANGED <<channel, next, window, results>>
      /\ channel = <<>> \/ \E c \in Channels : channel = <<c>>
  BY DEF MathInv, MathOpen, mathVars
<1>2. ASSUME NEW s \in Signals, NEW x, Comes(s, x)
      PROVE  MathOpen'
  <2>1. /\ samples' = [samples EXCEPT ![s] = Append(samples[s], x)]
        /\ UNCHANGED <<clears, listening>>
        /\ \/ queued' = queued + listening[s]
           \/ queued' = queued /\ packet'[s] # NoPacket
        /\ \A o \in Signals : o # s => packet'[o] = packet[o]
        /\ x \in StoredSamples
    BY <1>2 DEF Comes
  <2>2. CASE channel = <<>>
    BY <1>1, <2>1, <2>2 DEF MathInv, MathOpen, Waiting
  <2>3. ASSUME NEW c \in Channels, channel = <<c>>
        PROVE  MathOpen'
    <3> DEFINE state == [next |-> next, window |-> window, results |-> results]
               of == samples[c.signal]
    <3>1. /\ listening = [r \in Signals |-> IF r = c.signal THEN 1 ELSE 0]
          /\ ~Cleared(c.signal) => FollowsSignal(c)
      BY <2>3 DEF MathInv, MathOpen
    <3>2. c.signal \in Signals
      BY ChannelIs
    <3>3. /\ queued' \in Nat
          /\ s = c.signal => queued' # 0 \/ packet'[c.signal] # NoPacket
          /\ s # c.signal => queued' = queued /\ packet'[c.signal] = packet[c.signal]
      BY <1>1, <2>1, <3>1, <3>2
    <3>4. ASSUME ~Cleared(c.signal)
          PROVE  FollowsSignal(c)'
      <4>1. Follows(c, of, state)
        BY <3>1, <3>4 DEF FollowsSignal
      <4>2. of \in Seq(StoredSamples) /\ samples'[c.signal] \in Seq(StoredSamples)
        BY <3>2 DEF SignalsInv
      <4>3. CASE s = c.signal
        <5>1. samples'[c.signal] = Append(of, x) /\ Len(of) \in Nat
          BY <2>1, <3>2, <4>2, <4>3, LenProperties DEF SignalsInv
        <5>3. Follows(c, Append(of, x), state)
          BY <2>1, <4>1, <4>2, StillFollows
        <5> QED
          BY <1>1, <3>3, <4>3, <5>1, <5>3 DEF FollowsSignal
      <4>4. CASE s # c.signal
        <5>1. samples'[c.signal] = of
          BY <2>1, <3>2, <4>4 DEF SignalsInv
        <5> QED
          BY <1>1, <3>1, <3>3, <3>4, <4>4, <5>1 DEF FollowsSignal, Count
      <4> QED
        BY <4>3, <4>4
    <3>5. Cleared(c.signal)' = Cleared(c.signal)
      BY <2>1 DEF Cleared
    <3> QED
      BY <1>1, <2>1, <2>3, <3>1, <3>3, <3>4, <3>5 DEF MathOpen
  <2> QED
    BY <1>1, <2>2, <2>3
<1>3. ASSUME NEW s \in Signals, ClearSignal(s)
      PROVE  MathOpen'
  <2>1. /\ samples' = [samples EXCEPT ![s] = <<>>]
        /\ clears' = Append(clears, s) /\ UNCHANGED <<queued, packet, listening>>
    BY <1>3 DEF ClearSignal, pushVars
  <2>2. clears' \in Seq(Signals)
    BY <1>1, <2>1
  <2>3. CASE channel = <<>>
    BY <1>1, <2>1, <2>2, <2>3 DEF MathInv, MathOpen, Waiting
  <2>4. ASSUME NEW c \in Channels, channel = <<c>>
        PROVE  MathOpen'
    <3>1. /\ listening = [r \in Signals |-> IF r = c.signal THEN 1 ELSE 0]
          /\ ~Cleared(c.signal) => FollowsSignal(c)
      BY <2>4 DEF MathInv, MathOpen
    <3>2. c.signal \in Signals
      BY ChannelIs
    <3>3. (Cleared(c.signal) => Cleared(c.signal)') /\ Cleared(s)'
      BY <1>1, <2>1, <3>2, ClearedStays
    <3>4. ASSUME ~Cleared(c.signal)'
          PROVE  FollowsSignal(c)'
      <4>1. samples'[c.signal] = samples[c.signal]
        BY <2>1, <3>2, <3>3, <3>4 DEF SignalsInv
      <4> QED
        BY <1>1, <2>1, <3>1, <3>3, <3>4, <4>1 DEF FollowsSignal, Count
    <3> QED
      BY <1>1, <2>1, <2>2, <2>4, <3>1, <3>4 DEF MathOpen
  <2> QED
    BY <1>1, <2>3, <2>4
<1>4. SamplesCome
  BY DEF World
<1> QED
  BY <1>2, <1>3, <1>4, SamplesComeSo DEF MathInv

LEMMA AddMathChannelStep ==
  ASSUME MathInv, SignalsInv, open = "math", open' = open, NEW s \in Signals, AddMathChannel(s)
  PROVE  MathInv'
<1>1. /\ channel = <<>> /\ UNCHANGED <<samples, clears, queued, next, results>>
      /\ listening' = [listening EXCEPT ![s] = listening[s] + 1]
  BY DEF AddMathChannel, Listen
<1>2. clears \in Seq(Signals) /\ queued \in Nat /\ Waiting /\ listening = [r \in Signals |-> 0]
  BY <1>1 DEF MathInv, MathOpen
<1>3. PICK c \in Channels :
        /\ channel' = <<c>> /\ c.signal = s
        /\ c.kind = "MovingAvg" => window' = [i \in 1 .. c.by |-> 0]
  <2>1. ASSUME NEW factor \in Factors, MultiplySFChannel(s, factor)
        PROVE  \E c \in Channels : /\ channel' = <<c>> /\ c.signal = s
                                   /\ c.kind = "MovingAvg" => window' = [i \in 1 .. c.by |-> 0]
    <3> DEFINE c == [kind |-> "MultiplySF", signal |-> s, by |-> factor]
    <3>1. c \in Channels /\ channel' = <<c>> /\ c.signal = s /\ c.kind # "MovingAvg"
      BY <2>1 DEF MultiplySFChannel, Channels
    <3> QED
      BY <3>1
  <2>2. ASSUME NEW size \in Windows, MovingAvgChannel(s, size)
        PROVE  \E c \in Channels : /\ channel' = <<c>> /\ c.signal = s
                                   /\ c.kind = "MovingAvg" => window' = [i \in 1 .. c.by |-> 0]
    <3> DEFINE c == [kind |-> "MovingAvg", signal |-> s, by |-> size]
    <3>1. c \in Channels /\ channel' = <<c>> /\ c.signal = s /\ window' = [i \in 1 .. c.by |-> 0]
      BY <2>2 DEF MovingAvgChannel, Channels
    <3> QED
      BY <3>1
  <2> QED
    BY <2>1, <2>2 DEF AddMathChannel
<1>4. listening' = [r \in Signals |-> IF r = c.signal THEN 1 ELSE 0]
  BY <1>1, <1>2, <1>3
<1>5. FollowsSignal(c)'
  <2> DEFINE state == [next |-> next', window |-> window', results |-> results']
  <2>1. samples'[c.signal] \in Seq(StoredSamples)
    BY <1>1, <1>3 DEF SignalsInv
  <2>2. state.next = 0 /\ state.results = <<>> /\ state.window = window'
    BY <1>1, <1>2 DEF Waiting
  <2> HIDE DEF state
  <2>3. Follows(c, samples'[c.signal], state)
    BY <1>3, <2>1, <2>2, NewFollows
  <2> QED
    BY <1>1, <1>2, <2>3 DEF FollowsSignal, Waiting, state
<1> QED
  BY <1>1, <1>2, <1>3, <1>4, <1>5 DEF MathInv, MathOpen

LEMMA OnSampleAppendedStep ==
  ASSUME MathInv, SignalsInv, open = "math", open' = open, OnSampleAppended
  PROVE  MathInv'
<1>1. /\ queued \in Nat /\ queued # 0 /\ queued' = queued - 1
      /\ UNCHANGED <<samples, packet, clears, listening, channel>>
  BY DEF OnSampleAppended, TakeEvent, MathInv, MathOpen, pushVars
<1>2. PICK c \in Channels :
        /\ channel = <<c>> /\ listening = [s \in Signals |-> IF s = c.signal THEN 1 ELSE 0]
        /\ ~Cleared(c.signal) => FollowsSignal(c)
  BY <1>1 DEF MathInv, MathOpen, Waiting
<1>3. clears \in Seq(Signals) /\ queued' \in Nat /\ Head(channel) = c
  BY <1>1, <1>2 DEF MathInv, MathOpen
<1>4. ASSUME ~Cleared(c.signal)
      PROVE  FollowsSignal(c)'
  <2> DEFINE of == samples[c.signal]
             state == [next |-> next, window |-> window, results |-> results]
             n == Len(of) - next
             done == Passes[n]
  <2>1. of \in Seq(StoredSamples) /\ Len(of) \in Nat
    BY ChannelIs, LenProperties DEF SignalsInv
  <2>2. Follows(c, of, state)
    BY <1>2, <1>4 DEF FollowsSignal
  <2>3. next \in 0..Len(of)
    BY <2>2 DEF Follows
  <2>4. n \in Nat /\ next + n = Len(of) /\ next + n <= Len(of) /\ (IF n > 0 THEN n ELSE 0) = n
    BY <2>1, <2>3
  <2>5. next' = done.next /\ window' = done.window /\ results' = done.results
    <3>1. /\ next' = Passes[IF n > 0 THEN n ELSE 0].next
          /\ window' = Passes[IF n > 0 THEN n ELSE 0].window
          /\ results' = Passes[IF n > 0 THEN n ELSE 0].results
      BY <1>3 DEF OnSampleAppended, Count
    <3> QED
      BY <2>4, <3>1
  <2>6. Follows(c, of, done) /\ done.next = Len(of)
    <3> HIDE DEF n
    <3> QED
      BY <1>2, <2>1, <2>2, <2>4, LoopFollows
  <2> HIDE DEF done
  <2>7. Follows(c, of, [next |-> next', window |-> window', results |-> results'])
    BY <2>5, <2>6 DEF Follows
  <2> QED
    BY <1>1, <2>5, <2>6, <2>7 DEF FollowsSignal, Count
<1>5. Cleared(c.signal)' = Cleared(c.signal)
  BY <1>1 DEF Cleared
<1> QED
  BY <1>1, <1>2, <1>3, <1>4, <1>5 DEF MathInv, MathOpen

LEMMA MathStep == SignalsInv /\ SignalsInv' /\ MathInv /\ [Next]_vars => MathInv'
<1> SUFFICES ASSUME SignalsInv, SignalsInv', MathInv, [Next]_vars
             PROVE  MathInv'
  OBVIOUS
<1>1. CASE open # "math"
  BY <1>1 DEF MathInv, Next, Others, mathVars, vars
<1>2. CASE open = "math" /\ UNCHANGED vars
  <2>1. UNCHANGED <<samples, packet, clears, queued, listening, channel, next, window, results, open>>
    BY <1>2 DEF vars, sourceVars, pushVars, mathVars
  <2> QED
    BY <2>1 DEF MathInv, MathOpen, Waiting, FollowsSignal, Cleared, Count
<1>3. CASE open = "math" /\ Next
  <2>1. open' = open /\ ((World /\ UNCHANGED mathVars) \/ MathChannelsNext)
    BY <1>3 DEF Next, Others
  <2> QED
    BY <1>3, <2>1, MathWorld, AddMathChannelStep, OnSampleAppendedStep DEF MathChannelsNext
<1> QED
  BY <1>1, <1>2, <1>3

LEMMA FollowedIsRight ==
  ASSUME MathInv, SignalsInv
  PROVE  ResultsAreRight
<1> SUFFICES ASSUME channel # <<>>, ~Cleared(Head(channel).signal)
             PROVE  LET c  == Head(channel)
                        of == [k \in DOMAIN samples[c.signal] |-> samples[c.signal][k].v]
                    IN  /\ Len(results) = next /\ (Still /\ results # <<>> => next = Len(of))
                        /\ \A k \in DOMAIN results :
                             /\ results[k].t = samples[c.signal][k].t
                             /\ c.kind = "MultiplySF" => results[k].v = c.by * of[k]
                             /\ c.kind = "MovingAvg" /\ k >= c.by => results[k].v = Mean(of, k, c.by)
  BY DEF ResultsAreRight
<1>1. PICK c \in Channels : channel = <<c>> /\ FollowsSignal(c)
  BY DEF MathInv, MathOpen
<1> DEFINE of == samples[c.signal]  values == ValuesOf(of)
<1>2. Head(channel) = c /\ of \in Seq(StoredSamples) /\ Len(of) \in Nat
  BY <1>1, ChannelIs, LenProperties DEF SignalsInv
<1>3. /\ next \in 0..Len(of) /\ results \in Seq(StoredSamples) /\ Len(results) = next
      /\ \A k \in 1..next : ResultIsRight(c, of, k, results[k])
      /\ Still => next = 0 \/ next = Len(of)
  BY <1>1, ChannelIs DEF FollowsSignal, Follows, Count, Still
<1>4. /\ values \in Seq(Int) /\ Len(values) = Len(of)
      /\ \A k \in 1..Len(of) : values[k] = of[k].v
  BY <1>2, ValuesAre
<1>5. DOMAIN results = 1..next /\ (results # <<>> => next # 0)
  BY <1>3, LenProperties, EmptySeq
<1> HIDE DEF values
<1>6. ASSUME NEW k \in 1..next
      PROVE  /\ results[k].t = of[k].t
             /\ c.kind = "MultiplySF" => results[k].v = c.by * values[k]
             /\ c.kind = "MovingAvg" /\ k >= c.by => results[k].v = Mean(values, k, c.by)
  <2>1. k \in 1..Len(of) /\ ResultIsRight(c, of, k, results[k])
    BY <1>2, <1>3
  <2>2. ASSUME c.kind = "MovingAvg", k >= c.by
        PROVE  results[k].v = Mean(values, k, c.by)
    <3>1. c.by \in Nat \ {0} /\ c.by <= k /\ k \in 1..Len(values)
      BY <1>4, <2>1, <2>2, ChannelIs
    <3>2. Mean(values, k, c.by) = Recent(values, k, c.by) \div c.by
      BY <1>4, <3>1, MeanIs
    <3> QED
      BY <2>1, <2>2, <3>2 DEF ResultIsRight, values
  <2> QED
    BY <1>4, <2>1, <2>2 DEF ResultIsRight
<1> QED
  BY <1>2, <1>3, <1>4, <1>5, <1>6 DEF values, ValuesOf

LEMMA MathInvariance == Spec => [](SignalsInv /\ MathInv)
BY SignalsInit, SignalsStep, MathInit, MathStep, PTL DEF Spec

(* A moving average or product channel has a result for every sample of    *)
(* its signal, the product or the mean of the last samples, for any signal *)
(* and any size of the ring, whenever the channel is added, its events are *)
(* late, and another signal is deleted: on_sample_appended().              *)
THEOREM MeansAndProductsAreRight == Spec => []ResultsAreRight
<1>1. SignalsInv /\ MathInv => ResultsAreRight
  BY FollowedIsRight
<1> QED
  BY <1>1, MathInvariance, PTL

-----------------------------------------------------------------------------
(* The file of the save dialog                                             *)

(* What a file holds of a signal, for a file written line by line, each    *)
(* with no sample of the signal or one.                                    *)
LEMMA FlattenIs ==
  ASSUME NEW S, NEW c \in Seq(Seq(S)), NEW f \in [0..Len(c) -> Seq(S)],
         f[0] = <<>>, \A k \in 1..Len(c) : f[k] = f[k - 1] \o c[k]
  PROVE  FlattenSeq(c) = f[Len(c)]
<1> DEFINE n == Len(c)
<1>1. n \in Nat /\ DOMAIN c = 1..n
  BY LenProperties
<1>2. CASE n = 0
  <2>1. c = <<>>
    BY <1>2
  <2> QED BY <1>2, <2>1 DEF FlattenSeq
<1>3. CASE n # 0
  <2> DEFINE Eq(g) == g = [i \in 1..n |-> IF i = 1 THEN c[i] ELSE g[i - 1] \o c[i]]
             g == CHOOSE g : Eq(g)
             F == [i \in 1..n |-> f[i]]
  <2>1. Eq(F)
    <3>1. ASSUME NEW i \in 1..n
          PROVE  F[i] = IF i = 1 THEN c[i] ELSE F[i - 1] \o c[i]
      <4>1. F[i] = f[i - 1] \o c[i]
        BY <1>1
      <4>2. CASE i = 1
        <5>1. c[i] \in Seq(S) /\ f[i - 1] = <<>>
          BY <1>1, <4>2
        <5> QED BY <4>1, <4>2, <5>1
      <4>3. CASE i # 1
        <5>1. i - 1 \in 1..n
          BY <1>1, <4>3
        <5> QED BY <4>1, <4>3, <5>1
      <4> QED BY <4>2, <4>3
    <3> HIDE DEF n
    <3> QED BY <3>1, Zenon
  <2>2. Eq(g)
    <3> HIDE DEF Eq
    <3> QED BY <2>1
  <2> HIDE DEF g
  <2>3. ASSUME NEW j \in 1..n, g[j] # f[j]
        PROVE  FALSE
    <3> DEFINE D == {i \in Nat : i \in 1..n /\ g[i] # f[i]}
    <3>1. PICK m \in D : \A i \in D : m <= i
      <4>1. D \in SUBSET Nat /\ j \in D
        BY <2>3, <1>1
      <4> HIDE DEF D
      <4> QED BY <4>1, NatMin
    <3>2. m \in Nat /\ m \in 1..n /\ g[m] # f[m]
      BY <3>1
    <3>3. g[m] = IF m = 1 THEN c[m] ELSE g[m - 1] \o c[m]
      BY <2>2, <3>2
    <3>4. f[m] = F[m] /\ F[m] = IF m = 1 THEN c[m] ELSE F[m - 1] \o c[m]
      BY <2>1, <3>2
    <3>5. m # 1
      BY <3>2, <3>3, <3>4
    <3>6. m - 1 \in Nat /\ m - 1 \in 1..n /\ ~(m <= m - 1)
      BY <1>1, <3>2, <3>5
    <3>7. g[m - 1] = F[m - 1]
      BY <3>1, <3>6
    <3> QED BY <3>2, <3>3, <3>4, <3>5, <3>7
  <2>4. FlattenSeq(c) = g[n]
    BY <1>3, <1>1 DEF FlattenSeq, g
  <2>5. n \in 1..n
    BY <1>1, <1>3
  <2> QED BY <2>3, <2>4, <2>5
<1> QED BY <1>2, <1>3

(* The states of save_combined() after its turns exist, too.               *)
AreTurns(checked, frame, f) ==
  f = [n \in Nat |-> IF n = 0 THEN [pos |-> [s \in checked |-> 0], lines |-> <<>>]
                             ELSE WriteLine(checked, frame, f[n - 1])]

LEMMA TurnsExist ==
  ASSUME NEW checked, NEW frame
  PROVE  \E f : AreTurns(checked, frame, f)
<1> DEFINE x == [pos |-> [s \in checked |-> 0], lines |-> <<>>]
<1> HIDE DEF x
<1> DEFINE Upto(n, h) == h = [k \in 0..n |-> IF k = 0 THEN x ELSE WriteLine(checked, frame, h[k - 1])]
<1>1. ASSUME NEW n \in Nat
      PROVE  \E h : Upto(n, h)
  <2> DEFINE S == {m \in Nat : ~\E h : Upto(m, h)}
  <2>1. S \in SUBSET Nat
    OBVIOUS
  <2>2. ASSUME S # {}
        PROVE  FALSE
    <3>1. PICK m \in S : \A k \in S : m <= k
      BY <2>1, <2>2, NatMin
    <3>2. m \in Nat /\ ~\E h : Upto(m, h)
      BY <3>1
    <3>3. CASE m = 0
      <4>1. Upto(0, [k \in 0..0 |-> x])
        OBVIOUS
      <4> QED BY <3>2, <3>3, <4>1
    <3>4. CASE m # 0
      <4>1. m - 1 \in Nat /\ ~(m <= m - 1)
        BY <3>2, <3>4
      <4>2. m - 1 \notin S
        BY <3>1, <4>1
      <4>3. PICK h : Upto(m - 1, h)
        BY <4>1, <4>2
      <4> DEFINE new == [k \in 0..m |-> IF k = m THEN WriteLine(checked, frame, h[m - 1]) ELSE h[k]]
      <4>4. ASSUME NEW k \in 0..m
            PROVE  new[k] = IF k = 0 THEN x ELSE WriteLine(checked, frame, new[k - 1])
        <5>1. CASE k = m
          <6>1. new[k] = WriteLine(checked, frame, h[m - 1]) /\ new[m - 1] = h[m - 1]
            BY <3>2, <3>4, <4>1, <5>1
          <6> QED BY <3>4, <5>1, <6>1
        <5>2. CASE k # m
          <6>1. k \in 0..(m - 1) /\ new[k] = h[k] /\ (k # 0 => k - 1 \in 0..(m - 1) /\ new[k - 1] = h[k - 1])
            BY <3>2, <4>4, <5>2
          <6>2. h[k] = IF k = 0 THEN x ELSE WriteLine(checked, frame, h[k - 1])
            BY <4>3, <6>1
          <6> QED BY <6>1, <6>2
        <5> QED BY <5>1, <5>2
      <4>5. Upto(m, new)
        BY <4>4
      <4> QED BY <3>2, <4>5
    <3> QED BY <3>3, <3>4
  <2> QED BY <2>2
<1>2. ASSUME NEW n \in Nat, NEW p \in Nat, NEW a, NEW b, Upto(n, a), Upto(p, b),
             NEW k \in 0..n, k <= p
      PROVE  a[k] = b[k]
  <2> DEFINE S == {j \in Nat : j <= n /\ j <= p /\ a[j] # b[j]}
  <2>1. ASSUME S # {}
        PROVE  FALSE
    <3>1. PICK m \in S : \A j \in S : m <= j
      <4>1. S \in SUBSET Nat
        OBVIOUS
      <4> QED BY <2>1, <4>1, NatMin
    <3>2. m \in Nat /\ m <= n /\ m <= p /\ a[m] # b[m] /\ m \in 0..n /\ m \in 0..p
      BY <3>1
    <3>3. /\ a[m] = IF m = 0 THEN x ELSE WriteLine(checked, frame, a[m - 1])
          /\ b[m] = IF m = 0 THEN x ELSE WriteLine(checked, frame, b[m - 1])
      BY <1>2, <3>2
    <3>4. m # 0 /\ m - 1 \in Nat /\ ~(m <= m - 1) /\ m - 1 <= n /\ m - 1 <= p
      BY <3>2, <3>3
    <3>5. a[m - 1] = b[m - 1]
      BY <3>1, <3>4
    <3> QED BY <3>2, <3>3, <3>5
  <2>2. k \in Nat /\ k <= n
    OBVIOUS
  <2> QED BY <1>2, <2>1, <2>2
<1> DEFINE H(n) == CHOOSE h : Upto(n, h)
           f == [k \in Nat |-> H(k)[k]]
<1>3. \A n \in Nat : Upto(n, H(n))
  BY <1>1
<1> HIDE DEF H
<1>4. ASSUME NEW k \in Nat
      PROVE  f[k] = IF k = 0 THEN x ELSE WriteLine(checked, frame, f[k - 1])
  <2>1. f[k] = H(k)[k] /\ (k # 0 => k - 1 \in Nat /\ f[k - 1] = H(k - 1)[k - 1])
    OBVIOUS
  <2>2. Upto(k, H(k)) /\ k \in 0..k
    BY <1>3
  <2>3. H(k)[k] = IF k = 0 THEN x ELSE WriteLine(checked, frame, H(k)[k - 1])
    BY <2>2
  <2>4. ASSUME k # 0
        PROVE  H(k)[k - 1] = H(k - 1)[k - 1]
    <3>1. k - 1 \in Nat /\ k - 1 \in 0..k /\ k - 1 <= k - 1 /\ Upto(k - 1, H(k - 1))
      BY <1>3, <2>4
    <3> HIDE DEF Upto
    <3> QED BY <1>2, <2>2, <3>1
  <2> QED BY <2>1, <2>3, <2>4
<1>5. f = [k \in Nat |-> IF k = 0 THEN x ELSE WriteLine(checked, frame, f[k - 1])]
  BY <1>4
<1>6. f = [n \in Nat |-> IF n = 0 THEN x ELSE WriteLine(checked, frame, f[n - 1])]
  BY <1>5
<1> HIDE DEF f
<1>7. AreTurns(checked, frame, f)
  BY <1>6 DEF AreTurns, x
<1> QED BY <1>7

Cell == Seq(StoredSamples)

-----------------------------------------------------------------------------
(* The dialog goes through its signals in the order of a sequence.         *)
LEMMA OrderIs ==
  ASSUME NEW checked \in SUBSET Signals
  PROVE  /\ InOrder(checked) \in Seq(checked)
         /\ DOMAIN InOrder(checked) = 1..Len(InOrder(checked)) /\ Len(InOrder(checked)) \in Nat
<1>1. IsFiniteSet(checked)
  BY SaveConstantsOK, FS_Subset
<1> DEFINE n == Cardinality(checked)
<1>2. n \in Nat /\ ExistsBijection(1..n, checked)
  BY <1>1, FS_CardinalityType
<1> HIDE DEF n
<1>3. \E f \in [1..n -> checked] : IsInjective(f)
  BY <1>2 DEF ExistsBijection, Bijection, Injection, IsInjective
<1>4. InOrder(checked) \in [1..n -> checked]
  BY <1>3 DEF InOrder, SetToSeq, n
<1>5. InOrder(checked) \in Seq(checked)
  BY <1>2, <1>4
<1> QED
  BY <1>5, LenProperties

(* A signal that is asked for its time has more samples.                   *)
LEMMA AskedHaveMore ==
  ASSUME NEW checked \in SUBSET Signals, NEW pos, NEW s \in Asked(checked, pos)
  PROVE  s \in checked /\ More(s, pos[s])
<1> DEFINE order == InOrder(checked)
           ended == {i \in DOMAIN order : ~More(order[i], pos[order[i]])}
<1>1. order \in Seq(checked) /\ DOMAIN order = 1..Len(order) /\ Len(order) \in Nat
  BY OrderIs
<1> HIDE DEF order
<1>2. PICK i \in 1 .. (IF ended = {} THEN Len(order) ELSE Min(ended) - 1) : s = order[i]
  BY DEF Asked, order
<1>3. i \in DOMAIN order /\ i \notin ended
  <2>1. CASE ended = {}
    BY <1>1, <1>2, <2>1
  <2>2. CASE ended # {}
    <3>1. ended \in SUBSET Nat
      BY <1>1
    <3>2. Min(ended) \in ended /\ \A k \in ended : Min(ended) <= k
      <4>1. PICK m \in ended : \A k \in ended : m <= k
        BY <2>2, <3>1, NatMin
      <4> HIDE DEF ended
      <4> QED BY <4>1 DEF Min
    <3>3. Min(ended) \in 1..Len(order)
      BY <1>1, <3>2
    <3>4. i \in 1..(Min(ended) - 1)
      BY <1>2, <2>2
    <3> HIDE DEF ended
    <3> QED BY <1>1, <3>2, <3>3, <3>4
  <2> QED BY <2>1, <2>2
<1> QED
  BY <1>1, <1>2, <1>3

(* When more signals have ended, no other signal is asked.                 *)
LEMMA AskedStay ==
  ASSUME NEW checked \in SUBSET Signals, NEW pos, NEW pos2,
         \A s \in checked : ~More(s, pos[s]) => ~More(s, pos2[s])
  PROVE  Asked(checked, pos2) \subseteq Asked(checked, pos)
<1> DEFINE order == InOrder(checked)
           ended(p) == {i \in DOMAIN order : ~More(order[i], p[order[i]])}
           E1 == ended(pos)
           E2 == ended(pos2)
           upTo(e) == IF e = {} THEN Len(order) ELSE Min(e) - 1
<1>1. order \in Seq(checked) /\ DOMAIN order = 1..Len(order) /\ Len(order) \in Nat
  BY OrderIs
<1>2. Asked(checked, pos) = {order[i] : i \in 1..upTo(E1)} /\ Asked(checked, pos2) = {order[i] : i \in 1..upTo(E2)}
  BY DEF Asked
<1> HIDE DEF order
<1>3. E1 \subseteq E2 /\ E2 \subseteq 1..Len(order)
  BY <1>1
<1> HIDE DEF E1, E2
<1>4. \A e \in SUBSET (1..Len(order)) : e # {} =>
        Min(e) \in e /\ \A k \in e : Min(e) <= k
  <2>1. ASSUME NEW e \in SUBSET (1..Len(order)), e # {}
        PROVE  Min(e) \in e /\ \A k \in e : Min(e) <= k
    <3>1. e \in SUBSET Nat
      BY <1>1
    <3>2. PICK m \in e : \A k \in e : m <= k
      BY <2>1, <3>1, NatMin
    <3> QED BY <3>2 DEF Min
  <2> QED BY <2>1
<1>5. upTo(E2) <= upTo(E1) /\ upTo(E2) \in Int /\ upTo(E1) \in Int
  <2>1. CASE E2 = {}
    BY <1>1, <1>3, <2>1
  <2>2. CASE E2 # {} /\ E1 = {}
    <3>1. Min(E2) \in 1..Len(order)
      BY <1>3, <1>4, <2>2
    <3> QED BY <1>1, <2>2, <3>1
  <2>3. CASE E1 # {}
    <3>1. E2 # {} /\ E1 \subseteq 1..Len(order)
      BY <1>3, <2>3
    <3>2. Min(E1) \in E1 /\ Min(E2) \in E2 /\ \A k \in E2 : Min(E2) <= k
      BY <1>3, <1>4, <2>3, <3>1
    <3>3. Min(E1) \in 1..Len(order) /\ Min(E2) \in 1..Len(order) /\ Min(E2) <= Min(E1)
      BY <1>3, <3>2
    <3> QED BY <2>3, <3>1, <3>3, <1>1
  <2> QED BY <2>1, <2>2, <2>3
<1>6. 1..upTo(E2) \subseteq 1..upTo(E1)
  BY <1>5
<1> HIDE DEF upTo
<1> QED
  BY <1>2, <1>6

-----------------------------------------------------------------------------
(* What get_sample() returns.                                              *)
LEMMA SampleIs ==
  ASSUME TimesInv, NEW s \in Signals, NEW p \in Nat
  PROVE  /\ Sample(s, p) \in StoredSamples
         /\ Count(s) \in Nat
         /\ p < Count(s) => Sample(s, p) = samples[s][p + 1] /\ Sample(s, p).t >= 1
         /\ p >= Count(s) => Sample(s, p).t = 0
         /\ s \notin backward /\ More(s, p) => Sample(s, p).t <= Sample(s, p + 1).t
<1>1. /\ samples[s] \in Seq(StoredSamples)
      /\ \A k \in 1 .. Count(s) : 1 <= samples[s][k].t
      /\ s \notin backward => \A k \in 2 .. Count(s) : samples[s][k - 1].t <= samples[s][k].t
  BY DEF TimesInv, SignalsInv, Ordered
<1>2. Count(s) \in Nat
  BY <1>1, LenProperties DEF Count
<1>3. \A k \in 1..Count(s) : samples[s][k] \in StoredSamples
  BY <1>1, ElementOfSeq DEF Count
<1>4. p < Count(s) => /\ Sample(s, p) = samples[s][p + 1] /\ p + 1 \in 1..Count(s)
                      /\ Sample(s, p) \in StoredSamples /\ Sample(s, p).t >= 1
  BY <1>1, <1>2, <1>3 DEF Sample, StoredSamples
<1>5. ~(p < Count(s)) => Sample(s, p) = NoSample
  BY DEF Sample
<1>6. NoSample \in StoredSamples /\ NoSample.t = 0
  BY DEF NoSample, StoredSamples
<1>7. s \notin backward /\ More(s, p) => Sample(s, p).t <= Sample(s, p + 1).t
  <2>1. CASE Count(s) = 0
    <3>1. ~(p < Count(s)) /\ ~(p + 1 < Count(s))
      BY <2>1
    <3>2. Sample(s, p) = NoSample /\ Sample(s, p + 1) = NoSample
      BY <3>1 DEF Sample
    <3> QED BY <3>2, <1>6
  <2>2. CASE Count(s) # 0 /\ p < Count(s) - 1
    <3>1. p < Count(s) /\ p + 1 < Count(s) /\ p + 2 \in 2..Count(s) /\ p + 1 + 1 = p + 2 /\ (p + 2) - 1 = p + 1
      BY <2>2, <1>2
    <3>2. Sample(s, p) = samples[s][p + 1] /\ Sample(s, p + 1) = samples[s][p + 2]
      BY <3>1 DEF Sample
    <3>3. s \notin backward => samples[s][(p + 2) - 1].t <= samples[s][p + 2].t
      BY <1>1, <3>1
    <3> QED BY <3>1, <3>2, <3>3
  <2> QED BY <2>1, <2>2 DEF More
<1> QED
  BY <1>2, <1>4, <1>5, <1>6, <1>7

LineOf(checked) == [t : Nat, cells : [checked -> Cell]]

(* The cells of s are its first p samples, one after the other.            *)
Consists(s, lines, p) ==
  \E f \in [0..Len(lines) -> Nat] :
    /\ f[0] = 0 /\ f[Len(lines)] = p
    /\ \A k \in 1..Len(lines) :
         IF f[k] = f[k - 1] THEN lines[k].cells[s] = <<>>
         ELSE f[k] = f[k - 1] + 1 /\ lines[k].cells[s] = <<Sample(s, f[k - 1])>>
Begins(s, lines, p) ==
  FlattenSeq([k \in DOMAIN lines |-> lines[k].cells[s]]) = [i \in 1..p |-> Sample(s, i - 1)]

LEMMA FunctionIsSeq ==
  ASSUME NEW T, NEW m \in Nat, NEW a \in [1..m -> T]
  PROVE  a \in Seq(T) /\ Len(a) = m
OBVIOUS

LEMMA SameSeq ==
  ASSUME NEW T, NEW a \in Seq(T), NEW b \in Seq(T), Len(a) = Len(b),
         \A i \in 1..Len(a) : a[i] = b[i]
  PROVE  a = b
BY LenProperties

LEMMA ConsistsBegins ==
  ASSUME TimesInv, NEW checked \in SUBSET Signals, NEW s \in checked,
         NEW lines \in Seq(LineOf(checked)), NEW p, Consists(s, lines, p)
  PROVE  Begins(s, lines, p) /\ p \in Nat
<1> DEFINE n == Len(lines)
           T == StoredSamples
           c == [k \in DOMAIN lines |-> lines[k].cells[s]]
<1>1. n \in Nat /\ DOMAIN lines = 1..n
  BY LenProperties
<1>2. \A k \in 1..n : lines[k] \in LineOf(checked)
  BY ElementOfSeq
<1>3. c \in [1..n -> Seq(T)]
  BY <1>1, <1>2 DEF LineOf, Cell
<1>4. c \in Seq(Seq(T)) /\ Len(c) = n
  BY <1>1, <1>3
<1>5. PICK f \in [0..n -> Nat] :
        /\ f[0] = 0 /\ f[n] = p
        /\ \A k \in 1..n :
             IF f[k] = f[k - 1] THEN lines[k].cells[s] = <<>>
             ELSE f[k] = f[k - 1] + 1 /\ lines[k].cells[s] = <<Sample(s, f[k - 1])>>
  BY DEF Consists
<1> DEFINE F == [k \in 0..n |-> [i \in 1..f[k] |-> Sample(s, i - 1)]]
<1>6. \A i \in Nat : Sample(s, i) \in T
  BY SampleIs
<1>7. \A k \in 0..n : f[k] \in Nat /\ F[k] = [i \in 1..f[k] |-> Sample(s, i - 1)] /\ F[k] \in [1..f[k] -> T]
  <2>1. ASSUME NEW k \in 0..n
        PROVE  f[k] \in Nat /\ F[k] = [i \in 1..f[k] |-> Sample(s, i - 1)] /\ F[k] \in [1..f[k] -> T]
    <3>1. \A i \in 1..f[k] : i - 1 \in Nat
      BY <1>5
    <3> QED BY <1>5, <1>6, <3>1
  <2> QED BY <2>1
<1>8. \A k \in 0..n : F[k] \in Seq(T) /\ Len(F[k]) = f[k]
  <2>1. ASSUME NEW k \in 0..n
        PROVE  F[k] \in Seq(T) /\ Len(F[k]) = f[k]
    <3>1. f[k] \in Nat /\ F[k] \in [1..f[k] -> T]
      BY <1>7
    <3> HIDE DEF F, T
    <3> QED BY <3>1, FunctionIsSeq
  <2> QED BY <2>1
<1>9. F \in [0..n -> Seq(T)]
  BY <1>8
<1>10. F[0] = <<>>
  <2>1. f[0] = 0 /\ 0 \in 0..n
    BY <1>1, <1>5
  <2>2. Len(F[0]) = 0 /\ F[0] \in Seq(T)
    BY <1>8, <2>1
  <2> HIDE DEF F
  <2> QED BY <2>2
<1>11. ASSUME NEW k \in 1..n
       PROVE  F[k] = F[k - 1] \o c[k]
  <2>1. k \in 0..n /\ k - 1 \in 0..n /\ c[k] = lines[k].cells[s]
    BY <1>1
  <2>2. F[k] \in Seq(T) /\ Len(F[k]) = f[k] /\ F[k - 1] \in Seq(T) /\ Len(F[k - 1]) = f[k - 1]
        /\ f[k] \in Nat /\ f[k - 1] \in Nat
    BY <1>7, <1>8, <2>1
  <2>3. /\ F[k] = [i \in 1..f[k] |-> Sample(s, i - 1)]
        /\ F[k - 1] = [i \in 1..f[k - 1] |-> Sample(s, i - 1)]
    BY <1>7, <2>1
  <2> DEFINE a == F[k - 1]
             b == F[k]
  <2>4. CASE f[k] = f[k - 1]
    <3>1. c[k] = <<>> /\ b = a
      BY <1>5, <2>1, <2>3, <2>4
    <3> HIDE DEF a, b, c
    <3>2. a \in Seq(T)
      BY <2>2 DEF a
    <3>3. a \o <<>> = a
      BY <3>2
    <3>4. b = a \o c[k]
      BY <3>1, <3>3
    <3> QED BY <3>4 DEF a, b
  <2>5. CASE f[k] # f[k - 1]
    <3>1. f[k] = f[k - 1] + 1 /\ c[k] = <<Sample(s, f[k - 1])>>
      BY <1>5, <2>1, <2>5
    <3> DEFINE d == a \o c[k]
               x == Sample(s, f[k - 1])
    <3>2. x \in T
      BY <1>6, <2>2
    <3>3. /\ d \in Seq(T) /\ Len(d) = f[k - 1] + 1
          /\ \A i \in 1..f[k - 1] : d[i] = a[i]
          /\ d[f[k - 1] + 1] = x
      <4>1. a \in Seq(T) /\ Len(a) = f[k - 1] /\ c[k] = <<x>>
        BY <2>2, <3>1
      <4> HIDE DEF a, c, x
      <4> QED BY <4>1, <3>2, <2>2
    <3>4. \A i \in 1..f[k] : d[i] = b[i]
      <4>1. ASSUME NEW i \in 1..f[k]
            PROVE  d[i] = b[i]
        <5>1. b[i] = Sample(s, i - 1)
          BY <2>3
        <5>2. CASE i \in 1..f[k - 1]
          <6>1. a[i] = Sample(s, i - 1)
            BY <2>3, <5>2
          <6> HIDE DEF a, b, d
          <6> QED BY <3>3, <5>1, <5>2, <6>1
        <5>3. CASE i = f[k - 1] + 1
          <6>1. i - 1 = f[k - 1]
            BY <5>3, <2>2
          <6>2. x = Sample(s, i - 1)
            BY <6>1
          <6>3. d[i] = x
            <7> HIDE DEF a, b, d, x
            <7> QED BY <3>3, <5>3
          <6> HIDE DEF a, b, d, x
          <6> QED BY <5>1, <6>2, <6>3
        <5>4. i \in 1..f[k - 1] \/ i = f[k - 1] + 1
          BY <3>1, <2>2
        <5> HIDE DEF a, b, c, d
        <5> QED BY <5>2, <5>3, <5>4
      <4> QED BY <4>1
    <3>5. b \in Seq(T) /\ Len(b) = f[k]
      BY <2>2
    <3>6. d = b
      <4>1. Len(d) = f[k]
        BY <3>1, <3>3
      <4> HIDE DEF a, b, c, d, T
      <4> QED BY <3>3, <3>4, <3>5, <4>1, SameSeq
    <3> QED BY <3>6 DEF a, b, d
  <2> QED BY <2>4, <2>5
<1> HIDE DEF F, c
<1>12. FlattenSeq(c) = F[n]
  <2>1. F \in [0..Len(c) -> Seq(T)] /\ \A k \in 1..Len(c) : F[k] = F[k - 1] \o c[k]
    BY <1>4, <1>9, <1>11
  <2> HIDE DEF T, n
  <2> QED BY <1>4, <1>10, <2>1, FlattenIs
<1>13. n \in 0..n
  BY <1>1
<1>14. F[n] = [i \in 1..p |-> Sample(s, i - 1)] /\ p \in Nat
  BY <1>5, <1>7, <1>13
<1> QED
  BY <1>12, <1>14 DEF Begins, c

-----------------------------------------------------------------------------
(* A signal from which a line has no sample, and one of which it has the   *)
(* next one.                                                               *)
LEMMA ConsistsStep ==
  ASSUME NEW checked, NEW s, NEW lines \in Seq(LineOf(checked)),
         NEW line \in LineOf(checked), NEW p, Consists(s, lines, p), NEW q,
         \/ line.cells[s] = <<>> /\ q = p
         \/ line.cells[s] = <<Sample(s, p)>> /\ q = p + 1
  PROVE  Consists(s, Append(lines, line), q)
<1> DEFINE n == Len(lines)
           l == Append(lines, line)
<1>1. n \in Nat /\ Len(l) = n + 1 /\ l[n + 1] = line /\ \A k \in 1..n : l[k] = lines[k]
  BY LenProperties
<1>2. PICK f \in [0..n -> Nat] :
        /\ f[0] = 0 /\ f[n] = p
        /\ \A k \in 1..n :
             IF f[k] = f[k - 1] THEN lines[k].cells[s] = <<>>
             ELSE f[k] = f[k - 1] + 1 /\ lines[k].cells[s] = <<Sample(s, f[k - 1])>>
  BY DEF Consists
<1>3. p \in Nat /\ q \in Nat
  BY <1>1, <1>2
<1> DEFINE g == [k \in 0..(n + 1) |-> IF k = n + 1 THEN q ELSE f[k]]
<1>4. g \in [0..(n + 1) -> Nat] /\ g[n + 1] = q /\ \A k \in 0..n : g[k] = f[k]
  BY <1>1, <1>2, <1>3
<1> HIDE DEF g, l
<1>5. ASSUME NEW k \in 1..(n + 1)
      PROVE  IF g[k] = g[k - 1] THEN l[k].cells[s] = <<>>
             ELSE g[k] = g[k - 1] + 1 /\ l[k].cells[s] = <<Sample(s, g[k - 1])>>
  <2>1. CASE k \in 1..n
    <3>1. g[k] = f[k] /\ g[k - 1] = f[k - 1] /\ l[k] = lines[k]
      BY <1>1, <1>4, <2>1
    <3> QED BY <1>2, <2>1, <3>1
  <2>2. CASE k = n + 1
    <3>1. g[k] = q /\ g[k - 1] = p /\ l[k] = line
      BY <1>1, <1>2, <1>4, <2>2
    <3> QED BY <1>3, <3>1
  <2> QED BY <1>1, <2>1, <2>2
<1>6. g[0] = 0
  BY <1>1, <1>2, <1>4
<1>7. /\ g \in [0..Len(l) -> Nat] /\ g[0] = 0 /\ g[Len(l)] = q
      /\ \A k \in 1..Len(l) :
           IF g[k] = g[k - 1] THEN l[k].cells[s] = <<>>
           ELSE g[k] = g[k - 1] + 1 /\ l[k].cells[s] = <<Sample(s, g[k - 1])>>
  BY <1>1, <1>4, <1>5, <1>6 DEF l
<1> HIDE DEF n
<1>8. Consists(s, l, q)
  BY <1>7 DEF Consists
<1> QED
  BY <1>8 DEF l

(* A turn of save_combined(): every signal that is asked has a sample in   *)
(* every line so far; with time stamps in order the lines are so, and      *)
(* nobody that is asked has a time before the last of them.                *)
InTime(checked) == checked \cap backward = {}
InTurn(checked, state) ==
  /\ state.pos \in [checked -> Nat] /\ state.lines \in Seq(LineOf(checked))
  /\ \A s \in checked : Consists(s, state.lines, state.pos[s])
  /\ \A s \in checked : state.pos[s] <= Len(state.lines)
  /\ \A s \in Asked(checked, state.pos) : state.pos[s] = Len(state.lines)
  /\ InTime(checked) => \A k \in 2 .. Len(state.lines) : state.lines[k - 1].t <= state.lines[k].t
  /\ InTime(checked) /\ Len(state.lines) > 0 =>
       \A s \in Asked(checked, state.pos) :
         state.lines[Len(state.lines)].t <= Sample(s, state.pos[s]).t
  /\ (\A s \in checked : Count(s) > 0) => \A s \in checked : state.pos[s] <= Count(s)

LEMMA FirstTurn ==
  ASSUME TimesInv, NEW checked \in SUBSET Signals
  PROVE  InTurn(checked, [pos |-> [s \in checked |-> 0], lines |-> <<>>])
<1> DEFINE state == [pos |-> [s \in checked |-> 0], lines |-> <<>>]
<1>1. /\ state.pos \in [checked -> Nat] /\ state.lines = <<>> /\ Len(state.lines) = 0
      /\ \A s \in checked : state.pos[s] = 0
  OBVIOUS
<1>2. \A s \in checked : Count(s) \in Nat
  BY SampleIs
<1>3. <<>> \in Seq(LineOf(checked))
  OBVIOUS
<1>4. ASSUME NEW s \in checked
      PROVE  Consists(s, <<>>, 0)
  <2>1. /\ [k \in 0..0 |-> 0] \in [0..Len(<<>>) -> Nat]
        /\ [k \in 0..0 |-> 0][0] = 0 /\ [k \in 0..0 |-> 0][Len(<<>>)] = 0
        /\ 1..Len(<<>>) = {}
    OBVIOUS
  <2> QED BY <2>1 DEF Consists
<1>5. \A s \in Asked(checked, state.pos) : s \in checked
  BY AskedHaveMore
<1> HIDE DEF state
<1> QED
  BY <1>1, <1>2, <1>3, <1>4, <1>5 DEF InTurn, state

(* Samples that follow each other are a time frame apart.                  *)
LEMMA FramesApart ==
  ASSUME TimesInv, NEW s \in Signals, NEW frame \in Nat, NEW p \in Nat, p > 0, p < Count(s),
         frame # 0 => \A d \in Distances(s) : d >= frame
  PROVE  Sample(s, p).t >= 1 + frame
<1>1. /\ samples[s] \in Seq(StoredSamples)
      /\ \A k \in 1 .. Count(s) : 1 <= samples[s][k].t
  BY DEF TimesInv, SignalsInv, Ordered
<1>2. Count(s) \in Nat /\ Sample(s, p) = samples[s][p + 1]
  BY SampleIs
<1>3. p \in 1..Count(s) /\ p + 1 \in 2..Count(s) /\ (p + 1) - 1 = p /\ p + 1 \in 1..Count(s)
  BY <1>2
<1>4. samples[s][p] \in StoredSamples /\ samples[s][p + 1] \in StoredSamples
  BY <1>1, <1>3, ElementOfSeq DEF Count
<1>5. samples[s][p].t >= 1 /\ samples[s][p + 1].t >= 1
  BY <1>1, <1>3
<1>6. samples[s][p].t \in Nat /\ samples[s][p + 1].t \in Nat
  BY <1>4 DEF StoredSamples
<1>7. CASE frame = 0
  BY <1>2, <1>5, <1>6, <1>7
<1>8. CASE frame # 0
  <2>1. samples[s][p + 1].t - samples[s][(p + 1) - 1].t \in Distances(s)
    BY <1>3 DEF Distances
  <2>2. samples[s][p + 1].t - samples[s][p].t >= frame
    BY <1>3, <1>8, <2>1
  <2> QED BY <1>2, <1>5, <1>6, <2>2
<1> QED
  BY <1>7, <1>8

LEMMA TurnStays ==
  ASSUME TimesInv, NEW checked \in SUBSET Signals, NEW frame \in Nat,
         ValidateCombinedTimeframe(checked, frame), NEW state, InTurn(checked, state)
  PROVE  InTurn(checked, WriteLine(checked, frame, state))
<1> DEFINE pos == state.pos
           lines == state.lines
           n == Len(lines)
           asked == Asked(checked, pos)
           times == {Sample(s, pos[s]).t : s \in asked}
           t == Min(times)
           taken == {s \in checked : Sample(s, pos[s]).t + frame >= t}
           cells == [s \in checked |-> IF s \in taken THEN <<Sample(s, pos[s])>> ELSE <<>>]
           line == [t |-> t, cells |-> cells]
           new == [pos |-> [s \in checked |-> IF s \in taken THEN pos[s] + 1 ELSE pos[s]],
                   lines |-> Append(lines, line)]
<1>1. CASE asked = {}
  BY <1>1 DEF WriteLine
<1>2. CASE asked # {}
  <2>1. WriteLine(checked, frame, state) = new
    BY <1>2 DEF WriteLine
  <2>2. /\ pos \in [checked -> Nat] /\ lines \in Seq(LineOf(checked)) /\ n \in Nat
        /\ \A s \in checked : Consists(s, lines, pos[s])
        /\ \A s \in checked : pos[s] <= n
        /\ \A s \in asked : pos[s] = n
        /\ InTime(checked) => \A k \in 2 .. n : lines[k - 1].t <= lines[k].t
        /\ InTime(checked) /\ n > 0 => \A s \in asked : lines[n].t <= Sample(s, pos[s]).t
        /\ (\A s \in checked : Count(s) > 0) => \A s \in checked : pos[s] <= Count(s)
    BY LenProperties DEF InTurn
  <2>3. \A s \in asked : s \in checked /\ More(s, pos[s])
    BY AskedHaveMore
  <2>4. \A s \in checked : Sample(s, pos[s]) \in StoredSamples /\ Count(s) \in Nat
    BY <2>2, SampleIs
  <2>5. PICK a \in asked : /\ t = Sample(a, pos[a]).t
                           /\ \A s \in asked : t <= Sample(s, pos[s]).t
    <3>1. times # {} /\ times \in SUBSET Nat
      BY <1>2, <2>3, <2>4 DEF StoredSamples
    <3>2. PICK m \in times : \A k \in times : m <= k
      <4> HIDE DEF times
      <4> QED BY <3>1, NatMin
    <3>3. t \in times /\ \A k \in times : t <= k
      <4> HIDE DEF times
      <4> QED BY <3>2 DEF Min
    <3> HIDE DEF t
    <3> QED BY <3>3
  <2>6. t \in Nat
    BY <2>3, <2>4, <2>5 DEF StoredSamples
  <2> HIDE DEF asked, times, t
  <2>7. asked \subseteq taken
    <3>1. ASSUME NEW s \in asked
          PROVE  s \in taken
      <4>1. s \in checked /\ Sample(s, pos[s]).t \in Nat /\ t <= Sample(s, pos[s]).t
        BY <2>3, <2>4, <2>5 DEF StoredSamples
      <4> QED BY <2>6, <4>1
    <3> QED BY <3>1
  <2>8. line \in LineOf(checked) /\ line.t = t /\ line.cells = cells
    <3>1. ASSUME NEW s \in checked
          PROVE  (IF s \in taken THEN <<Sample(s, pos[s])>> ELSE <<>>) \in Cell
      <4>1. Sample(s, pos[s]) \in StoredSamples
        BY <2>4
      <4>2. <<Sample(s, pos[s])>> \in Cell /\ <<>> \in Cell
        <5> HIDE DEF taken, pos
        <5> QED BY <4>1 DEF Cell
      <4> QED BY <4>2
    <3>2. cells \in [checked -> Cell]
      <4> HIDE DEF taken
      <4> QED BY <3>1
    <3> HIDE DEF cells
    <3> QED BY <2>6, <3>2 DEF LineOf
  <2> DEFINE p2 == [s \in checked |-> IF s \in taken THEN pos[s] + 1 ELSE pos[s]]
             l2 == Append(lines, line)
  <2>9. new.pos = p2 /\ new.lines = l2
    OBVIOUS
  <2>10. p2 \in [checked -> Nat] /\ \A s \in checked : p2[s] = IF s \in taken THEN pos[s] + 1 ELSE pos[s]
    <3> HIDE DEF taken
    <3> QED BY <2>2
  <2>11. /\ \A s \in checked : cells[s] = IF s \in taken THEN <<Sample(s, pos[s])>> ELSE <<>>
    <3> HIDE DEF taken
    <3> QED OBVIOUS
  <2> HIDE DEF cells, line
  <2>12. /\ l2 \in Seq(LineOf(checked)) /\ Len(l2) = n + 1 /\ l2[n + 1] = line
         /\ \A k \in 1..n : l2[k] = lines[k]
    BY <2>2, <2>8, LenProperties
  <2>13. ASSUME NEW s \in checked
         PROVE  Consists(s, l2, p2[s]) /\ p2[s] <= n + 1
    <3>1. Consists(s, lines, pos[s]) /\ pos[s] \in Nat /\ pos[s] <= n
      BY <2>2
    <3>2. CASE s \in taken
      <4>1. line.cells[s] = <<Sample(s, pos[s])>> /\ p2[s] = pos[s] + 1
        BY <2>8, <2>10, <2>11, <3>2
      <4>2. Consists(s, l2, p2[s])
        <5> HIDE DEF taken, lines, pos, p2
        <5> QED BY <2>2, <2>8, <3>1, <4>1, ConsistsStep
      <4> QED BY <2>2, <3>1, <4>1, <4>2
    <3>3. CASE s \notin taken
      <4>1. line.cells[s] = <<>> /\ p2[s] = pos[s]
        BY <2>8, <2>10, <2>11, <3>3
      <4>2. Consists(s, l2, p2[s])
        <5> HIDE DEF taken, lines, pos, p2
        <5> QED BY <2>2, <2>8, <3>1, <4>1, ConsistsStep
      <4> QED BY <2>2, <3>1, <4>1, <4>2
    <3> QED BY <3>2, <3>3
  <2>14. Asked(checked, p2) \subseteq asked
    <3>1. ASSUME NEW s \in checked, ~More(s, pos[s])
          PROVE  ~More(s, p2[s])
      <4>1. pos[s] \in Nat /\ Count(s) \in Nat /\ (p2[s] = pos[s] + 1 \/ p2[s] = pos[s])
        BY <2>2, <2>4, <2>10
      <4> QED BY <3>1, <4>1 DEF More
    <3> HIDE DEF p2, pos
    <3> QED BY <3>1, AskedStay DEF asked
  <2>15. ASSUME NEW s \in Asked(checked, p2)
         PROVE  p2[s] = n + 1 /\ (InTime(checked) => t <= Sample(s, p2[s]).t)
    <3>1. s \in asked /\ s \in taken /\ s \in checked
      BY <2>3, <2>7, <2>14
    <3>2. p2[s] = n + 1 /\ pos[s] = n
      BY <2>2, <2>10, <3>1
    <3>3. /\ InTime(checked) => Sample(s, n).t <= Sample(s, n + 1).t
          /\ Sample(s, n).t \in Nat /\ Sample(s, n + 1).t \in Nat
      <4>1. More(s, n) /\ n + 1 \in Nat /\ s \in Signals /\ (InTime(checked) => s \notin backward)
        BY <2>2, <2>3, <3>1, <3>2 DEF InTime
      <4> HIDE DEF n
      <4> QED BY <2>2, <4>1, SampleIs DEF StoredSamples
    <3>4. t <= Sample(s, n).t
      BY <2>5, <3>1, <3>2
    <3> QED BY <2>6, <3>2, <3>3, <3>4
  <2>16. ASSUME InTime(checked), NEW k \in 2..(n + 1)
         PROVE  l2[k - 1].t <= l2[k].t
    <3>1. CASE k \in 2..n
      <4>1. l2[k] = lines[k] /\ l2[k - 1] = lines[k - 1]
        BY <2>2, <2>12, <3>1
      <4> QED BY <2>2, <2>16, <3>1, <4>1
    <3>2. CASE k = n + 1
      <4>1. n > 0 /\ n \in 1..n /\ k - 1 = n
        BY <2>2, <3>2
      <4>2. l2[k] = line /\ l2[k - 1] = lines[n]
        BY <2>12, <3>2, <4>1
      <4>3. lines[n].t <= Sample(a, pos[a]).t
        BY <2>2, <2>5, <2>16, <4>1
      <4> QED BY <2>5, <2>8, <4>2, <4>3
    <3> QED BY <2>2, <3>1, <3>2
  <2>17. ASSUME \A s \in checked : Count(s) > 0, NEW s \in checked
         PROVE  p2[s] <= Count(s)
    <3>1. pos[s] \in Nat /\ pos[s] <= Count(s) /\ Count(s) \in Nat /\ Count(s) > 0 /\ pos[s] <= n
      BY <2>2, <2>4, <2>17
    <3>2. CASE pos[s] < Count(s) \/ s \notin taken
      BY <2>10, <3>1, <3>2
    <3>3. CASE pos[s] = Count(s) /\ s \in taken
      <4>1. n > 0
        BY <2>2, <3>1, <3>3
      <4>2. Sample(s, pos[s]).t = 0
        BY <3>1, <3>3, SampleIs
      <4>3. 0 + frame >= t
        BY <3>3, <4>2
      <4>4. a \in checked /\ pos[a] = n /\ More(a, n) /\ a \in Signals
        BY <2>2, <2>3, <2>5
      <4>5. Count(a) \in Nat /\ n < Count(a)
        <5>1. Count(a) \in Nat /\ Count(a) > 0
          BY <2>4, <2>17, <4>4
        <5> QED BY <4>4, <5>1, <2>2 DEF More
      <4>6. frame # 0 => \A d \in Distances(a) : d >= frame
        BY <4>4 DEF ValidateCombinedTimeframe
      <4>7. Sample(a, n).t >= 1 + frame
        <5> HIDE DEF n
        <5> QED BY <2>2, <4>1, <4>4, <4>5, <4>6, FramesApart
      <4>8. t >= 1 + frame
        BY <2>5, <4>4, <4>7
      <4> QED BY <2>6, <4>3, <4>8
    <3> QED BY <3>1, <3>2, <3>3
  <2> HIDE DEF p2, l2, taken, lines, pos, n
  <2>18. InTurn(checked, new)
    <3>1. /\ new.pos \in [checked -> Nat] /\ new.lines \in Seq(LineOf(checked))
          /\ Len(new.lines) = n + 1 /\ new.lines[n + 1].t = t
      BY <2>8, <2>9, <2>10, <2>12
    <3> HIDE DEF new
    <3> QED BY <2>9, <2>12, <2>13, <2>15, <2>16, <2>17, <3>1 DEF InTurn
  <2> QED BY <2>1, <2>18
<1> QED
  BY <1>1, <1>2

(* A file, and the signals in it, are as the property says.                *)
FileInOrder(checked, lines) ==
  /\ InTime(checked) => \A k \in 2 .. Len(lines) : lines[k - 1].t <= lines[k].t
  /\ lines # <<>> => DOMAIN lines[1].cells = checked
  /\ \A s \in checked : Count(s) > 0 =>
       LET saved == FlattenSeq([k \in DOMAIN lines |-> lines[k].cells[s]])
       IN  \/ IsPrefix(saved, samples[s])
           \/ IsPrefix(samples[s], saved) /\ \E o \in checked : Count(o) = 0

LEMMA PrefixIs ==
  ASSUME NEW T, NEW a \in Seq(T), NEW b \in Seq(T), Len(a) <= Len(b),
         \A i \in 1..Len(a) : a[i] = b[i]
  PROVE  IsPrefix(a, b)
<1>1. Len(a) \in Nat /\ Len(b) \in Nat
  OBVIOUS
<1>2. ASSUME NEW c \in Seq(T), Len(a) <= Len(c)
      PROVE  /\ SubSeq(c, 1, Len(a)) \in Seq(T) /\ Len(SubSeq(c, 1, Len(a))) = Len(a)
             /\ \A i \in 1..Len(a) : SubSeq(c, 1, Len(a))[i] = c[i]
  BY <1>1, <1>2
<1>3. SubSeq(a, 1, Len(a)) = SubSeq(b, 1, Len(a))
  <2> DEFINE u == SubSeq(a, 1, Len(a))
             v == SubSeq(b, 1, Len(a))
  <2>1. u \in Seq(T) /\ v \in Seq(T) /\ Len(u) = Len(a) /\ Len(v) = Len(a)
        /\ \A i \in 1..Len(a) : u[i] = a[i] /\ v[i] = b[i]
    BY <1>1, <1>2
  <2>2. \A i \in 1..Len(u) : u[i] = v[i]
    BY <2>1
  <2> HIDE DEF u, v
  <2> QED BY <2>1, <2>2, SameSeq
<1> QED
  BY <1>3 DEF IsPrefix

LEMMA BeginsPrefix ==
  ASSUME TimesInv, NEW s \in Signals, NEW p \in Nat
  PROVE  /\ p <= Count(s) => IsPrefix([i \in 1..p |-> Sample(s, i - 1)], samples[s])
         /\ p >= Count(s) => IsPrefix(samples[s], [i \in 1..p |-> Sample(s, i - 1)])
<1> DEFINE T == StoredSamples
           w == [i \in 1..p |-> Sample(s, i - 1)]
           x == samples[s]
<1>1. x \in Seq(T) /\ Count(s) = Len(x) /\ Len(x) \in Nat
  BY LenProperties DEF TimesInv, SignalsInv, Count
<1>2. ASSUME NEW i \in 1..p
      PROVE  w[i] = Sample(s, i - 1) /\ w[i] \in T /\ (i <= Count(s) => w[i] = x[i])
  <2>1. i - 1 \in Nat /\ (i - 1) + 1 = i
    OBVIOUS
  <2>2. Sample(s, i - 1) \in T /\ (i - 1 < Count(s) => Sample(s, i - 1) = samples[s][(i - 1) + 1])
    BY <2>1, SampleIs
  <2>3. i <= Count(s) => i - 1 < Count(s)
    BY <1>1, <2>1
  <2> QED BY <2>1, <2>2, <2>3
<1>3. w \in [1..p -> T]
  BY <1>2
<1> HIDE DEF w, T, x
<1>4. w \in Seq(T) /\ Len(w) = p
  BY <1>3, FunctionIsSeq
<1>5. p <= Count(s) => IsPrefix(w, x)
  <2>1. ASSUME p <= Count(s), NEW i \in 1..Len(w)
        PROVE  w[i] = x[i]
    <3>1. i \in 1..p /\ i <= Count(s)
      BY <1>1, <1>4, <2>1
    <3> QED BY <1>2, <3>1
  <2> QED BY <1>1, <1>4, <2>1, PrefixIs
<1>6. p >= Count(s) => IsPrefix(x, w)
  <2>1. ASSUME p >= Count(s), NEW i \in 1..Len(x)
        PROVE  x[i] = w[i]
    <3>1. i \in 1..p /\ i <= Count(s)
      BY <1>1, <1>4, <2>1
    <3> QED BY <1>2, <3>1
  <2> QED BY <1>1, <1>4, <2>1, PrefixIs
<1> QED
  BY <1>5, <1>6 DEF w, x

LEMMA ConsistsInOrder ==
  ASSUME TimesInv, NEW checked \in SUBSET Signals, NEW lines \in Seq(LineOf(checked)),
         InTime(checked) => \A k \in 2 .. Len(lines) : lines[k - 1].t <= lines[k].t,
         \A s \in checked : Count(s) > 0 =>
           \E p : Consists(s, lines, p) /\ (p > Count(s) => \E o \in checked : Count(o) = 0)
  PROVE  FileInOrder(checked, lines)
<1>1. lines # <<>> => DOMAIN lines[1].cells = checked
  <2>1. ASSUME lines # <<>>
        PROVE  lines[1] \in LineOf(checked)
    <3>1. 1 \in 1..Len(lines)
      BY <2>1
    <3> QED BY <3>1, ElementOfSeq
  <2> QED BY <2>1 DEF LineOf
<1>2. ASSUME NEW s \in checked, Count(s) > 0
      PROVE  LET saved == FlattenSeq([k \in DOMAIN lines |-> lines[k].cells[s]])
             IN  \/ IsPrefix(saved, samples[s])
                 \/ IsPrefix(samples[s], saved) /\ \E o \in checked : Count(o) = 0
  <2>1. PICK p : Consists(s, lines, p) /\ (p > Count(s) => \E o \in checked : Count(o) = 0)
    BY <1>2
  <2>2. Begins(s, lines, p) /\ p \in Nat
    BY <2>1, ConsistsBegins
  <2>3. Count(s) \in Nat
    BY SampleIs
  <2> DEFINE w == [i \in 1..p |-> Sample(s, i - 1)]
             saved == FlattenSeq([k \in DOMAIN lines |-> lines[k].cells[s]])
  <2>4. saved = w
    BY <2>2 DEF Begins
  <2>5. (p <= Count(s) => IsPrefix(w, samples[s])) /\ (p >= Count(s) => IsPrefix(samples[s], w))
    BY <2>2, BeginsPrefix
  <2> HIDE DEF w, saved
  <2>6. \/ IsPrefix(saved, samples[s])
        \/ IsPrefix(samples[s], saved) /\ \E o \in checked : Count(o) = 0
    BY <2>1, <2>2, <2>3, <2>4, <2>5
  <2> QED BY <2>6 DEF saved
<1> QED
  BY <1>1, <1>2 DEF FileInOrder

-----------------------------------------------------------------------------
LEMMA CombinedInOrder ==
  ASSUME TimesInv, NEW checked \in SUBSET Signals, NEW frame \in Nat,
         ValidateCombinedTimeframe(checked, frame), SaveCombined(checked, frame)
  PROVE  FileInOrder(checked, file')
<1> DEFINE x == [pos |-> [s \in checked |-> 0], lines |-> <<>>]
           turns == CHOOSE f : AreTurns(checked, frame, f)
<1>1. AreTurns(checked, frame, turns)
  BY TurnsExist
<1>2. file' = turns[pushed + 1].lines
  BY DEF SaveCombined, AreTurns
<1> HIDE DEF turns
<1>3. \A n \in Nat : turns[n] = IF n = 0 THEN x ELSE WriteLine(checked, frame, turns[n - 1])
  BY <1>1 DEF AreTurns
<1>4. InTurn(checked, x)
  BY FirstTurn
<1> HIDE DEF x
<1>5. ASSUME NEW j \in Nat, ~InTurn(checked, turns[j])
      PROVE  FALSE
  <2> DEFINE D == {i \in Nat : ~InTurn(checked, turns[i])}
  <2>1. PICK m \in D : \A i \in D : m <= i
    <3>1. D \in SUBSET Nat /\ j \in D
      BY <1>5
    <3> HIDE DEF D
    <3> QED BY <3>1, NatMin
  <2>2. m \in Nat /\ ~InTurn(checked, turns[m])
    BY <2>1
  <2>3. m # 0
    BY <1>3, <1>4, <2>2
  <2>4. m - 1 \in Nat /\ ~(m <= m - 1)
    BY <2>2, <2>3
  <2>5. InTurn(checked, turns[m - 1])
    BY <2>1, <2>4
  <2>6. turns[m] = WriteLine(checked, frame, turns[m - 1])
    BY <1>3, <2>2, <2>3
  <2>7. InTurn(checked, WriteLine(checked, frame, turns[m - 1]))
    BY <2>5, TurnStays
  <2> QED BY <2>2, <2>6, <2>7
<1>6. pushed + 1 \in Nat
  BY DEF TimesInv, SignalsInv
<1> DEFINE state == turns[pushed + 1]
<1>7. InTurn(checked, state)
  BY <1>5, <1>6
<1> HIDE DEF state
<1>8. /\ state.lines \in Seq(LineOf(checked)) /\ state.pos \in [checked -> Nat]
      /\ \A s \in checked : Consists(s, state.lines, state.pos[s])
      /\ InTime(checked) => \A k \in 2 .. Len(state.lines) : state.lines[k - 1].t <= state.lines[k].t
      /\ (\A s \in checked : Count(s) > 0) => \A s \in checked : state.pos[s] <= Count(s)
  BY <1>7 DEF InTurn
<1>9. \A s \in checked : Count(s) \in Nat
  BY SampleIs
<1>10. ASSUME NEW s \in checked
       PROVE  \E p : Consists(s, state.lines, p) /\ (p > Count(s) => \E o \in checked : Count(o) = 0)
  <2>1. ASSUME state.pos[s] > Count(s)
        PROVE  \E o \in checked : Count(o) = 0
    <3>1. ~(state.pos[s] <= Count(s))
      BY <1>8, <1>9, <2>1
    <3>2. ~(\A o \in checked : Count(o) > 0)
      BY <1>8, <3>1
    <3> QED BY <1>9, <3>2
  <2> QED BY <1>8, <2>1
<1>11. FileInOrder(checked, state.lines)
  BY <1>8, <1>10, ConsistsInOrder
<1> QED
  BY <1>2, <1>11 DEF state

(* The longest of the signals is as long as their lines are many.          *)
LEMMA LongestIs ==
  ASSUME TimesInv, NEW checked \in SUBSET Signals, checked # {}
  PROVE  Max({Count(s) : s \in checked}) \in Nat
<1> DEFINE counts == {Count(s) : s \in checked}
           bounds == {b \in Nat : \A c \in counts : c <= b}
<1>1. counts \in SUBSET Nat /\ counts # {}
  BY SampleIs
<1>2. pushed \in bounds
  BY DEF TimesInv, SignalsInv, Ordered
<1>3. PICK m \in bounds : \A b \in bounds : m <= b
  <2>1. bounds \in SUBSET Nat
    OBVIOUS
  <2> HIDE DEF bounds
  <2> QED BY <1>2, <2>1, NatMin
<1> HIDE DEF counts
<1>4. m \in Nat /\ \A c \in counts : c <= m
  BY <1>3
<1>5. m \in counts
  <2>1. SUFFICES ASSUME m \notin counts
                 PROVE  FALSE
    OBVIOUS
  <2>2. PICK c \in counts : TRUE
    BY <1>1
  <2>3. m > 0 /\ m - 1 \in Nat
    BY <1>1, <1>4, <2>1, <2>2
  <2>4. \A d \in counts : d <= m - 1
    BY <1>1, <1>4, <2>1
  <2>5. m - 1 \in bounds
    BY <2>3, <2>4
  <2> QED BY <1>3, <1>4, <2>5
<1>6. Max(counts) \in counts
  BY <1>4, <1>5 DEF Max
<1> QED
  BY <1>1, <1>6 DEF counts

LEMMA SeparateInOrder ==
  ASSUME TimesInv, NEW checked \in SUBSET Signals, checked # {}, Save(checked)
  PROVE  FileInOrder(checked, file')
<1> DEFINE n == Max({Count(s) : s \in checked})
           lines == [k \in 1..n |-> Line(checked, k - 1)]
<1>1. n \in Nat /\ file' = lines
  BY LongestIs DEF Save
<1> HIDE DEF n
<1>2. ASSUME NEW k \in 1..n
      PROVE  /\ lines[k] = Line(checked, k - 1) /\ Line(checked, k - 1) \in LineOf(checked)
             /\ Line(checked, k - 1).t = 0
  <2>1. ASSUME NEW s \in checked
        PROVE  (IF More(s, k - 1) THEN <<Sample(s, k - 1)>> ELSE <<>>) \in Cell
    <3>1. Sample(s, k - 1) \in StoredSamples
      <4>1. k - 1 \in Nat
        BY <1>1
      <4> QED BY <4>1, SampleIs
    <3>2. <<Sample(s, k - 1)>> \in Cell /\ <<>> \in Cell
      BY <3>1 DEF Cell
    <3> QED BY <3>2
  <2> QED BY <2>1 DEF Line, LineOf
<1>3. lines \in [1..n -> LineOf(checked)]
  BY <1>2
<1> HIDE DEF lines
<1>4. lines \in Seq(LineOf(checked)) /\ Len(lines) = n
  BY <1>1, <1>3, FunctionIsSeq
<1>5. ASSUME NEW k \in 2..Len(lines)
      PROVE  lines[k - 1].t <= lines[k].t
  <2>1. k \in 1..n /\ k - 1 \in 1..n
    BY <1>1, <1>4
  <2>2. lines[k].t = 0 /\ lines[k - 1].t = 0
    BY <1>2, <2>1
  <2> QED BY <2>2
<1>6. ASSUME NEW s \in checked, Count(s) > 0
      PROVE  \E p : Consists(s, lines, p) /\ (p > Count(s) => \E o \in checked : Count(o) = 0)
  <2> DEFINE end == Count(s) - 1
             f == [k \in 0..n |-> IF k <= end THEN k ELSE end]
  <2>1. end \in Nat /\ Count(s) = end + 1
    <3>1. Count(s) \in Nat
      BY SampleIs
    <3> QED BY <1>6, <3>1
  <2>2. Count(s) # 0
    BY <1>6
  <2> HIDE DEF end
  <2>3. f \in [0..n -> Nat] /\ f[0] = 0 /\ f[n] <= end /\ f[n] \in Nat
    BY <1>1, <2>1
  <2>4. ASSUME NEW k \in 1..n
        PROVE  IF f[k] = f[k - 1] THEN lines[k].cells[s] = <<>>
               ELSE f[k] = f[k - 1] + 1 /\ lines[k].cells[s] = <<Sample(s, f[k - 1])>>
    <3>1. lines[k].cells[s] = IF More(s, k - 1) THEN <<Sample(s, k - 1)>> ELSE <<>>
      <4>1. lines[k] = Line(checked, k - 1)
        BY <1>2
      <4>2. Line(checked, k - 1).cells[s] = IF More(s, k - 1) THEN <<Sample(s, k - 1)>> ELSE <<>>
        BY DEF Line
      <4> QED BY <4>1, <4>2
    <3>2. More(s, k - 1) <=> k - 1 < end
      BY <1>6, <2>1, <2>2 DEF More
    <3>3. k \in 0..n /\ k - 1 \in 0..n
      BY <1>1
    <3>4. CASE k - 1 < end
      <4>1. f[k] = k /\ f[k - 1] = k - 1
        BY <1>1, <2>1, <3>3, <3>4
      <4> HIDE DEF f
      <4> QED BY <3>1, <3>2, <3>4, <4>1
    <3>5. CASE ~(k - 1 < end)
      <4>1. f[k] = end /\ f[k - 1] = end
        BY <1>1, <2>1, <3>3, <3>5
      <4> HIDE DEF f
      <4> QED BY <3>1, <3>2, <3>5, <4>1
    <3> QED BY <3>4, <3>5
  <2> HIDE DEF f
  <2>5. Consists(s, lines, f[n])
    BY <1>4, <2>3, <2>4 DEF Consists
  <2>6. ~(f[n] > Count(s))
    BY <2>1, <2>2, <2>3
  <2> QED BY <2>5, <2>6
<1>7. FileInOrder(checked, lines)
  BY <1>4, <1>5, <1>6, ConsistsInOrder
<1> QED
  BY <1>1, <1>7

-----------------------------------------------------------------------------
(* Once the dialog is closed or hangs, nothing happens to the samples.     *)
SaveInv == (dialog # "open" => open = "save") /\ SavedInOrder

LEMMA SaveInit == Init => SaveInv
BY DEF Init, InitSignalSave, SaveInv, SavedInOrder

LEMMA FileStays ==
  ASSUME SaveInv, UNCHANGED <<open, dialog, file>>, dialog = "open" \/ UNCHANGED <<samples, backward>>
  PROVE  SaveInv'
<1>1. CASE dialog = "open"
  BY <1>1 DEF SaveInv, SavedInOrder
<1>2. CASE UNCHANGED <<samples, backward>>
  BY <1>2 DEF SaveInv, SavedInOrder, InFile, Saved, Count
<1> QED
  BY <1>1, <1>2

LEMMA AcceptStep ==
  ASSUME TimesInv, NEW checked \in SUBSET Signals, Accept(checked), open = "save", open' = open
  PROVE  SaveInv'
<1>1. UNCHANGED <<samples, backward>> /\ checked # {}
  BY DEF Accept, sourceVars, pushVars
<1>2. ASSUME dialog' # "saved"
      PROVE  SaveInv'
  BY <1>2 DEF SaveInv, SavedInOrder
<1>3. ASSUME FileInOrder(checked, file')
      PROVE  SaveInv'
  <2>1. /\ InTime(checked) => \A k \in 2 .. Len(file') : file'[k - 1].t <= file'[k].t
        /\ file' # <<>> => DOMAIN file'[1].cells = checked
        /\ \A s \in checked : Count(s) > 0 =>
             LET saved == FlattenSeq([k \in DOMAIN file' |-> file'[k].cells[s]])
             IN  \/ IsPrefix(saved, samples[s])
                 \/ IsPrefix(samples[s], saved) /\ \E o \in checked : Count(o) = 0
    BY <1>3 DEF FileInOrder
  <2>2. CASE file' = <<>>
    <3>1. InFile' = {} /\ Len(file') = 0
      BY <2>2 DEF InFile
    <3> QED BY <3>1 DEF SaveInv, SavedInOrder
  <2>3. CASE file' # <<>>
    <3>1. InFile' = checked
      BY <2>1, <2>3 DEF InFile
    <3>2. \A s : Count(s)' = Count(s)
      BY <1>1 DEF Count
    <3>3. \A s : Saved(s)' = FlattenSeq([k \in DOMAIN file' |-> file'[k].cells[s]])
      BY DEF Saved
    <3> QED BY <1>1, <2>1, <3>1, <3>2, <3>3 DEF SaveInv, SavedInOrder, InTime
  <2> QED BY <2>2, <2>3
<1>4. CASE AcceptSeparate(checked)
  BY <1>1, <1>3, <1>4, SeparateInOrder DEF AcceptSeparate
<1>5. ASSUME NEW frame \in TimeFrames, AcceptCombined(checked, frame)
      PROVE  SaveInv'
  <2>1. frame \in Nat
    BY SaveConstantsOK
  <2>2. CASE SaveCombined(checked, frame)
    BY <1>3, <1>5, <2>1, <2>2, CombinedInOrder DEF AcceptCombined
  <2>3. CASE dialog' = "saving"
    BY <1>2, <2>3
  <2> QED BY <1>5, <2>2, <2>3 DEF AcceptCombined
<1> QED
  BY <1>4, <1>5 DEF Accept

LEMMA SaveStep == TimesInv /\ SaveInv /\ [Next]_vars => SaveInv'
<1> SUFFICES ASSUME TimesInv, SaveInv, [Next]_vars
             PROVE  SaveInv'
  OBVIOUS
<1>1. CASE World /\ dialog = "open" /\ Others /\ open' = open
  BY <1>1, FileStays DEF Others, saveVars
<1>2. CASE PowerPanelNext /\ UNCHANGED <<open, saveVars>>
  BY <1>2, FileStays DEF PowerPanelNext, SetSignals, ResetDisplaysTriggered, OnUpdate, OnDigitsChanged, saveVars, sourceVars, pushVars
<1>3. CASE DataViewNext /\ UNCHANGED <<open, saveVars>>
  BY <1>3, FileStays DEF DataViewNext, AddSignal, OnTableEvent, saveVars, pushVars
<1>4. CASE MathChannelsNext /\ UNCHANGED <<open, saveVars>>
  BY <1>4, FileStays DEF MathChannelsNext, AddMathChannel, OnSampleAppended, saveVars, pushVars
<1>5. CASE open = "save" /\ SignalSaveNext /\ open' = open
  BY <1>5, AcceptStep DEF SignalSaveNext
<1>6. CASE UNCHANGED vars
  BY <1>6, FileStays DEF vars, sourceVars, pushVars, saveVars
<1> QED
  BY <1>1, <1>2, <1>3, <1>4, <1>5, <1>6 DEF Next

THEOREM FilesAreInOrder == Spec => []SavedInOrder
<1>1. SaveInv => SavedInOrder
  BY DEF SaveInv
<1> QED
  BY <1>1, TimesInit, TimesStep, SaveInit, SaveStep, PTL DEF Spec

-----------------------------------------------------------------------------
(* The table: its columns, and its rows with the cells they have so far.   *)
Cells == UNION {[S -> Int] : S \in SUBSET Nat}
Stamped == [t : Nat, cells : Cells]
Taker == [signal : Signals, next : Nat, last : Nat]

IsTable(T) == T = [columns |-> T.columns, rows |-> T.rows] /\ T.columns \in Seq(Taker) /\ T.rows \in Seq(Stamped)

(* P is T with the sample x in a cell of column i and row "at"; the rows   *)
(* from "cut" on have moved, for a row inserted there, if they are more.   *)
HasPlaced(T, P, i, x, at, cut) ==
  /\ IsTable(P)
  /\ at \in 1 .. Len(P.rows)
  /\ \/ Len(P.rows) = Len(T.rows) /\ cut = Len(T.rows) + 1
     \/ Len(P.rows) = Len(T.rows) + 1 /\ cut = at /\ \A j \in Nat : HasCell(P, j, at) => j = i
  /\ Len(P.columns) = Len(T.columns)
  /\ \A j \in 1 .. Len(T.columns) :
       /\ P.columns[j].signal = T.columns[j].signal
       /\ P.columns[j].next = IF j = i THEN T.columns[j].next + 1 ELSE T.columns[j].next
       /\ P.columns[j].last = IF j = i THEN at ELSE RowAfter(T.columns[j].last, cut)
  /\ P.rows[at].t = x.t /\ HasCell(P, i, at) /\ P.rows[at].cells[i] = x.v
  /\ \A r \in 1 .. Len(T.rows) :
       LET q == RowAfter(r, cut)
       IN  /\ P.rows[q].t = T.rows[r].t
           /\ \A j \in Nat : HasCell(P, j, q) <=> HasCell(T, j, r) \/ (j = i /\ q = at)
           /\ \A j \in Nat : HasCell(T, j, r) /\ ~(j = i /\ q = at) => P.rows[q].cells[j] = T.rows[r].cells[j]

(* A row that is inserted, and the others behind or before it.             *)
LEMMA InsertAtIs ==
  ASSUME NEW S, NEW s \in Seq(S), NEW at \in 1 .. Len(s) + 1, NEW e \in S
  PROVE  /\ InsertAt(s, at, e) \in Seq(S) /\ Len(InsertAt(s, at, e)) = Len(s) + 1
         /\ InsertAt(s, at, e)[at] = e
         /\ \A r \in 1 .. Len(s) : InsertAt(s, at, e)[RowAfter(r, at)] = s[r]
<1> DEFINE a == SubSeq(s, 1, at - 1)
           b == SubSeq(s, at, Len(s))
           n == Len(s)
<1>1. n \in Nat /\ at \in Nat /\ 1 <= at /\ at <= n + 1
  BY LenProperties
<1>2. a \in Seq(S) /\ Len(a) = at - 1 /\ \A r \in 1 .. at - 1 : a[r] = s[r]
  <2>1. \A r \in 1 .. at - 1 : r \in 1 .. n
    BY <1>1
  <2>2. \A r \in 1 .. at - 1 : s[r] \in S
    BY <2>1, ElementOfSeq
  <2> HIDE DEF n
  <2>3. 1 \in Int /\ at - 1 \in Int
    BY <1>1
  <2>4. /\ SubSeq(s, 1, at - 1) \in Seq(S)
        /\ Len(SubSeq(s, 1, at - 1)) = IF 1 <= at - 1 THEN (at - 1) - 1 + 1 ELSE 0
        /\ \A r \in 1 .. (at - 1) - 1 + 1 : SubSeq(s, 1, at - 1)[r] = s[1 + r - 1]
    BY ONLY <2>2, <2>3, SubSeqProperties
  <2> QED BY <1>1, <2>4
<1>3. b \in Seq(S) /\ Len(b) = n - at + 1 /\ \A r \in 1 .. n - at + 1 : b[r] = s[at + r - 1]
  <2>1. \A r \in at .. n : r \in 1 .. n
    BY <1>1
  <2>2. \A r \in at .. n : s[r] \in S
    BY <2>1, ElementOfSeq
  <2> HIDE DEF n
  <2>3. n \in Int /\ at \in Int
    BY <1>1
  <2>4. /\ SubSeq(s, at, n) \in Seq(S)
        /\ Len(SubSeq(s, at, n)) = IF at <= n THEN n - at + 1 ELSE 0
        /\ \A r \in 1 .. n - at + 1 : SubSeq(s, at, n)[r] = s[at + r - 1]
    BY ONLY <2>2, <2>3, SubSeqProperties
  <2> QED BY <1>1, <2>4 DEF n
<1>4. InsertAt(s, at, e) = (a \o <<e>>) \o b
  BY DEF InsertAt
<1> HIDE DEF a, b
<1> DEFINE c == a \o <<e>>
<1>5. c \in Seq(S) /\ Len(c) = at /\ c[at] = e /\ \A r \in 1 .. at - 1 : c[r] = s[r]
  <2>1. <<e>> \in Seq(S) /\ Len(<<e>>) = 1 /\ <<e>>[1] = e
    OBVIOUS
  <2>2. c \in Seq(S) /\ Len(c) = Len(a) + Len(<<e>>)
        /\ \A r \in 1 .. Len(a) + Len(<<e>>) : c[r] = IF r <= Len(a) THEN a[r] ELSE <<e>>[r - Len(a)]
    BY <1>2, <2>1, ConcatProperties
  <2> HIDE DEF c
  <2> QED BY <1>1, <1>2, <2>1, <2>2
<1> HIDE DEF c
<1> DEFINE d == c \o b
<1>6. d \in Seq(S) /\ Len(d) = Len(c) + Len(b)
      /\ \A r \in 1 .. Len(c) + Len(b) : d[r] = IF r <= Len(c) THEN c[r] ELSE b[r - Len(c)]
  BY <1>3, <1>5, ConcatProperties
<1> HIDE DEF d, n
<1>7. Len(d) = n + 1
  BY <1>1, <1>3, <1>5, <1>6
<1>8. d[at] = e
  BY <1>1, <1>3, <1>5, <1>6
<1>9. ASSUME NEW r \in 1 .. n
      PROVE  d[RowAfter(r, at)] = s[r]
  <2>1. CASE r >= at
    <3>1. RowAfter(r, at) = r + 1 /\ r + 1 \in 1 .. Len(c) + Len(b) /\ ~(r + 1 <= Len(c))
      BY <1>1, <1>3, <1>5, <2>1 DEF RowAfter
    <3>2. d[r + 1] = b[r + 1 - Len(c)]
      BY <1>6, <3>1
    <3>3. r + 1 - Len(c) = r + 1 - at /\ r + 1 - at \in 1 .. n - at + 1 /\ at + (r + 1 - at) - 1 = r
      BY <1>1, <1>5, <2>1
    <3>4. b[r + 1 - at] = s[at + (r + 1 - at) - 1]
      BY <1>3, <3>3
    <3> QED BY <3>1, <3>2, <3>3, <3>4
  <2>2. CASE ~(r >= at)
    <3>1. RowAfter(r, at) = r /\ r \in 1 .. at - 1 /\ r \in 1 .. Len(c) + Len(b) /\ r <= Len(c)
      BY <1>1, <1>3, <1>5, <2>2 DEF RowAfter
    <3> QED BY <1>5, <1>6, <3>1
  <2> QED BY <2>1, <2>2
<1> QED
  BY <1>4, <1>6, <1>7, <1>8, <1>9 DEF c, d, n

(* The cells of a row with one more.                                       *)
LEMMA WithCellIs ==
  ASSUME NEW c \in Cells, NEW i \in Nat, NEW v \in Int
  PROVE  LET d == WithCell(c, i, v)
         IN  /\ d \in Cells /\ DOMAIN d = {i} \cup DOMAIN c /\ d[i] = v
             /\ \A j \in DOMAIN c : j # i => d[j] = c[j]
<1> DEFINE d == WithCell(c, i, v)
<1>1. PICK S \in SUBSET Nat : c \in [S -> Int]
  BY DEF Cells
<1>2. DOMAIN c = S
  BY <1>1
<1>3. d = [j \in DOMAIN c \cup {i} |-> IF j = i THEN v ELSE c[j]]
  BY DEF WithCell
<1> HIDE DEF d
<1>4. DOMAIN d = {i} \cup S /\ d[i] = v /\ \A j \in S : j # i => d[j] = c[j]
  BY <1>2, <1>3
<1>5. d \in [{i} \cup S -> Int]
  BY <1>1, <1>2, <1>3
<1>6. {i} \cup S \in SUBSET Nat
  OBVIOUS
<1>7. d \in Cells
  BY <1>5, <1>6 DEF Cells
<1> QED
  BY <1>2, <1>4, <1>7 DEF d

(* A new row has no cells.                                                 *)
LEMMA NoCells == <<>> \in Cells /\ DOMAIN <<>> = {}
<1>1. DOMAIN <<>> = {}
  OBVIOUS
<1>2. <<>> \in [{} -> Int]
  OBVIOUS
<1>3. {} \in SUBSET Nat
  OBVIOUS
<1> QED
  BY <1>1, <1>2, <1>3 DEF Cells

(* A table with the cell of column i in a row it has.                      *)
Marked(T, i, at, v) ==
  [columns |-> [T.columns EXCEPT ![i].last = at, ![i].next = @ + 1],
   rows |-> [T.rows EXCEPT ![at].cells = WithCell(@, i, v)]]

(* What that is, cell by cell.                                             *)
IsMarked(T, P, i, at, v) ==
  /\ IsTable(P) /\ Len(P.rows) = Len(T.rows) /\ Len(P.columns) = Len(T.columns)
  /\ \A j \in 1 .. Len(T.columns) :
       P.columns[j] = IF j = i THEN [signal |-> T.columns[j].signal, next |-> T.columns[j].next + 1, last |-> at]
                      ELSE T.columns[j]
  /\ HasCell(P, i, at) /\ P.rows[at].cells[i] = v
  /\ \A r \in 1 .. Len(T.rows) :
       /\ P.rows[r].t = T.rows[r].t
       /\ \A j \in Nat : HasCell(P, j, r) <=> HasCell(T, j, r) \/ (j = i /\ r = at)
       /\ \A j \in Nat : HasCell(T, j, r) /\ ~(j = i /\ r = at) => P.rows[r].cells[j] = T.rows[r].cells[j]

LEMMA CellSet ==
  ASSUME NEW T, IsTable(T), NEW i \in 1 .. Len(T.columns), NEW at \in 1 .. Len(T.rows), NEW v \in Int
  PROVE  IsMarked(T, Marked(T, i, at, v), i, at, v)
<1> DEFINE P == Marked(T, i, at, v)
<1> DEFINE cs == T.columns
           rs == T.rows
           c == [signal |-> cs[i].signal, next |-> cs[i].next + 1, last |-> at]
           d == WithCell(rs[at].cells, i, v)
           e == [t |-> rs[at].t, cells |-> d]
<1>1. cs \in Seq(Taker) /\ rs \in Seq(Stamped) /\ i \in Nat /\ at \in Nat /\ Len(cs) \in Nat /\ Len(rs) \in Nat
  BY LenProperties DEF IsTable
<1>2. cs[i] \in Taker /\ rs[at] \in Stamped
  BY <1>1, ElementOfSeq
<1>3. c \in Taker
  <2>1. cs[i].signal \in Signals /\ cs[i].next + 1 \in Nat
    BY <1>2 DEF Taker
  <2> QED BY <1>1, <2>1 DEF Taker
<1>4. /\ d \in Cells /\ DOMAIN d = {i} \cup DOMAIN rs[at].cells /\ d[i] = v
      /\ \A j \in DOMAIN rs[at].cells : j # i => d[j] = rs[at].cells[j]
  BY <1>1, <1>2, WithCellIs DEF Stamped
<1>5. P.columns = [cs EXCEPT ![i] = c]
  <2>1. ASSUME NEW a \in Taker
        PROVE  [[a EXCEPT !.last = at] EXCEPT !.next = @ + 1]
               = [signal |-> a.signal, next |-> a.next + 1, last |-> at]
    <3> DEFINE b == [a EXCEPT !.last = at]
    <3>1. b = [signal |-> a.signal, next |-> a.next, last |-> at]
      BY DEF Taker
    <3> HIDE DEF b
    <3>2. [b EXCEPT !.next = @ + 1] = [signal |-> a.signal, next |-> a.next + 1, last |-> at]
      BY <3>1
    <3> QED BY <3>2 DEF b
  <2>2. P.columns = [cs EXCEPT ![i].last = at, ![i].next = @ + 1]
    BY DEF Marked
  <2>3. DOMAIN cs = 1 .. Len(cs) /\ i \in DOMAIN cs
    BY <1>1
  <2>4. P.columns = [cs EXCEPT ![i] = [[cs[i] EXCEPT !.last = at] EXCEPT !.next = @ + 1]]
    <3> HIDE DEF P, c
    <3> QED BY <1>2, <2>2, <2>3 DEF Taker
  <2> QED BY <1>2, <2>1, <2>4
<1>6. P.rows = [rs EXCEPT ![at] = e]
  <2>1. [rs[at] EXCEPT !.cells = d] = e
    BY <1>2 DEF Stamped
  <2> QED BY <2>1 DEF Marked
<1>7. e \in Stamped
  BY <1>2, <1>4 DEF Stamped
<1> DEFINE pc == P.columns
           pr == P.rows
<1>8. /\ pc \in Seq(Taker) /\ Len(pc) = Len(cs)
      /\ \A j \in 1 .. Len(cs) : pc[j] = IF j = i THEN c ELSE cs[j]
  <2> HIDE DEF c, cs, pc
  <2>1. i \in 1 .. Len(cs)
    BY DEF cs
  <2>2. cs \in Seq(Taker)
    BY <1>1
  <2> DEFINE new == [cs EXCEPT ![i] = c]
  <2>3. new \in Seq(Taker) /\ Len(new) = Len(cs)
        /\ \A j \in 1 .. Len(cs) : new[j] = IF j = i THEN c ELSE cs[j]
    BY ONLY <1>3, <2>1, <2>2, ExceptSeq
  <2>4. pc = new
    BY <1>5 DEF pc
  <2> QED BY ONLY <2>3, <2>4
<1>9. /\ pr \in Seq(Stamped) /\ Len(pr) = Len(rs)
      /\ \A j \in 1 .. Len(rs) : pr[j] = IF j = at THEN e ELSE rs[j]
  <2> HIDE DEF e, rs, pr
  <2>1. at \in 1 .. Len(rs)
    BY DEF rs
  <2>2. rs \in Seq(Stamped)
    BY <1>1
  <2> DEFINE new == [rs EXCEPT ![at] = e]
  <2>3. new \in Seq(Stamped) /\ Len(new) = Len(rs)
        /\ \A j \in 1 .. Len(rs) : new[j] = IF j = at THEN e ELSE rs[j]
    BY ONLY <1>7, <2>1, <2>2, ExceptSeq
  <2>4. pr = new
    BY <1>6 DEF pr
  <2> QED BY ONLY <2>3, <2>4
<1>10. P = [columns |-> pc, rows |-> pr]
  BY DEF Marked
<1>11. e.t = rs[at].t /\ e.cells = d
  OBVIOUS
<1>12. HasCell(P, i, at) /\ P.rows[at].cells[i] = v
  <2>1. pr[at] = e /\ i \in DOMAIN e.cells
    BY <1>4, <1>9, <1>11
  <2> QED BY <1>4, <1>11, <2>1 DEF HasCell
<1>13. ASSUME NEW r \in 1 .. Len(T.rows)
       PROVE  /\ P.rows[r].t = T.rows[r].t
              /\ \A j \in Nat : HasCell(P, j, r) <=> HasCell(T, j, r) \/ (j = i /\ r = at)
              /\ \A j \in Nat : HasCell(T, j, r) /\ ~(j = i /\ r = at) => P.rows[r].cells[j] = T.rows[r].cells[j]
  <2>1. CASE r = at
    <3>1. pr[r] = e
      BY <1>9, <2>1
    <3> HIDE DEF e, d
    <3> QED BY <1>4, <1>11, <2>1, <3>1 DEF HasCell
  <2>2. CASE r # at
    <3>1. pr[r] = rs[r]
      BY <1>9, <2>2
    <3> QED BY <2>2, <3>1 DEF HasCell
  <2> QED BY <2>1, <2>2
<1>14. IsTable(P)
  <2>1. P.columns = pc /\ P.rows = pr
    OBVIOUS
  <2> HIDE DEF pc, pr
  <2> QED BY <1>8, <1>9, <1>10, <2>1 DEF IsTable
<1> QED
  BY <1>8, <1>9, <1>12, <1>13, <1>14 DEF IsMarked

(* A table with a row inserted.                                            *)
HasRow(T, W, at, t) ==
  /\ IsTable(W) /\ Len(W.rows) = Len(T.rows) + 1 /\ Len(W.columns) = Len(T.columns)
  /\ \A j \in 1 .. Len(T.columns) :
       W.columns[j] = [signal |-> T.columns[j].signal, next |-> T.columns[j].next,
                       last |-> RowAfter(T.columns[j].last, at)]
  /\ W.rows[at] = [t |-> t, cells |-> <<>>]
  /\ \A r \in 1 .. Len(T.rows) : W.rows[RowAfter(r, at)] = T.rows[r]

LEMMA RowInserted ==
  ASSUME NEW T, IsTable(T), NEW at \in 1 .. Len(T.rows) + 1, NEW t \in Nat
  PROVE  HasRow(T, InsertRow(T, at, t), at, t)
<1> DEFINE cs == T.columns
           rs == T.rows
           e == [t |-> t, cells |-> <<>>]
           W == InsertRow(T, at, t)
           wc == W.columns
           wr == W.rows
<1>1. cs \in Seq(Taker) /\ rs \in Seq(Stamped) /\ at \in Nat /\ Len(cs) \in Nat /\ DOMAIN cs = 1 .. Len(cs)
  BY LenProperties DEF IsTable
<1>2. e \in Stamped
  BY NoCells DEF Stamped
<1>3. wr = InsertAt(rs, at, e) /\ wc = [j \in DOMAIN cs |-> [cs[j] EXCEPT !.last = RowAfter(@, at)]]
      /\ W = [columns |-> wc, rows |-> wr]
  BY DEF InsertRow
<1>4. ASSUME NEW j \in 1 .. Len(cs)
      PROVE  /\ wc[j] = [signal |-> cs[j].signal, next |-> cs[j].next, last |-> RowAfter(cs[j].last, at)]
             /\ wc[j] \in Taker
  <2>1. cs[j] \in Taker
    BY <1>1, ElementOfSeq
  <2>2. RowAfter(cs[j].last, at) \in Nat
    BY <1>1, <2>1 DEF RowAfter, Taker
  <2>3. wc[j] = [cs[j] EXCEPT !.last = RowAfter(@, at)]
    BY <1>1, <1>3
  <2>4. [cs[j] EXCEPT !.last = RowAfter(@, at)] = [signal |-> cs[j].signal, next |-> cs[j].next, last |-> RowAfter(cs[j].last, at)]
    BY <2>1 DEF Taker
  <2> HIDE DEF wc
  <2> QED BY <2>1, <2>2, <2>3, <2>4 DEF Taker
<1>5. wc \in Seq(Taker) /\ Len(wc) = Len(cs)
  <2>1. wc = [j \in 1 .. Len(cs) |-> wc[j]]
    <3>1. \E g : wc = [j \in 1 .. Len(cs) |-> g[j]]
      BY <1>1, <1>3
    <3> HIDE DEF wc
    <3> QED BY <3>1
  <2> HIDE DEF wc
  <2>2. wc \in [1 .. Len(cs) -> Taker]
    BY <1>4, <2>1
  <2> QED BY <1>1, <2>2
<1>6. /\ wr \in Seq(Stamped) /\ Len(wr) = Len(rs) + 1 /\ wr[at] = e
      /\ \A r \in 1 .. Len(rs) : wr[RowAfter(r, at)] = rs[r]
  <2>1. at \in 1 .. Len(rs) + 1
    OBVIOUS
  <2> HIDE DEF e, rs, wr
  <2> QED BY <1>1, <1>2, <1>3, <2>1, InsertAtIs
<1>7. IsTable(W)
  <2>1. W.columns = wc /\ W.rows = wr
    OBVIOUS
  <2> HIDE DEF wc, wr
  <2> QED BY <1>3, <1>5, <1>6, <2>1 DEF IsTable
<1> QED
  BY <1>4, <1>5, <1>6, <1>7 DEF HasRow

(* The rows are in order of time.                                          *)
Sorted(T) == \A q, r \in 1 .. Len(T.rows) : q <= r => T.rows[q].t <= T.rows[r].t

(* The first of the rows a sample can be in.                               *)
LEMMA MinIs ==
  ASSUME NEW S \in SUBSET Nat, S # {}
  PROVE  Min(S) \in S /\ \A k \in S : Min(S) <= k
BY NatMin DEF Min

(* The row of a sample is the first one it can be in.                      *)
LEMMA PlaceIs ==
  ASSUME NEW T, IsTable(T), NEW i \in 1 .. Len(T.columns), NEW x \in StoredSamples,
         \A j \in 1 .. Len(T.columns) : T.columns[j].last \in 0 .. Len(T.rows)
  PROVE  \E at, cut \in 1 .. Len(T.rows) + 1 :
           /\ HasPlaced(T, Place(T, i, x), i, x, at, cut)
           /\ at > T.columns[i].last
           /\ \A r \in 1 .. Len(T.rows) : r > T.columns[i].last /\ r < at => T.rows[r].t < x.t
           /\ Sorted(T) => \A r \in 1 .. Len(T.rows) :
                r >= at => x.t <= T.rows[r].t /\ (r >= cut => x.t < T.rows[r].t)
<1> DEFINE n == Len(T.rows)
           l == T.columns[i].last
           behind == {r \in DOMAIN T.rows : r > T.columns[i].last /\ T.rows[r].t >= x.t}
           at == IF behind = {} THEN Len(T.rows) + 1 ELSE Min(behind)
           meets == behind # {} /\ T.rows[at].t = x.t
           cut == IF meets THEN Len(T.rows) + 1 ELSE at
           W == IF meets THEN T ELSE InsertRow(T, at, x.t)
           P == Place(T, i, x)
<1>1. /\ T.columns \in Seq(Taker) /\ T.rows \in Seq(Stamped) /\ n \in Nat /\ DOMAIN T.rows = 1 .. n
      /\ i \in Nat
  BY LenProperties DEF IsTable
<1>2. T.columns[i] \in Taker /\ l \in Nat
  <2>1. T.columns[i] \in Taker
    BY <1>1, ElementOfSeq
  <2> QED BY <2>1 DEF Taker
<1>3. \A r \in 1 .. n : T.rows[r] \in Stamped /\ T.rows[r].t \in Nat
  <2>1. \A r \in 1 .. n : T.rows[r] \in Stamped
    BY <1>1, ElementOfSeq
  <2> QED BY <2>1 DEF Stamped
<1>4. x.t \in Nat /\ x.v \in Int
  BY DEF StoredSamples
<1>5. behind \in SUBSET Nat /\ behind \subseteq 1 .. n /\ \A r \in 1 .. n : r \in behind <=> r > l /\ T.rows[r].t >= x.t
  BY <1>1
<1>6. P = Marked(W, i, at, x.v)
  BY DEF Place, Marked
<1>7. /\ at \in 1 .. n + 1 /\ at > l
      /\ \A r \in 1 .. n : r > l /\ r < at => T.rows[r].t < x.t
      /\ Sorted(T) => \A r \in 1 .. n : r >= at => x.t <= T.rows[r].t /\ (~meets => x.t < T.rows[r].t)
      /\ meets <=> at \in 1 .. n /\ T.rows[at].t = x.t
  <2>1. CASE behind = {}
    <3>1. at = n + 1 /\ ~meets
      BY <2>1
    <3> HIDE DEF at, meets
    <3>2. ASSUME NEW r \in 1 .. n, r > l
          PROVE  T.rows[r].t < x.t
      BY <1>3, <1>4, <1>5, <2>1, <3>2
    <3> HIDE DEF behind
    <3> QED BY <1>1, <1>2, <3>1, <3>2
  <2>2. CASE behind # {}
    <3>1. at \in behind /\ \A k \in behind : at <= k
      <4>1. at = Min(behind)
        BY <2>2
      <4> HIDE DEF behind, at
      <4> QED BY <1>5, <2>2, <4>1, MinIs
    <3>2. meets <=> T.rows[at].t = x.t
      BY <2>2
    <3> HIDE DEF behind, at, meets
    <3>3. at \in 1 .. n /\ at > l /\ T.rows[at].t >= x.t
      BY <1>5, <3>1
    <3>4. ASSUME NEW r \in 1 .. n, r > l, r < at
          PROVE  T.rows[r].t < x.t
      <4>1. r \notin behind
        BY <1>1, <3>1, <3>3, <3>4
      <4> QED BY <1>3, <1>4, <1>5, <3>4, <4>1
    <3>5. ASSUME Sorted(T), NEW r \in 1 .. n, r >= at
          PROVE  x.t <= T.rows[r].t /\ (~meets => x.t < T.rows[r].t)
      <4>1. T.rows[at].t <= T.rows[r].t
        BY <1>1, <3>3, <3>5 DEF Sorted
      <4> QED BY <1>3, <1>4, <3>2, <3>3, <4>1
    <3> QED BY <1>1, <3>2, <3>3, <3>4, <3>5
  <2> QED BY <2>1, <2>2
<1>8. /\ meets => W = T /\ cut = n + 1
      /\ ~meets => W = InsertRow(T, at, x.t) /\ cut = at
  OBVIOUS
<1> HIDE DEF at, cut, meets, W, P, n, l
<1>9. ASSUME HasPlaced(T, P, i, x, at, cut)
      PROVE  \E a, c \in 1 .. Len(T.rows) + 1 :
           /\ HasPlaced(T, Place(T, i, x), i, x, a, c)
           /\ a > T.columns[i].last
           /\ \A r \in 1 .. Len(T.rows) : r > T.columns[i].last /\ r < a => T.rows[r].t < x.t
           /\ Sorted(T) => \A r \in 1 .. Len(T.rows) :
                r >= a => x.t <= T.rows[r].t /\ (r >= c => x.t < T.rows[r].t)
  <2>1. cut \in 1 .. n + 1
    BY <1>1, <1>7, <1>8
  <2>2. Sorted(T) => \A r \in 1 .. n : r >= at => x.t <= T.rows[r].t /\ (r >= cut => x.t < T.rows[r].t)
    BY <1>1, <1>7, <1>8
  <2> QED BY <1>7, <1>9, <2>1, <2>2 DEF n, l, P
<1>10. CASE meets
  <2>1. at \in 1 .. Len(T.rows)
    BY <1>7, <1>10 DEF n
  <2>2. P = Marked(T, i, at, x.v)
    BY <1>6, <1>8, <1>10
  <2>3. IsMarked(T, P, i, at, x.v)
    BY <1>4, <2>1, <2>2, CellSet
  <2>4. cut = Len(T.rows) + 1 /\ \A r \in 0 .. Len(T.rows) : RowAfter(r, cut) = r
    BY <1>1, <1>8, <1>10 DEF RowAfter, n
  <2>5. at \in 1 .. Len(P.rows) /\ P.rows[at].t = x.t
    BY <1>7, <1>10, <2>1, <2>3 DEF IsMarked
  <2>6. ASSUME NEW j \in 1 .. Len(T.columns)
        PROVE  /\ P.columns[j].signal = T.columns[j].signal
               /\ P.columns[j].next = IF j = i THEN T.columns[j].next + 1 ELSE T.columns[j].next
               /\ P.columns[j].last = IF j = i THEN at ELSE RowAfter(T.columns[j].last, cut)
    <3>1. RowAfter(T.columns[j].last, cut) = T.columns[j].last
      BY <2>4
    <3>2. P.columns[j] = IF j = i THEN [signal |-> T.columns[j].signal, next |-> T.columns[j].next + 1, last |-> at]
                         ELSE T.columns[j]
      BY <2>3 DEF IsMarked
    <3> QED BY <3>1, <3>2
  <2>7. \A r \in 1 .. Len(T.rows) : RowAfter(r, cut) = r
    BY <2>4
  <2>8. HasPlaced(T, P, i, x, at, cut)
    BY <2>3, <2>4, <2>5, <2>6, <2>7 DEF HasPlaced, IsMarked
  <2> QED BY <1>9, <2>8
<1>11. CASE ~meets
  <2>1. at \in 1 .. Len(T.rows) + 1
    BY <1>7 DEF n
  <2>2. HasRow(T, W, at, x.t)
    BY <1>4, <1>8, <1>11, <2>1, RowInserted
  <2>3. at \in 1 .. Len(W.rows) /\ i \in 1 .. Len(W.columns)
    BY <2>1, <2>2 DEF HasRow
  <2>4. IsMarked(W, P, i, at, x.v)
    BY <1>4, <1>6, <2>2, <2>3, CellSet DEF HasRow
  <2>5. cut = at
    BY <1>8, <1>11
  <2>6. at \in 1 .. Len(P.rows) /\ Len(P.rows) = Len(T.rows) + 1 /\ P.rows[at].t = x.t
    BY <2>2, <2>3, <2>4 DEF HasRow, IsMarked
  <2>7. ASSUME NEW j \in 1 .. Len(T.columns)
        PROVE  /\ P.columns[j].signal = T.columns[j].signal
               /\ P.columns[j].next = IF j = i THEN T.columns[j].next + 1 ELSE T.columns[j].next
               /\ P.columns[j].last = IF j = i THEN at ELSE RowAfter(T.columns[j].last, cut)
    <3>1. W.columns[j] = [signal |-> T.columns[j].signal, next |-> T.columns[j].next,
                          last |-> RowAfter(T.columns[j].last, at)]
      BY <2>2 DEF HasRow
    <3>2. P.columns[j] = IF j = i THEN [signal |-> W.columns[j].signal, next |-> W.columns[j].next + 1, last |-> at]
                         ELSE W.columns[j]
      BY <2>2, <2>4 DEF HasRow, IsMarked
    <3> QED BY <2>5, <3>1, <3>2
  <2>8. \A j \in Nat : HasCell(P, j, at) => j = i
    BY <2>2, <2>3, <2>4, NoCells DEF HasCell, HasRow, IsMarked
  <2>9. ASSUME NEW r \in 1 .. Len(T.rows)
        PROVE  LET q == RowAfter(r, cut)
               IN  /\ P.rows[q].t = T.rows[r].t
                   /\ \A j \in Nat : HasCell(P, j, q) <=> HasCell(T, j, r) \/ (j = i /\ q = at)
                   /\ \A j \in Nat : HasCell(T, j, r) /\ ~(j = i /\ q = at) => P.rows[q].cells[j] = T.rows[r].cells[j]
    <3> DEFINE q == RowAfter(r, cut)
    <3>1. q = RowAfter(r, at) /\ W.rows[q] = T.rows[r]
      BY <2>2, <2>5 DEF HasRow
    <3>2. q \in 1 .. Len(W.rows) /\ q # at
      <4>1. RowAfter(r, at) \in 1 .. Len(W.rows) /\ RowAfter(r, at) # at
        BY <1>1, <2>1, <2>2 DEF RowAfter, n, HasRow
      <4> QED BY <3>1, <4>1
    <3> HIDE DEF q
    <3>3. \A j \in Nat : HasCell(W, j, q) <=> HasCell(T, j, r)
      BY <3>1 DEF HasCell
    <3>4. /\ P.rows[q].t = W.rows[q].t
          /\ \A j \in Nat : HasCell(P, j, q) <=> HasCell(W, j, q) \/ (j = i /\ q = at)
          /\ \A j \in Nat : HasCell(W, j, q) /\ ~(j = i /\ q = at) => P.rows[q].cells[j] = W.rows[q].cells[j]
      BY <2>4, <3>2 DEF IsMarked
    <3>5. /\ P.rows[q].t = T.rows[r].t
          /\ \A j \in Nat : HasCell(P, j, q) <=> HasCell(T, j, r) \/ (j = i /\ q = at)
          /\ \A j \in Nat : HasCell(T, j, r) /\ ~(j = i /\ q = at) => P.rows[q].cells[j] = T.rows[r].cells[j]
      BY <3>1, <3>3, <3>4
    <3> QED BY <3>5 DEF q
  <2>10. HasPlaced(T, P, i, x, at, cut)
    BY <2>2, <2>4, <2>5, <2>6, <2>7, <2>8, <2>9 DEF HasPlaced, HasRow, IsMarked
  <2> QED BY <1>9, <2>10
<1> QED BY <1>10, <1>11

(* Column j has a cell in every row of the time t.                         *)
Every(T, j, t) == \A q \in 1 .. Len(T.rows) : T.rows[q].t = t => HasCell(T, j, q)

(* "last" is the last row with a cell of column j.                         *)
Ends(T, j) ==
  LET c == T.columns[j]
  IN  /\ c.last \in 0 .. Len(T.rows)
      /\ c.last > 0 => HasCell(T, j, c.last)
      /\ \A r \in 1 .. Len(T.rows) : HasCell(T, j, r) => r <= c.last

(* Of the rows of a time the column has cells in the first ones, and the   *)
(* samples it takes next are not older than its last row.                  *)
Column(T, j, of, limit) ==
  LET c == T.columns[j]
  IN  /\ \A q, r \in 1 .. Len(T.rows) :
           q < r /\ T.rows[q].t = T.rows[r].t /\ HasCell(T, j, r) => HasCell(T, j, q)
      /\ c.last > 0 => T.rows[c.last].t <= limit
      /\ c.last > 0 /\ c.next < Len(of) => T.rows[c.last].t <= of[c.next + 1].t

(* "at" is where the sample x of column i belongs: the rows before it are  *)
(* not newer, and of its time only where the column has a cell already.    *)
Around(T, i, x, at, cut) ==
  /\ at > T.columns[i].last
  /\ \A r \in 1 .. Len(T.rows) : r < at => T.rows[r].t <= x.t /\ (T.rows[r].t = x.t => HasCell(T, i, r))
  /\ \A r \in 1 .. Len(T.rows) : r >= at => x.t <= T.rows[r].t /\ (r >= cut => x.t < T.rows[r].t)

(* What the parts of a table are.                                          *)
LEMMA RowTimes ==
  ASSUME NEW T, IsTable(T)
  PROVE  /\ Len(T.rows) \in Nat /\ Len(T.columns) \in Nat
         /\ DOMAIN T.rows = 1 .. Len(T.rows) /\ DOMAIN T.columns = 1 .. Len(T.columns)
         /\ \A r \in 1 .. Len(T.rows) : T.rows[r].t \in Nat
         /\ \A j \in 1 .. Len(T.columns) : /\ T.columns[j].signal \in Signals
                                         /\ T.columns[j].next \in Nat /\ T.columns[j].last \in Nat
<1>1. T.rows \in Seq(Stamped) /\ T.columns \in Seq(Taker)
  BY DEF IsTable
<1>2. \A r \in 1 .. Len(T.rows) : T.rows[r] \in Stamped
  BY <1>1, ElementOfSeq
<1>3. \A j \in 1 .. Len(T.columns) : T.columns[j] \in Taker
  BY <1>1, ElementOfSeq
<1>4. \A r \in 1 .. Len(T.rows) : T.rows[r].t \in Nat
  BY <1>2 DEF Stamped
<1>5. \A j \in 1 .. Len(T.columns) : /\ T.columns[j].signal \in Signals
                                   /\ T.columns[j].next \in Nat /\ T.columns[j].last \in Nat
  BY <1>3 DEF Taker
<1> QED BY <1>1, <1>4, <1>5, LenProperties

(* Where the rows are: in their order, beside the row of the sample.       *)
LEMMA RowsMove ==
  ASSUME NEW T, NEW P, IsTable(T), NEW i \in 1 .. Len(T.columns), NEW x, NEW at, NEW cut,
         HasPlaced(T, P, i, x, at, cut)
  PROVE  /\ at \in Nat /\ at >= 1
         /\ \A r \in 0 .. Len(T.rows) : RowAfter(r, cut) \in Nat
         /\ \A r \in 1 .. Len(T.rows) : RowAfter(r, cut) \in 1 .. Len(P.rows)
         /\ \A q, r \in 0 .. Len(T.rows) : q < r <=> RowAfter(q, cut) < RowAfter(r, cut)
         /\ \A r \in 0 .. Len(T.rows) : r < at <=> RowAfter(r, cut) < at
         /\ \A q \in 1 .. Len(P.rows) :
              \/ \E r \in 1 .. Len(T.rows) : q = RowAfter(r, cut)
              \/ q = at /\ cut = at /\ \A j \in Nat : HasCell(P, j, at) => j = i
<1> DEFINE n == Len(T.rows)
           m == Len(P.rows)
<1>1. n \in Nat /\ m \in Nat /\ at \in 1 .. m
  BY RowTimes DEF HasPlaced
<1>2. CASE m = n /\ cut = n + 1
  <2>1. \A r \in 0 .. n : RowAfter(r, cut) = r
    BY <1>1, <1>2 DEF RowAfter
  <2>2. \A q \in 1 .. m : q \in 1 .. n /\ q = RowAfter(q, cut)
    BY <1>1, <1>2, <2>1
  <2> HIDE DEF n, m
  <2>3. \A r \in 1 .. n : r \in 0 .. n
    BY <1>1
  <2> QED BY <1>1, <1>2, <2>1, <2>2, <2>3 DEF n, m
<1>3. CASE m = n + 1 /\ cut = at /\ \A j \in Nat : HasCell(P, j, at) => j = i
  <2> HIDE DEF n, m
  <2>1. \A r \in 0 .. n : RowAfter(r, cut) = IF r >= at THEN r + 1 ELSE r
    BY <1>1, <1>3 DEF RowAfter
  <2>2. ASSUME NEW q \in 1 .. m, q # at
        PROVE  \E r \in 1 .. n : q = RowAfter(r, cut)
    <3>1. CASE q < at
      <4>1. q \in 1 .. n /\ q \in 0 .. n /\ q = RowAfter(q, cut)
        BY <1>1, <1>3, <2>1, <3>1
      <4> QED BY <4>1
    <3>2. CASE q > at
      <4>1. q - 1 \in 1 .. n /\ q - 1 \in 0 .. n /\ q = RowAfter(q - 1, cut)
        BY <1>1, <1>3, <2>1, <3>2
      <4> QED BY <4>1
    <3> QED BY <1>1, <2>2, <3>1, <3>2
  <2>3. \A r \in 1 .. n : r \in 0 .. n /\ RowAfter(r, cut) \in 1 .. m
    BY <1>1, <1>3, <2>1
  <2>4. \A q, r \in 0 .. n : q < r <=> RowAfter(q, cut) < RowAfter(r, cut)
    BY <1>1, <1>3, <2>1
  <2>5. \A r \in 0 .. n : RowAfter(r, cut) \in Nat /\ (r < at <=> RowAfter(r, cut) < at)
    BY <1>1, <1>3, <2>1
  <2> QED BY <1>1, <1>3, <2>2, <2>3, <2>4, <2>5 DEF n, m
<1> QED BY <1>2, <1>3 DEF HasPlaced

(* A row was in the table before, or it has a cell of column i alone.      *)
LEMMA RowOrigin ==
  ASSUME NEW T, NEW P, IsTable(T), NEW i \in 1 .. Len(T.columns), NEW x, NEW at, NEW cut,
         HasPlaced(T, P, i, x, at, cut), NEW q \in 1 .. Len(P.rows)
  PROVE  \/ \E r \in 1 .. Len(T.rows) : q = RowAfter(r, cut)
         \/ q = at /\ \A j \in Nat : HasCell(P, j, at) => j = i
BY RowsMove

(* A sample that is placed leaves the rows in order.                       *)
LEMMA SortedKept ==
  ASSUME NEW T, NEW P, IsTable(T), Sorted(T), NEW i \in 1 .. Len(T.columns), NEW x \in StoredSamples, NEW at, NEW cut,
         HasPlaced(T, P, i, x, at, cut), Around(T, i, x, at, cut)
  PROVE  Sorted(P)
<1>1. SUFFICES ASSUME NEW q \in 1 .. Len(P.rows), NEW r \in 1 .. Len(P.rows), q <= r
               PROVE  P.rows[q].t <= P.rows[r].t
  BY DEF Sorted
<1>2. x.t \in Nat /\ P.rows[at].t = x.t /\ IsTable(P)
  BY DEF StoredSamples, HasPlaced
<1>3. P.rows[q].t \in Nat /\ P.rows[r].t \in Nat /\ Len(P.rows) \in Nat /\ Len(T.rows) \in Nat
  BY <1>2, RowTimes
<1>4. \A o \in 1 .. Len(T.rows) : P.rows[RowAfter(o, cut)].t = T.rows[o].t /\ T.rows[o].t \in Nat
  BY RowTimes DEF HasPlaced
<1>5. at \in Nat /\ \A o \in 1 .. Len(T.rows) : o \in 0 .. Len(T.rows)
  BY <1>3, RowsMove
<1>6. CASE q = at /\ r = at
  BY <1>2, <1>6
<1>7. ASSUME q = at, NEW o \in 1 .. Len(T.rows), r = RowAfter(o, cut)
      PROVE  P.rows[q].t <= P.rows[r].t
  <2>1. o >= at
    BY <1>1, <1>5, <1>7, RowsMove
  <2> QED BY <1>2, <1>4, <1>7, <2>1 DEF Around
<1>8. ASSUME r = at, NEW o \in 1 .. Len(T.rows), q = RowAfter(o, cut)
      PROVE  P.rows[q].t <= P.rows[r].t
  <2>1. CASE o < at
    BY <1>2, <1>4, <1>8, <2>1 DEF Around
  <2>2. CASE ~(o < at)
    <3>1. q = at
      <4>1. ~(q < at)
        BY <1>5, <1>8, <2>2, RowsMove
      <4> QED BY <1>1, <1>3, <1>5, <1>8, <4>1
    <3> QED BY <1>2, <1>8, <3>1
  <2> QED BY <2>1, <2>2
<1>9. ASSUME NEW o \in 1 .. Len(T.rows), q = RowAfter(o, cut), NEW p \in 1 .. Len(T.rows), r = RowAfter(p, cut)
      PROVE  P.rows[q].t <= P.rows[r].t
  <2>1. ~(p < o)
    <3>1. p < o => r < q
      BY <1>5, <1>9, RowsMove
    <3> QED BY <1>1, <1>3, <3>1
  <2>2. T.rows[o].t <= T.rows[p].t
    BY <1>3, <2>1 DEF Sorted
  <2> QED BY <1>4, <1>9, <2>2
<1>10. /\ q = at \/ \E o \in 1 .. Len(T.rows) : q = RowAfter(o, cut)
       /\ r = at \/ \E o \in 1 .. Len(T.rows) : r = RowAfter(o, cut)
  BY RowsMove
<1> QED BY <1>6, <1>7, <1>8, <1>9, <1>10

(* It leaves a column with cells in all rows of a time.                    *)
LEMMA EveryKept ==
  ASSUME NEW T, NEW P, IsTable(T), NEW i \in 1 .. Len(T.columns), NEW x \in StoredSamples, NEW at, NEW cut,
         HasPlaced(T, P, i, x, at, cut), Around(T, i, x, at, cut),
         \A r \in 1 .. Len(T.rows) : \E j \in 1 .. Len(T.columns) : Every(T, j, T.rows[r].t),
         NEW r \in 1 .. Len(P.rows)
  PROVE  \E j \in 1 .. Len(P.columns) : Every(P, j, P.rows[r].t)
<1>1. /\ Len(P.columns) = Len(T.columns) /\ P.rows[at].t = x.t /\ HasCell(P, i, at)
      /\ at \in 1 .. Len(P.rows) /\ x.t \in Nat
  BY DEF HasPlaced, StoredSamples
<1>2. ASSUME NEW o \in 1 .. Len(T.rows)
      PROVE  /\ P.rows[RowAfter(o, cut)].t = T.rows[o].t
             /\ \A j \in Nat : HasCell(T, j, o) => HasCell(P, j, RowAfter(o, cut))
  BY DEF HasPlaced
<1>3. Len(T.rows) \in Nat /\ Len(T.columns) \in Nat /\ \A o \in 1 .. Len(T.rows) : o \in 0 .. Len(T.rows) /\ T.rows[o].t \in Nat
  BY RowTimes
<1>4. at \in Nat
  BY RowsMove
<1>5. ASSUME NEW o \in 1 .. Len(T.rows), r = RowAfter(o, cut), P.rows[r].t # x.t \/ cut # at
      PROVE  \E j \in 1 .. Len(P.columns) : Every(P, j, P.rows[r].t)
  <2>1. PICK j \in 1 .. Len(T.columns) : Every(T, j, T.rows[o].t)
    OBVIOUS
  <2>2. ASSUME NEW q \in 1 .. Len(P.rows), P.rows[q].t = P.rows[r].t
        PROVE  HasCell(P, j, q)
    <3>1. PICK p \in 1 .. Len(T.rows) : q = RowAfter(p, cut)
      <4>1. ~(q = at /\ cut = at)
        BY <1>1, <1>5, <2>2
      <4> QED BY <4>1, RowsMove
    <3>2. T.rows[p].t = T.rows[o].t
      BY <1>2, <1>5, <2>2, <3>1
    <3>3. HasCell(T, j, p) /\ j \in Nat
      BY <1>3, <2>1, <3>2 DEF Every
    <3> QED BY <1>2, <3>1, <3>3
  <2>3. Every(P, j, P.rows[r].t)
    BY <2>2 DEF Every
  <2> QED BY <1>1, <2>3
<1>6. ASSUME P.rows[r].t = x.t, cut = at
      PROVE  Every(P, i, P.rows[r].t)
  <2>1. SUFFICES ASSUME NEW q \in 1 .. Len(P.rows), P.rows[q].t = x.t, q # at
                 PROVE  HasCell(P, i, q)
    BY <1>1, <1>6 DEF Every
  <2>2. PICK p \in 1 .. Len(T.rows) : q = RowAfter(p, cut)
    BY <2>1, RowsMove
  <2>3. T.rows[p].t = x.t
    BY <1>2, <2>1, <2>2
  <2>4. p < at
    <3>1. ASSUME p >= at
          PROVE  FALSE
      <4>1. x.t < T.rows[p].t
        BY <1>6, <3>1 DEF Around
      <4> QED BY <1>1, <2>3, <4>1
    <3> QED BY <1>3, <1>4, <3>1
  <2>5. HasCell(T, i, p) /\ i \in Nat
    BY <1>3, <2>3, <2>4 DEF Around
  <2> QED BY <1>2, <2>2, <2>5
<1>7. (\E o \in 1 .. Len(T.rows) : r = RowAfter(o, cut)) \/ (r = at /\ cut = at)
  BY RowsMove
<1> QED BY <1>1, <1>5, <1>6, <1>7

(* Of the column that takes the sample it is the last one.                 *)
LEMMA OwnEnds ==
  ASSUME NEW T, NEW P, IsTable(T), NEW i \in 1 .. Len(T.columns), NEW x \in StoredSamples, NEW at, NEW cut,
         HasPlaced(T, P, i, x, at, cut), Ends(T, i), at > T.columns[i].last
  PROVE  Ends(P, i)
<1> DEFINE c == P.columns[i]
<1>1. /\ at \in 1 .. Len(P.rows) /\ P.rows[at].t = x.t /\ HasCell(P, i, at)
      /\ c.last = at /\ x.t \in Nat
  BY DEF HasPlaced, StoredSamples
<1> HIDE DEF c
<1>2. ASSUME NEW o \in 1 .. Len(T.rows)
      PROVE  /\ P.rows[RowAfter(o, cut)].t = T.rows[o].t
             /\ HasCell(P, i, RowAfter(o, cut)) <=> HasCell(T, i, o) \/ RowAfter(o, cut) = at
  <2>1. i \in Nat
    OBVIOUS
  <2> QED BY <2>1 DEF HasPlaced
<1>3. Len(T.rows) \in Nat /\ Len(P.rows) \in Nat /\ \A o \in 1 .. Len(T.rows) : o \in 0 .. Len(T.rows) /\ T.rows[o].t \in Nat
  <2>1. IsTable(P)
    BY DEF HasPlaced
  <2> QED BY <2>1, RowTimes
<1>4. at \in Nat /\ at >= 1
  BY RowsMove
<1>5. ASSUME NEW o \in 1 .. Len(T.rows), HasCell(T, i, o)
      PROVE  o < at /\ RowAfter(o, cut) < at
  <2>1. o <= T.columns[i].last /\ T.columns[i].last \in Nat /\ at > T.columns[i].last
    BY <1>5, RowTimes DEF Ends
  <2>2. o < at
    BY <1>4, <2>1
  <2> QED BY <1>3, <2>2, RowsMove
<1>6. ASSUME NEW r \in 1 .. Len(P.rows), HasCell(P, i, r)
      PROVE  r = at \/ \E o \in 1 .. Len(T.rows) : r = RowAfter(o, cut) /\ HasCell(T, i, o) /\ r < at /\ o < at
  <2>1. CASE r # at
    <3>1. PICK o \in 1 .. Len(T.rows) : r = RowAfter(o, cut)
      BY <2>1, RowsMove
    <3>2. HasCell(T, i, o)
      BY <1>2, <1>6, <2>1, <3>1
    <3> QED BY <1>5, <3>1, <3>2
  <2> QED BY <2>1
<1>7. ASSUME NEW r \in 1 .. Len(P.rows), HasCell(P, i, r)
      PROVE  r <= at
  BY <1>3, <1>4, <1>6, <1>7
<1> QED
  BY <1>1, <1>3, <1>7 DEF Ends, c

(* The column that takes the sample.                                       *)
LEMMA OwnColumn ==
  ASSUME NEW T, NEW P, IsTable(T), NEW i \in 1 .. Len(T.columns), NEW of, NEW k \in Nat,
         k = T.columns[i].next + 1, of[k] \in StoredSamples, Len(of) \in Nat,
         NEW at, NEW cut, HasPlaced(T, P, i, of[k], at, cut), Ends(T, i), at > T.columns[i].last
  PROVE  /\ Ends(P, i)
         /\ \A limit :
              /\ Around(T, i, of[k], at, cut) /\ Column(T, i, of, limit) /\ of[k].t <= limit
              /\ k + 1 <= Len(of) => of[k].t <= of[k + 1].t
              => Column(P, i, of, limit)
<1> DEFINE x == of[k]
           c == P.columns[i]
<1>1. /\ at \in 1 .. Len(P.rows) /\ P.rows[at].t = x.t /\ HasCell(P, i, at)
      /\ c.last = at /\ c.next = k /\ x.t \in Nat
  BY DEF HasPlaced, StoredSamples
<1> HIDE DEF x, c
<1>2. ASSUME NEW o \in 1 .. Len(T.rows)
      PROVE  /\ P.rows[RowAfter(o, cut)].t = T.rows[o].t
             /\ HasCell(P, i, RowAfter(o, cut)) <=> HasCell(T, i, o) \/ RowAfter(o, cut) = at
  <2>1. i \in Nat
    OBVIOUS
  <2> QED BY <2>1 DEF HasPlaced
<1>3. Len(T.rows) \in Nat /\ Len(P.rows) \in Nat /\ \A o \in 1 .. Len(T.rows) : o \in 0 .. Len(T.rows) /\ T.rows[o].t \in Nat
  <2>1. IsTable(P)
    BY DEF HasPlaced
  <2> QED BY <2>1, RowTimes
<1>4. at \in Nat /\ at >= 1
  BY RowsMove
<1>5. ASSUME NEW o \in 1 .. Len(T.rows), HasCell(T, i, o)
      PROVE  o < at /\ RowAfter(o, cut) < at
  <2>1. o <= T.columns[i].last /\ T.columns[i].last \in Nat /\ at > T.columns[i].last
    BY <1>5, RowTimes DEF Ends
  <2>2. o < at
    BY <1>4, <2>1
  <2> QED BY <1>3, <2>2, RowsMove
<1>6. ASSUME NEW r \in 1 .. Len(P.rows), HasCell(P, i, r)
      PROVE  r = at \/ \E o \in 1 .. Len(T.rows) : r = RowAfter(o, cut) /\ HasCell(T, i, o) /\ r < at /\ o < at
  <2>1. CASE r # at
    <3>1. PICK o \in 1 .. Len(T.rows) : r = RowAfter(o, cut)
      BY <2>1, RowsMove
    <3>2. HasCell(T, i, o)
      BY <1>2, <1>6, <2>1, <3>1
    <3> QED BY <1>5, <3>1, <3>2
  <2> QED BY <2>1
<1>7. Ends(P, i) /\ \A r \in 1 .. Len(P.rows) : HasCell(P, i, r) => r <= at
  <2>1. PICK y \in StoredSamples : y = x
    BY DEF x
  <2>2. HasPlaced(T, P, i, y, at, cut)
    BY <2>1 DEF x
  <2>3. Ends(P, i)
    BY ONLY <2>2, IsTable(T), i \in 1 .. Len(T.columns), y \in StoredSamples, Ends(T, i), at > T.columns[i].last, OwnEnds
  <2> QED BY <1>1, <2>3 DEF Ends, c
<1>8. ASSUME NEW limit, Around(T, i, x, at, cut), Column(T, i, of, limit),
             NEW q \in 1 .. Len(P.rows), NEW r \in 1 .. Len(P.rows),
             q < r, P.rows[q].t = P.rows[r].t, HasCell(P, i, r)
      PROVE  HasCell(P, i, q)
  <2>1. r <= at /\ q < at
    BY <1>3, <1>4, <1>7, <1>8
  <2>2. PICK p \in 1 .. Len(T.rows) : q = RowAfter(p, cut)
    <3>1. q # at
      BY <1>3, <1>4, <2>1
    <3> QED BY <3>1, RowsMove
  <2>3. p < at
    BY <1>3, <2>1, <2>2, RowsMove
  <2>4. CASE r = at
    <3>1. T.rows[p].t = x.t
      BY <1>1, <1>2, <1>8, <2>2, <2>4
    <3>2. HasCell(T, i, p)
      BY <1>8, <2>3, <3>1 DEF Around
    <3> QED BY <1>2, <2>2, <3>2
  <2>5. CASE r # at
    <3>1. PICK o \in 1 .. Len(T.rows) : r = RowAfter(o, cut) /\ HasCell(T, i, o)
      BY <1>6, <1>8, <2>5
    <3>2. p < o
      <4>1. RowAfter(p, cut) < RowAfter(o, cut)
        BY <1>8, <2>2, <3>1
      <4> QED BY <1>3, <4>1, RowsMove
    <3>3. T.rows[p].t = T.rows[o].t
      BY <1>2, <1>8, <2>2, <3>1
    <3>4. HasCell(T, i, p)
      BY <1>8, <3>1, <3>2, <3>3 DEF Column
    <3> QED BY <1>2, <2>2, <3>4
  <2> QED BY <2>4, <2>5
<1>10. ASSUME NEW limit, Around(T, i, x, at, cut), Column(T, i, of, limit), x.t <= limit,
              k + 1 <= Len(of) => x.t <= of[k + 1].t
       PROVE  Column(P, i, of, limit)
  <2>1. k < Len(of) => P.rows[at].t <= of[k + 1].t
    BY <1>1, <1>10
  <2>2. \A q, r \in 1 .. Len(P.rows) :
          q < r /\ P.rows[q].t = P.rows[r].t /\ HasCell(P, i, r) => HasCell(P, i, q)
    BY <1>8, <1>10
  <2> QED BY <1>1, <1>10, <2>1, <2>2 DEF Column, c
<1> QED
  BY <1>7, <1>10 DEF x

(* The other columns only move.                                            *)
LEMMA OtherColumn ==
  ASSUME NEW T, NEW P, IsTable(T), NEW i \in 1 .. Len(T.columns), NEW x \in StoredSamples, NEW at, NEW cut,
         HasPlaced(T, P, i, x, at, cut),
         NEW j \in 1 .. Len(T.columns), j # i, NEW of, NEW limit, Ends(T, j)
  PROVE  /\ Ends(P, j)
         /\ Around(T, i, x, at, cut) /\ Column(T, j, of, limit) => Column(P, j, of, limit)
<1> DEFINE c == P.columns[j]
           b == T.columns[j]
<1>1. /\ c.last = RowAfter(b.last, cut) /\ c.next = b.next /\ P.rows[at].t = x.t /\ x.t \in Nat
      /\ b.last \in 0 .. Len(T.rows)
  BY DEF HasPlaced, StoredSamples, Ends
<1> HIDE DEF c, b
<1>2. ASSUME NEW o \in 1 .. Len(T.rows)
      PROVE  /\ P.rows[RowAfter(o, cut)].t = T.rows[o].t
             /\ HasCell(P, j, RowAfter(o, cut)) <=> HasCell(T, j, o)
  <2>1. j \in Nat
    OBVIOUS
  <2> QED BY <2>1 DEF HasPlaced
<1>3. Len(T.rows) \in Nat /\ Len(P.rows) \in Nat /\ \A o \in 1 .. Len(T.rows) : o \in 0 .. Len(T.rows) /\ T.rows[o].t \in Nat
  <2>1. IsTable(P)
    BY DEF HasPlaced
  <2> QED BY <2>1, RowTimes
<1>4. at \in Nat /\ at >= 1
  BY RowsMove
<1>5. /\ c.last \in 0 .. Len(P.rows) /\ (c.last > 0 => b.last > 0)
      /\ b.last > 0 => b.last \in 1 .. Len(T.rows) /\ P.rows[c.last].t = T.rows[b.last].t
                       /\ (HasCell(P, j, c.last) <=> HasCell(T, j, b.last))
  <2>1. CASE b.last = 0
    <3>1. 0 < at /\ 0 \in 0 .. Len(T.rows)
      BY <1>3, <1>4
    <3>2. RowAfter(0, cut) = 0
      BY <1>3, <1>4, <3>1 DEF HasPlaced, RowAfter
    <3> QED BY <1>1, <1>3, <2>1, <3>2
  <2>2. CASE b.last # 0
    <3>1. b.last \in 1 .. Len(T.rows) /\ b.last > 0
      BY <1>1, <1>3, <2>2
    <3>2. RowAfter(b.last, cut) \in 1 .. Len(P.rows)
      BY <3>1, RowsMove
    <3> QED BY <1>1, <1>2, <1>3, <3>1, <3>2
  <2> QED BY <2>1, <2>2
<1>6. ASSUME NEW r \in 1 .. Len(P.rows), HasCell(P, j, r)
      PROVE  \E o \in 1 .. Len(T.rows) : r = RowAfter(o, cut) /\ HasCell(T, j, o)
  <2>1. PICK o \in 1 .. Len(T.rows) : r = RowAfter(o, cut)
    <3>1. j \in Nat
      OBVIOUS
    <3> QED BY <1>6, <3>1, RowsMove
  <2> QED BY <1>2, <1>6, <2>1
<1>7. ASSUME NEW r \in 1 .. Len(P.rows), HasCell(P, j, r)
      PROVE  r <= c.last
  <2>1. PICK o \in 1 .. Len(T.rows) : r = RowAfter(o, cut) /\ HasCell(T, j, o)
    BY <1>6, <1>7
  <2>2. o <= b.last
    BY <2>1 DEF Ends, b
  <2>3. ~(b.last < o)
    BY <1>1, <1>3, <2>2
  <2>4. ~(RowAfter(b.last, cut) < RowAfter(o, cut))
    BY <1>1, <1>3, <2>3, RowsMove
  <2> QED BY <1>1, <1>3, <1>5, <2>1, <2>4
<1>8. ASSUME Around(T, i, x, at, cut), Column(T, j, of, limit),
             NEW q \in 1 .. Len(P.rows), NEW r \in 1 .. Len(P.rows),
             q < r, P.rows[q].t = P.rows[r].t, HasCell(P, j, r)
      PROVE  HasCell(P, j, q)
  <2>1. PICK o \in 1 .. Len(T.rows) : r = RowAfter(o, cut) /\ HasCell(T, j, o)
    BY <1>6, <1>8
  <2>2. PICK p \in 1 .. Len(T.rows) : q = RowAfter(p, cut)
    <3>1. ASSUME q = at, cut = at
          PROVE  FALSE
      <4>1. T.rows[o].t = x.t /\ at < RowAfter(o, cut)
        BY <1>1, <1>2, <1>8, <2>1, <3>1
      <4>2. ~(o < at)
        BY <1>3, <1>4, <4>1, RowsMove
      <4>3. x.t < T.rows[o].t
        BY <1>3, <1>4, <1>8, <3>1, <4>2 DEF Around
      <4> QED BY <1>1, <4>1, <4>3
    <3> QED BY <3>1, RowsMove
  <2>3. p < o
    <3>1. RowAfter(p, cut) < RowAfter(o, cut)
      BY <1>8, <2>1, <2>2
    <3> QED BY <1>3, <3>1, RowsMove
  <2>4. T.rows[p].t = T.rows[o].t
    BY <1>2, <1>8, <2>1, <2>2
  <2>5. HasCell(T, j, p)
    BY <1>8, <2>1, <2>3, <2>4 DEF Column
  <2> QED BY <1>2, <2>2, <2>5
<1>9. c.last > 0 => HasCell(P, j, c.last)
  BY <1>5 DEF Ends, b
<1>10. Ends(P, j)
  BY <1>5, <1>7, <1>9 DEF Ends, c
<1>11. ASSUME Around(T, i, x, at, cut), Column(T, j, of, limit)
       PROVE  Column(P, j, of, limit)
  <2>1. /\ b.last > 0 => T.rows[b.last].t <= limit
        /\ b.last > 0 /\ b.next < Len(of) => T.rows[b.last].t <= of[b.next + 1].t
    BY <1>11 DEF Column, b
  <2>2. /\ c.last > 0 => P.rows[c.last].t <= limit
        /\ c.last > 0 /\ c.next < Len(of) => P.rows[c.last].t <= of[c.next + 1].t
    BY <1>1, <1>5, <2>1
  <2>3. \A q, r \in 1 .. Len(P.rows) :
          q < r /\ P.rows[q].t = P.rows[r].t /\ HasCell(P, j, r) => HasCell(P, j, q)
    BY <1>8, <1>11
  <2> QED BY <2>2, <2>3 DEF Column, c
<1> QED
  BY <1>10, <1>11

-----------------------------------------------------------------------------
(* The cells of the columns                                                *)
(* The column has one sample more, in its order.                           *)
LEMMA OwnTaken ==
  ASSUME NEW T, NEW P, IsTable(T), NEW i \in 1 .. Len(T.columns), NEW of, NEW n \in Nat,
         NEW x \in StoredSamples, of[n + 1] = x,
         NEW at, NEW cut, HasPlaced(T, P, i, x, at, cut), at > T.columns[i].last,
         Ends(T, i), HasTaken(T, i, of, n)
  PROVE  HasTaken(P, i, of, n + 1)
<1>1. /\ Len(T.rows) \in Nat /\ DOMAIN T.rows = 1 .. Len(T.rows)
      /\ \A o \in 1 .. Len(T.rows) : o \in 0 .. Len(T.rows)
      /\ DOMAIN P.rows = 1 .. Len(P.rows) /\ Len(P.rows) \in Nat /\ i \in Nat
  <2>1. IsTable(P)
    BY DEF HasPlaced
  <2> QED BY <2>1, RowTimes
<1>11. ASSUME NEW q \in 0 .. Len(T.rows), NEW r \in 0 .. Len(T.rows), q < r
       PROVE  RowAfter(q, cut) < RowAfter(r, cut)
  BY ONLY <1>11, IsTable(T), i \in 1 .. Len(T.columns), HasPlaced(T, P, i, x, at, cut), RowsMove
<1>2. PICK f \in [1 .. n -> 1 .. Len(T.rows)] :
        /\ \A k \in 2 .. n : f[k - 1] < f[k]
        /\ \A k \in 1 .. n : /\ HasCell(T, i, f[k])
                           /\ of[k].t = T.rows[f[k]].t /\ of[k].v = T.rows[f[k]].cells[i]
        /\ \A r \in 1 .. Len(T.rows) : HasCell(T, i, r) => \E k \in 1 .. n : f[k] = r
  BY <1>1 DEF HasTaken
<1> DEFINE g == [k \in 1 .. n + 1 |-> IF k = n + 1 THEN at ELSE RowAfter(f[k], cut)]
<1>3. at \in 1 .. Len(P.rows) /\ at \in Nat
  BY RowsMove DEF HasPlaced
<1>4. ASSUME NEW o \in 1 .. Len(T.rows), HasCell(T, i, o)
      PROVE  /\ RowAfter(o, cut) < at /\ RowAfter(o, cut) \in 1 .. Len(P.rows) /\ HasCell(P, i, RowAfter(o, cut))
             /\ P.rows[RowAfter(o, cut)].t = T.rows[o].t
             /\ P.rows[RowAfter(o, cut)].cells[i] = T.rows[o].cells[i]
  <2>1. o <= T.columns[i].last /\ T.columns[i].last \in Nat /\ at > T.columns[i].last
    BY <1>4, RowTimes DEF Ends
  <2>2. o < at
    BY <1>3, <2>1
  <2>3. RowAfter(o, cut) < at /\ RowAfter(o, cut) \in 1 .. Len(P.rows)
    BY <1>1, <2>2, RowsMove
  <2>4. RowAfter(o, cut) # at
    BY <1>3, <2>3
  <2> QED BY <1>1, <1>4, <2>3, <2>4 DEF HasPlaced
<1>5. ASSUME NEW k \in 1 .. n
      PROVE  /\ k \in 1 .. n + 1 /\ g[k] = RowAfter(f[k], cut) /\ g[k] < at /\ g[k] \in 1 .. Len(P.rows)
             /\ HasCell(P, i, g[k]) /\ of[k].t = P.rows[g[k]].t /\ of[k].v = P.rows[g[k]].cells[i]
  <2>1. k \in 1 .. n + 1 /\ k # n + 1
    OBVIOUS
  <2>2. g[k] = RowAfter(f[k], cut)
    BY <2>1
  <2>3. /\ f[k] \in 1 .. Len(T.rows) /\ HasCell(T, i, f[k])
        /\ of[k].t = T.rows[f[k]].t /\ of[k].v = T.rows[f[k]].cells[i]
    BY <1>2
  <2>4. PICK o \in 1 .. Len(T.rows) : o = f[k]
    BY <2>3
  <2> HIDE DEF g
  <2>5. /\ RowAfter(o, cut) < at /\ RowAfter(o, cut) \in 1 .. Len(P.rows) /\ HasCell(P, i, RowAfter(o, cut))
        /\ P.rows[RowAfter(o, cut)].t = T.rows[o].t
        /\ P.rows[RowAfter(o, cut)].cells[i] = T.rows[o].cells[i]
    BY <1>4, <2>3, <2>4
  <2> QED BY ONLY <2>1, <2>2, <2>3, <2>4, <2>5
<1>6. g[n + 1] = at /\ n + 1 \in 1 .. n + 1
  OBVIOUS
<1>7. g \in [1 .. n + 1 -> 1 .. Len(P.rows)]
  <2>1. ASSUME NEW k \in 1 .. n + 1
        PROVE  g[k] \in 1 .. Len(P.rows)
    <3>1. k \in 1 .. n \/ k = n + 1
      OBVIOUS
    <3> HIDE DEF g
    <3> QED BY <1>3, <1>5, <1>6, <3>1
  <2> HIDE DEF HasPlaced
  <2> QED BY <2>1
<1> HIDE DEF g
<1>8. ASSUME NEW k \in 2 .. n + 1
      PROVE  g[k - 1] < g[k]
  <2>1. CASE k = n + 1
    <3>1. k - 1 \in 1 .. n
      BY <2>1
    <3> QED BY <1>5, <1>6, <2>1, <3>1
  <2>2. CASE k # n + 1
    <3>1. k \in 2 .. n /\ k \in 1 .. n /\ k - 1 \in 1 .. n
      BY <2>2
    <3>2. f[k - 1] < f[k] /\ f[k] \in 0 .. Len(T.rows) /\ f[k - 1] \in 0 .. Len(T.rows)
      BY <1>1, <1>2, <3>1
    <3>3. RowAfter(f[k - 1], cut) < RowAfter(f[k], cut)
      BY ONLY <1>11, <3>2
    <3> QED BY <1>5, <3>1, <3>3
  <2> QED BY <2>1, <2>2
<1>9. ASSUME NEW k \in 1 .. n + 1
      PROVE  /\ HasCell(P, i, g[k])
             /\ of[k].t = P.rows[g[k]].t /\ of[k].v = P.rows[g[k]].cells[i]
  <2>1. CASE k = n + 1
    BY <1>6, <2>1 DEF HasPlaced
  <2>2. CASE k # n + 1
    <3>1. k \in 1 .. n
      BY <2>2
    <3> QED BY <1>5, <3>1
  <2> QED BY <2>1, <2>2
<1>10. ASSUME NEW r \in 1 .. Len(P.rows), HasCell(P, i, r)
       PROVE  \E k \in 1 .. n + 1 : g[k] = r
  <2>1. CASE r = at
    BY <1>6, <2>1
  <2>2. CASE r # at
    <3>1. PICK o \in 1 .. Len(T.rows) : r = RowAfter(o, cut)
      BY <2>2, RowsMove
    <3>2. HasCell(T, i, o)
      BY <1>1, <1>10, <2>2, <3>1 DEF HasPlaced
    <3>3. PICK k \in 1 .. n : f[k] = o
      BY <1>2, <3>2
    <3> QED BY <1>5, <3>1, <3>3
  <2> QED BY <2>1, <2>2
<1> QED
  <2>1. g \in [1 .. n + 1 -> DOMAIN P.rows]
    BY <1>1, <1>7
  <2>2. ASSUME NEW r \in DOMAIN P.rows, HasCell(P, i, r)
        PROVE  \E k \in 1 .. n + 1 : g[k] = r
    <3>1. r \in 1 .. Len(P.rows)
      BY <1>1
    <3> QED BY <1>10, <2>2, <3>1
  <2> QED BY <1>8, <1>9, <2>1, <2>2, Zenon DEF HasTaken

(* The others have the samples they had.                                   *)
LEMMA OtherTaken ==
  ASSUME NEW T, NEW P, IsTable(T), NEW i \in 1 .. Len(T.columns), NEW x \in StoredSamples, NEW at, NEW cut,
         HasPlaced(T, P, i, x, at, cut),
         NEW j \in 1 .. Len(T.columns), j # i, NEW of, NEW n \in Nat, HasTaken(T, j, of, n)
  PROVE  HasTaken(P, j, of, n)
<1>1. /\ Len(T.rows) \in Nat /\ DOMAIN T.rows = 1 .. Len(T.rows)
      /\ \A o \in 1 .. Len(T.rows) : o \in 0 .. Len(T.rows)
      /\ DOMAIN P.rows = 1 .. Len(P.rows) /\ Len(P.rows) \in Nat /\ j \in Nat
  <2>1. IsTable(P)
    BY DEF HasPlaced
  <2> QED BY <2>1, RowTimes
<1>10. ASSUME NEW q \in 1 .. Len(P.rows), HasCell(P, j, q)
       PROVE  \E r \in 1 .. Len(T.rows) : q = RowAfter(r, cut)
  <2>1. \/ \E r \in 1 .. Len(T.rows) : q = RowAfter(r, cut)
        \/ q = at /\ \A m \in Nat : HasCell(P, m, at) => m = i
    BY RowOrigin
  <2> QED BY <1>1, <1>10, <2>1
<1>2. PICK f \in [1 .. n -> 1 .. Len(T.rows)] :
        /\ \A k \in 2 .. n : f[k - 1] < f[k]
        /\ \A k \in 1 .. n : /\ HasCell(T, j, f[k])
                           /\ of[k].t = T.rows[f[k]].t /\ of[k].v = T.rows[f[k]].cells[j]
        /\ \A r \in 1 .. Len(T.rows) : HasCell(T, j, r) => \E k \in 1 .. n : f[k] = r
  BY <1>1 DEF HasTaken
<1> DEFINE g == [k \in 1 .. n |-> RowAfter(f[k], cut)]
<1>9. /\ \A q, r \in 0 .. Len(T.rows) : q < r => RowAfter(q, cut) < RowAfter(r, cut)
      /\ \A o \in 1 .. Len(T.rows) : RowAfter(o, cut) \in 1 .. Len(P.rows)
  BY RowsMove
<1>11. at \in 1 .. Len(P.rows)
  BY DEF HasPlaced
<1>3. ASSUME NEW o \in 1 .. Len(T.rows)
      PROVE  /\ RowAfter(o, cut) \in 1 .. Len(P.rows)
             /\ HasCell(P, j, RowAfter(o, cut)) <=> HasCell(T, j, o)
             /\ P.rows[RowAfter(o, cut)].t = T.rows[o].t
             /\ HasCell(T, j, o) => P.rows[RowAfter(o, cut)].cells[j] = T.rows[o].cells[j]
  BY <1>1, <1>9 DEF HasPlaced
<1>4. ASSUME NEW k \in 1 .. n
      PROVE  g[k] = RowAfter(f[k], cut) /\ f[k] \in 1 .. Len(T.rows) /\ g[k] \in 1 .. Len(P.rows)
  BY <1>2, <1>3
<1>5. g \in [1 .. n -> 1 .. Len(P.rows)]
  BY <1>4
<1> HIDE DEF g
<1>6. ASSUME NEW k \in 2 .. n
      PROVE  g[k - 1] < g[k]
  <2>1. k \in 1 .. n /\ k - 1 \in 1 .. n
    OBVIOUS
  <2>2. f[k - 1] < f[k] /\ f[k] \in 0 .. Len(T.rows) /\ f[k - 1] \in 0 .. Len(T.rows)
    BY <1>1, <1>2, <2>1
  <2>3. RowAfter(f[k - 1], cut) < RowAfter(f[k], cut)
    BY ONLY <1>9, <2>2
  <2> QED BY <1>4, <2>1, <2>3
<1>7. ASSUME NEW k \in 1 .. n
      PROVE  /\ HasCell(P, j, g[k])
             /\ of[k].t = P.rows[g[k]].t /\ of[k].v = P.rows[g[k]].cells[j]
  <2>1. PICK o \in 1 .. Len(T.rows) : o = f[k]
    BY <1>4
  <2>2. HasCell(T, j, o) /\ of[k].t = T.rows[o].t /\ of[k].v = T.rows[o].cells[j]
    BY <1>2, <2>1
  <2>3. g[k] = RowAfter(o, cut)
    BY <1>4, <2>1
  <2>4. /\ HasCell(P, j, RowAfter(o, cut))
        /\ P.rows[RowAfter(o, cut)].t = T.rows[o].t
        /\ P.rows[RowAfter(o, cut)].cells[j] = T.rows[o].cells[j]
    BY <1>3, <2>2
  <2> QED BY ONLY <2>2, <2>3, <2>4
<1>8. ASSUME NEW r \in 1 .. Len(P.rows), HasCell(P, j, r)
      PROVE  \E k \in 1 .. n : g[k] = r
  <2>1. PICK o \in 1 .. Len(T.rows) : r = RowAfter(o, cut)
    BY <1>8, <1>10
  <2>2. HasCell(T, j, o)
    BY <1>3, <1>8, <2>1
  <2>3. PICK k \in 1 .. n : f[k] = o
    BY <1>2, <2>2
  <2> QED BY <1>4, <2>1, <2>3
<1> QED
  <2>1. g \in [1 .. n -> DOMAIN P.rows]
    BY <1>1, <1>5
  <2>2. ASSUME NEW r \in DOMAIN P.rows, HasCell(P, j, r)
        PROVE  \E k \in 1 .. n : g[k] = r
    <3>1. r \in 1 .. Len(P.rows)
      BY <1>1
    <3> QED BY <1>8, <2>2, <3>1
  <2> QED BY <1>6, <1>7, <2>1, <2>2, Zenon DEF HasTaken

(* The rows are in order, and some column has a cell in each of a time.    *)
Straight(T, feed, reached) ==
  /\ Sorted(T)
  /\ \A r \in 1 .. Len(T.rows) : \E j \in 1 .. Len(T.columns) : Every(T, j, T.rows[r].t)
  /\ \A j \in 1 .. Len(T.columns) :
       Column(T, j, feed[T.columns[j].signal], reached[T.columns[j].signal])

(* The time stamps of no column are "back".                                *)
InTimeAll(T, back) == \A j \in 1 .. Len(T.columns) : T.columns[j].signal \notin back

(* The table is the merge of what its columns have taken from the signals  *)
(* in "feed", in order of time unless one is "back"; nothing is said of    *)
(* the cells of signals that are "gone".                                   *)
Merged(T, feed, gone, back, reached) ==
  /\ IsTable(T)
  /\ \A r \in 1 .. Len(T.rows) : \A j \in Nat : HasCell(T, j, r) => j <= Len(T.columns)
  /\ \A j \in 1 .. Len(T.columns) :
       LET c == T.columns[j]
           of == feed[c.signal]
       IN  Ends(T, j) /\ (c.signal \notin gone => c.next <= Len(of) /\ HasTaken(T, j, of, c.next))
  /\ InTimeAll(T, back) => Straight(T, feed, reached)

(* The samples of a signal are in order of time, unless it is "back".      *)
Feed(feed, back, reached) ==
  \A s \in Signals :
    /\ Len(feed[s]) \in Nat
    /\ \A k \in 1 .. Len(feed[s]) : feed[s][k] \in StoredSamples
    /\ s \notin back =>
         /\ \A k \in 1 .. Len(feed[s]) : feed[s][k].t <= reached[s]
         /\ \A k \in 2 .. Len(feed[s]) : feed[s][k - 1].t <= feed[s][k].t

(* P has the columns of T, of which column i has "more" samples.           *)
Takes(T, P, i, more) ==
  /\ Len(P.columns) = Len(T.columns)
  /\ \A j \in 1 .. Len(T.columns) :
       /\ P.columns[j].signal = T.columns[j].signal
       /\ P.columns[j].next = IF j = i THEN more ELSE T.columns[j].next

(* Where a sample is placed is where it belongs.                            *)
LEMMA AroundIs ==
  ASSUME NEW T, IsTable(T), Sorted(T), NEW i \in 1 .. Len(T.columns), NEW of, NEW limit, NEW k \in Nat,
         Ends(T, i), Column(T, i, of, limit), k = T.columns[i].next + 1, k <= Len(of), Len(of) \in Nat,
         NEW x \in StoredSamples, of[k] = x, NEW at \in Nat, NEW cut,
         at > T.columns[i].last,
         \A r \in 1 .. Len(T.rows) : r > T.columns[i].last /\ r < at => T.rows[r].t < x.t,
         \A r \in 1 .. Len(T.rows) : r >= at => x.t <= T.rows[r].t /\ (r >= cut => x.t < T.rows[r].t)
  PROVE  Around(T, i, x, at, cut)
<1> DEFINE l == T.columns[i].last
<1>1. /\ l \in 0 .. Len(T.rows) /\ Len(T.rows) \in Nat /\ x.t \in Nat
      /\ \A r \in 1 .. Len(T.rows) : T.rows[r].t \in Nat
      /\ T.columns[i].next \in Nat
  BY RowTimes DEF Ends, StoredSamples
<1>2. l > 0 => l \in 1 .. Len(T.rows) /\ T.rows[l].t <= x.t /\ HasCell(T, i, l)
  <2>1. T.columns[i].next < Len(of)
    BY <1>1
  <2>2. l > 0 => T.rows[l].t <= of[T.columns[i].next + 1].t
    BY <2>1 DEF Column
  <2>3. l > 0 => HasCell(T, i, l)
    BY DEF Ends
  <2> HIDE DEF l
  <2> QED BY <1>1, <2>2, <2>3
<1>3. ASSUME NEW r \in 1 .. Len(T.rows), r < at
      PROVE  T.rows[r].t <= x.t /\ (T.rows[r].t = x.t => HasCell(T, i, r))
  <2>1. CASE r > l
    <3>1. T.rows[r].t < x.t
      BY <1>3, <2>1
    <3> QED BY <1>1, <3>1
  <2>2. CASE ~(r > l)
    <3> HIDE DEF l
    <3>1. l > 0 /\ r <= l
      BY <1>1, <2>2
    <3>2. T.rows[r].t <= T.rows[l].t
      BY <1>2, <3>1 DEF Sorted
    <3>3. T.rows[r].t <= x.t
      <4>1. l \in 1 .. Len(T.rows) /\ T.rows[l].t <= x.t
        BY <1>2, <3>1
      <4>2. T.rows[l].t \in Nat /\ T.rows[r].t \in Nat /\ x.t \in Nat
        BY <1>1, <4>1
      <4> QED BY ONLY <3>2, <4>1, <4>2
    <3>4. ASSUME T.rows[r].t = x.t
          PROVE  HasCell(T, i, r)
      <4>1. T.rows[r].t = T.rows[l].t
        BY <1>1, <1>2, <3>1, <3>2, <3>4
      <4>2. CASE r = l
        BY <1>2, <3>1, <4>2
      <4>3. CASE r < l
        <5>1. l \in 1 .. Len(T.rows) /\ HasCell(T, i, l)
          BY <1>2, <3>1
        <5> QED BY <4>1, <4>3, <5>1 DEF Column
      <4> QED BY <1>1, <3>1, <4>2, <4>3
    <3> QED BY <3>3, <3>4
  <2> QED BY <2>1, <2>2
<1> QED
  BY <1>3 DEF Around

(* A sample that is placed leaves the table merged.                         *)
LEMMA PlaceMerges ==
  ASSUME NEW T, NEW feed, NEW gone, NEW back, NEW reached, Feed(feed, back, reached),
         Merged(T, feed, gone, back, reached),
         NEW i \in 1 .. Len(T.columns), NEW k \in Nat, k = T.columns[i].next + 1,
         k <= Len(feed[T.columns[i].signal])
  PROVE  LET P == Place(T, i, feed[T.columns[i].signal][k])
         IN  Merged(P, feed, gone, back, reached) /\ Takes(T, P, i, k)
<1> DEFINE of == feed[T.columns[i].signal]
           limit == reached[T.columns[i].signal]
           P == Place(T, i, of[k])
<1>1. IsTable(T) /\ Ends(T, i)
  BY DEF Merged
<1>2. /\ T.columns[i].signal \in Signals /\ T.columns[i].next \in Nat /\ Len(T.rows) \in Nat /\ i \in Nat
      /\ \A j \in 1 .. Len(T.columns) : T.columns[j].signal \in Signals /\ T.columns[j].next \in Nat
  BY <1>1, RowTimes
<1>3. /\ Len(of) \in Nat /\ k \in 1 .. Len(of) /\ of[k] \in StoredSamples
      /\ T.columns[i].signal \notin back => of[k].t <= limit /\ (k + 1 <= Len(of) => of[k].t <= of[k + 1].t)
  <2>1. /\ Len(of) \in Nat
        /\ \A m \in 1 .. Len(of) : of[m] \in StoredSamples
        /\ T.columns[i].signal \notin back =>
             /\ \A m \in 1 .. Len(of) : of[m].t <= limit
             /\ \A m \in 2 .. Len(of) : of[m - 1].t <= of[m].t
    BY <1>2 DEF Feed
  <2> HIDE DEF of, limit
  <2>2. k \in 1 .. Len(of)
    BY <1>2, <2>1 DEF of
  <2>3. ASSUME k + 1 <= Len(of), T.columns[i].signal \notin back
        PROVE  of[k].t <= of[k + 1].t
    <3>1. k + 1 \in 2 .. Len(of) /\ (k + 1) - 1 = k
      BY <2>1, <2>2, <2>3
    <3> QED BY <2>1, <2>3, <3>1
  <2> QED BY <2>1, <2>2, <2>3
<1> HIDE DEF of, limit
<1>4. PICK x \in StoredSamples : x = of[k]
  BY <1>3
<1>5. P = Place(T, i, x)
  BY <1>4
<1> HIDE DEF P
<1>6. \A j \in 1 .. Len(T.columns) : T.columns[j].last \in 0 .. Len(T.rows)
  BY DEF Merged, Ends
<1>7. PICK at \in 1 .. Len(T.rows) + 1, cut \in 1 .. Len(T.rows) + 1 :
           /\ HasPlaced(T, P, i, x, at, cut)
           /\ at > T.columns[i].last
           /\ \A r \in 1 .. Len(T.rows) : r > T.columns[i].last /\ r < at => T.rows[r].t < x.t
           /\ Sorted(T) => \A r \in 1 .. Len(T.rows) :
                r >= at => x.t <= T.rows[r].t /\ (r >= cut => x.t < T.rows[r].t)
  BY <1>1, <1>5, <1>6, PlaceIs
<1>8. at \in Nat /\ k <= Len(of) /\ Len(of) \in Nat /\ of[k] = x
  BY <1>3, <1>4
<1>10. /\ IsTable(P) /\ Len(P.columns) = Len(T.columns) /\ P.rows[at].t = x.t
       /\ \A j \in 1 .. Len(T.columns) :
            /\ P.columns[j].signal = T.columns[j].signal
            /\ P.columns[j].next = IF j = i THEN T.columns[j].next + 1 ELSE T.columns[j].next
  BY <1>3, <1>4, <1>7 DEF HasPlaced
<1>11. Takes(T, P, i, k)
  BY <1>10 DEF Takes
<1>12. ASSUME NEW j \in 1 .. Len(T.columns)
       PROVE  Ends(P, j)
  <2>1. Ends(T, j)
    BY DEF Merged
  <2>2. CASE j = i
    <3>1. Ends(P, i)
      BY ONLY <1>1, <1>7, x \in StoredSamples, i \in 1 .. Len(T.columns), OwnEnds
    <3> QED BY <2>2, <3>1
  <2>3. CASE j # i
    BY ONLY <1>1, <1>7, <2>1, <2>3, i \in 1 .. Len(T.columns), j \in 1 .. Len(T.columns), x \in StoredSamples, OtherColumn
  <2> QED BY <2>2, <2>3
<1>13. ASSUME InTimeAll(P, back)
       PROVE  Straight(P, feed, reached)
  <2>1. /\ Sorted(T) /\ T.columns[i].signal \notin back
        /\ \A o \in 1 .. Len(T.rows) : \E j \in 1 .. Len(T.columns) : Every(T, j, T.rows[o].t)
        /\ \A j \in 1 .. Len(T.columns) :
             Column(T, j, feed[T.columns[j].signal], reached[T.columns[j].signal])
    <3>1. InTimeAll(T, back)
      BY <1>10, <1>13 DEF InTimeAll
    <3> QED BY <3>1 DEF Merged, Straight, InTimeAll
  <2>2. Column(T, i, of, limit)
    BY <2>1 DEF of, limit
  <2>3. Around(T, i, x, at, cut)
    BY ONLY <1>1, <1>7, <1>8, <2>1, <2>2, i \in 1 .. Len(T.columns), k \in Nat, k = T.columns[i].next + 1, x \in StoredSamples, AroundIs
  <2>4. Sorted(P)
    BY <1>1, <1>7, <2>1, <2>3, SortedKept
  <2>5. ASSUME NEW r \in 1 .. Len(P.rows)
        PROVE  \E j \in 1 .. Len(P.columns) : Every(P, j, P.rows[r].t)
    BY <1>1, <1>7, <2>1, <2>3, EveryKept
  <2>6. ASSUME NEW j \in 1 .. Len(P.columns)
        PROVE  Column(P, j, feed[P.columns[j].signal], reached[P.columns[j].signal])
    <3>1. j \in 1 .. Len(T.columns) /\ P.columns[j].signal = T.columns[j].signal
      BY <1>10
    <3>2. CASE j = i
      <4>1. of[k] \in StoredSamples /\ HasPlaced(T, P, i, of[k], at, cut) /\ Around(T, i, of[k], at, cut) /\ at > T.columns[i].last
        BY <1>3, <1>4, <1>7, <2>3
      <4>2. of[k].t <= limit /\ (k + 1 <= Len(of) => of[k].t <= of[k + 1].t)
        BY <1>3, <2>1
      <4>3. Column(P, i, of, limit)
        BY ONLY <1>1, <1>3, <2>2, <4>1, <4>2, i \in 1 .. Len(T.columns), k \in Nat, k = T.columns[i].next + 1, OwnColumn
      <4> QED BY <3>1, <3>2, <4>3 DEF of, limit
    <3>3. CASE j # i
      <4> DEFINE fj == feed[T.columns[j].signal]
                 lj == reached[T.columns[j].signal]
      <4>1. Column(T, j, fj, lj) /\ Ends(T, j)
        BY <2>1, <3>1 DEF Merged
      <4> HIDE DEF fj, lj
      <4>2. Column(P, j, fj, lj)
        BY ONLY <1>1, <1>7, <2>3, <3>1, <3>3, <4>1, i \in 1 .. Len(T.columns), x \in StoredSamples, OtherColumn
      <4> QED BY <3>1, <4>2 DEF fj, lj
    <3> QED BY <3>2, <3>3
  <2> QED BY <2>4, <2>5, <2>6 DEF Straight
<1>14. ASSUME NEW r \in 1 .. Len(P.rows), NEW j \in Nat, HasCell(P, j, r)
       PROVE  j <= Len(P.columns)
  <2>1. \/ \E o \in 1 .. Len(T.rows) : r = RowAfter(o, cut)
        \/ r = at /\ \A m \in Nat : HasCell(P, m, at) => m = i
    BY ONLY <1>1, <1>7, i \in 1 .. Len(T.columns), r \in 1 .. Len(P.rows), RowOrigin
  <2>2. CASE j = i
    BY <1>10, <2>2
  <2>3. CASE j # i
    <3>1. PICK o \in 1 .. Len(T.rows) : r = RowAfter(o, cut)
      BY <1>14, <2>1, <2>3
    <3>2. HasCell(T, j, o)
      BY <1>7, <1>14, <2>3, <3>1 DEF HasPlaced
    <3>3. j <= Len(T.columns)
      BY <3>2 DEF Merged
    <3> QED BY <1>10, <3>3
  <2> QED BY <2>2, <2>3
<1>15. ASSUME NEW j \in 1 .. Len(P.columns)
       PROVE  LET c == P.columns[j]
              IN  /\ Ends(P, j)
                  /\ c.signal \notin gone => c.next <= Len(feed[c.signal]) /\ HasTaken(P, j, feed[c.signal], c.next)
  <2> DEFINE b == T.columns[j]
             fj == feed[b.signal]
  <2>1. j \in 1 .. Len(T.columns) /\ P.columns[j].signal = b.signal
    BY <1>10
  <2>2. b.signal \notin gone => b.next <= Len(fj) /\ HasTaken(T, j, fj, b.next)
    BY <2>1 DEF Merged
  <2>3. CASE j = i
    <3>1. fj = of /\ P.columns[j].next = k /\ b.next + 1 = k
      BY <1>10, <2>1, <2>3 DEF of
    <3>3. ASSUME b.signal \notin gone
          PROVE  k <= Len(of) /\ HasTaken(P, i, of, k)
      <4>1. PICK n \in Nat : n = T.columns[i].next
        BY <1>2
      <4>2. HasTaken(T, i, of, n) /\ of[n + 1] = x /\ k = n + 1
        BY <1>4, <2>2, <2>3, <3>1, <3>3, <4>1
      <4>3. HasTaken(P, i, of, n + 1)
        BY ONLY <1>1, <1>7, <4>2, i \in 1 .. Len(T.columns), n \in Nat, x \in StoredSamples, OwnTaken
      <4> QED BY <1>3, <4>2, <4>3
    <3> HIDE DEF b, fj
    <3> QED BY <1>12, <2>1, <2>3, <3>1, <3>3 DEF fj
  <2>4. CASE j # i
    <3>1. P.columns[j].next = b.next /\ b.next \in Nat
      BY <1>2, <1>10, <2>1, <2>4
    <3>3. ASSUME b.signal \notin gone
          PROVE  b.next <= Len(fj) /\ HasTaken(P, j, fj, b.next)
      <4>1. PICK n \in Nat : n = b.next
        BY <3>1
      <4>2. HasTaken(T, j, fj, n) /\ b.next <= Len(fj)
        BY <2>2, <3>3, <4>1
      <4> HIDE DEF fj
      <4>3. HasTaken(P, j, fj, n)
        BY ONLY <1>1, <1>7, <2>1, <2>4, <4>2, i \in 1 .. Len(T.columns), n \in Nat, x \in StoredSamples, OtherTaken
      <4> QED BY <4>1, <4>2, <4>3
    <3> HIDE DEF b, fj
    <3> QED BY <1>12, <2>1, <3>1, <3>3 DEF fj
  <2> QED BY <2>3, <2>4
<1> QED
  <2>1. Merged(P, feed, gone, back, reached)
    BY <1>10, <1>13, <1>15, <1>14 DEF Merged
  <2> QED BY <1>11, <2>1 DEF P, of

(* A set that holds 0, and with a number the next one, up to n.            *)
LEMMA UpFrom ==
  ASSUME NEW S, NEW n \in Nat, 0 \in S, \A k \in 0..n : k < n /\ k \in S => k + 1 \in S
  PROVE  0..n \subseteq S
<1> DEFINE Out == {k \in 0..n : k \notin S}
<1>1. ASSUME Out # {}
      PROVE  FALSE
  <2>1. Out \in SUBSET Nat
    OBVIOUS
  <2>2. PICK m \in Out : \A k \in Out : m <= k
    BY <1>1, <2>1, NatMin
  <2>3. m \in 0..n /\ m \notin S /\ m # 0
    BY <2>2
  <2>4. m - 1 \in 0..n /\ m - 1 < n /\ ~(m <= m - 1)
    BY <2>3
  <2>5. m - 1 \in S
    BY <2>2, <2>4
  <2>6. (m - 1) + 1 \in S
    BY <2>4, <2>5
  <2> QED BY <2>3, <2>6
<1> QED BY <1>1

(* What the recursive function Placed is, sample by sample.                 *)
LEMMA PlacedIs ==
  ASSUME NEW T, NEW i, Len(samples[T.columns[i].signal]) \in Nat, T.columns[i].next \in Nat
  PROVE  \A k \in 0..Len(samples[T.columns[i].signal]) : Placed(T, i)[k] = IF k <= T.columns[i].next THEN T ELSE Place(Placed(T, i)[k - 1], i, samples[T.columns[i].signal][k])
<1> DEFINE n == Len(samples[T.columns[i].signal])
           Upto(m, h) == h = [k \in 0..m |-> IF k <= T.columns[i].next THEN T ELSE Place(h[k - 1], i, samples[T.columns[i].signal][k])]
           S == {m \in Nat : \E h : Upto(m, h)}
<1>1. n \in Nat
  BY LenProperties
<1> HIDE DEF n
<1>2. 0 \in S
  <2>1. Upto(0, [k \in 0..0 |-> T])
    OBVIOUS
  <2> QED BY <2>1
<1>3. ASSUME NEW m \in 0..n, m \in S
      PROVE  m + 1 \in S
  <2>1. PICK h : Upto(m, h)
    BY <1>3
  <2>2. m \in Nat /\ m + 1 \in Nat /\ (m + 1) - 1 = m
    BY <1>1
  <2> DEFINE new == [k \in 0..(m + 1) |-> IF k = m + 1 THEN IF m + 1 <= T.columns[i].next THEN T ELSE Place(h[m], i, samples[T.columns[i].signal][m + 1]) ELSE h[k]]
  <2>3. ASSUME NEW k \in 0..(m + 1)
        PROVE  new[k] = IF k <= T.columns[i].next THEN T ELSE Place(new[k - 1], i, samples[T.columns[i].signal][k])
    <3>1. CASE k = m + 1
      <4>1. k - 1 = m /\ m \in 0..(m + 1) /\ m # m + 1
        BY <2>2, <3>1
      <4>2. new[k] = IF m + 1 <= T.columns[i].next THEN T ELSE Place(h[m], i, samples[T.columns[i].signal][m + 1])
        BY <3>1
      <4>3. new[k - 1] = h[m]
        BY <4>1
      <4> HIDE DEF new
      <4> QED BY <3>1, <4>2, <4>3
    <3>2. CASE k # m + 1
      <4>1. k \in 0..m /\ new[k] = h[k] /\ (k # 0 => new[k - 1] = h[k - 1])
        BY <2>2, <3>2
      <4>2. h[k] = IF k <= T.columns[i].next THEN T ELSE Place(h[k - 1], i, samples[T.columns[i].signal][k])
        BY <2>1, <4>1
      <4> HIDE DEF new
      <4> QED BY <4>1, <4>2
    <3> QED BY <3>1, <3>2
  <2>4. Upto(m + 1, new)
    BY <2>3
  <2> HIDE DEF Upto, new
  <2> QED BY <2>2, <2>4
<1>4. n \in S
  <2> HIDE DEF S
  <2>1. 0..n \subseteq S
    BY <1>1, <1>2, <1>3, UpFrom
  <2> QED BY <1>1, <2>1
<1>5. \E h : Upto(n, h)
  BY <1>4
<1>6. Placed(T, i) = CHOOSE h : Upto(n, h)
  BY DEF Placed, n
<1>7. Upto(n, Placed(T, i))
  <2> HIDE DEF Upto
  <2> QED BY <1>5, <1>6, Zenon
<1> DEFINE W == Placed(T, i)
<1>8. W = [k \in 0..n |-> IF k <= T.columns[i].next THEN T ELSE Place(W[k - 1], i, samples[T.columns[i].signal][k])]
  BY <1>7
<1> HIDE DEF W
<1>9. ASSUME NEW k \in 0..n
      PROVE  W[k] = IF k <= T.columns[i].next THEN T ELSE Place(W[k - 1], i, samples[T.columns[i].signal][k])
  BY <1>8
<1> QED
  BY <1>9 DEF n, W

(* What the recursive function Filled is, column by column.                 *)
LEMMA FilledIs ==
  ASSUME NEW T, Len(T.columns) \in Nat
  PROVE  \A k \in 0..Len(T.columns) : Filled(T)[k] = IF k = 0 THEN T ELSE Fill(Filled(T)[k - 1], k)
<1> DEFINE n == Len(T.columns)
           Upto(m, h) == h = [k \in 0..m |-> IF k = 0 THEN T ELSE Fill(h[k - 1], k)]
           S == {m \in Nat : \E h : Upto(m, h)}
<1>1. n \in Nat
  BY LenProperties
<1> HIDE DEF n
<1>2. 0 \in S
  <2>1. Upto(0, [k \in 0..0 |-> T])
    OBVIOUS
  <2> QED BY <2>1
<1>3. ASSUME NEW m \in 0..n, m \in S
      PROVE  m + 1 \in S
  <2>1. PICK h : Upto(m, h)
    BY <1>3
  <2>2. m \in Nat /\ m + 1 \in Nat /\ (m + 1) - 1 = m
    BY <1>1
  <2> DEFINE new == [k \in 0..(m + 1) |-> IF k = m + 1 THEN IF m + 1 = 0 THEN T ELSE Fill(h[m], m + 1) ELSE h[k]]
  <2>3. ASSUME NEW k \in 0..(m + 1)
        PROVE  new[k] = IF k = 0 THEN T ELSE Fill(new[k - 1], k)
    <3>1. CASE k = m + 1
      <4>1. k - 1 = m /\ m \in 0..(m + 1) /\ m # m + 1
        BY <2>2, <3>1
      <4>2. new[k] = IF m + 1 = 0 THEN T ELSE Fill(h[m], m + 1)
        BY <3>1
      <4>3. new[k - 1] = h[m]
        BY <4>1
      <4> HIDE DEF new
      <4> QED BY <3>1, <4>2, <4>3
    <3>2. CASE k # m + 1
      <4>1. k \in 0..m /\ new[k] = h[k] /\ (k # 0 => new[k - 1] = h[k - 1])
        BY <2>2, <3>2
      <4>2. h[k] = IF k = 0 THEN T ELSE Fill(h[k - 1], k)
        BY <2>1, <4>1
      <4> HIDE DEF new
      <4> QED BY <4>1, <4>2
    <3> QED BY <3>1, <3>2
  <2>4. Upto(m + 1, new)
    BY <2>3
  <2> HIDE DEF Upto, new
  <2> QED BY <2>2, <2>4
<1>4. n \in S
  <2> HIDE DEF S
  <2>1. 0..n \subseteq S
    BY <1>1, <1>2, <1>3, UpFrom
  <2> QED BY <1>1, <2>1
<1>5. \E h : Upto(n, h)
  BY <1>4
<1>6. Filled(T) = CHOOSE h : Upto(n, h)
  BY DEF Filled, n
<1>7. Upto(n, Filled(T))
  <2> HIDE DEF Upto
  <2> QED BY <1>5, <1>6, Zenon
<1> DEFINE W == Filled(T)
<1>8. W = [k \in 0..n |-> IF k = 0 THEN T ELSE Fill(W[k - 1], k)]
  BY <1>7
<1> HIDE DEF W
<1>9. ASSUME NEW k \in 0..n
      PROVE  W[k] = IF k = 0 THEN T ELSE Fill(W[k - 1], k)
  BY <1>8
<1> QED
  BY <1>9 DEF n, W

(* A column takes all that its signal has.                                 *)
LEMMA FillMerges ==
  ASSUME NEW T, NEW gone, NEW back, NEW reached, Feed(samples, back, reached),
         Merged(T, samples, gone, back, reached),
         NEW i \in 1 .. Len(T.columns)
  PROVE  \E more \in Nat : /\ Merged(Fill(T, i), samples, gone, back, reached) /\ Takes(T, Fill(T, i), i, more)
                           /\ more >= T.columns[i].next /\ more >= Count(T.columns[i].signal)
<1> DEFINE of == samples[T.columns[i].signal]
           n == Len(of)
           p == T.columns[i].next
           W == Placed(T, i)
           Came(k) == IF k <= p THEN p ELSE k
           S == {k \in Nat : k <= n => Merged(W[k], samples, gone, back, reached) /\ Takes(T, W[k], i, Came(k))}
<1>1. IsTable(T)
  BY DEF Merged
<1>2. T.columns[i].signal \in Signals /\ p \in Nat /\ Len(T.columns) \in Nat
  BY <1>1, RowTimes
<1>3. n \in Nat
  BY <1>2 DEF Feed
<1>4. \A k \in 0 .. n : W[k] = IF k <= p THEN T ELSE Place(W[k - 1], i, of[k])
  BY <1>2, <1>3, PlacedIs
<1>5. Fill(T, i) = W[n] /\ Count(T.columns[i].signal) = n
  BY DEF Fill, Count
<1>6. Takes(T, T, i, p)
  BY DEF Takes
<1> HIDE DEF of, n, p, W
<1>7. 0 \in S
  <2>1. 0 \in 0 .. n /\ 0 <= p
    BY <1>2, <1>3 DEF p
  <2>2. W[0] = T /\ Came(0) = p
    BY <1>4, <2>1
  <2> QED BY <1>6, <2>2
<1>8. ASSUME NEW k \in 0 .. n, k < n, k \in S
      PROVE  k + 1 \in S
  <2>1. k \in Nat /\ k <= n /\ k + 1 \in 0 .. n /\ (k + 1) - 1 = k /\ k + 1 \in Nat
    BY <1>3, <1>8
  <2>2. Merged(W[k], samples, gone, back, reached) /\ Takes(T, W[k], i, Came(k))
    BY <1>8, <2>1
  <2>3. CASE k + 1 <= p
    <3>1. W[k + 1] = T /\ Came(k + 1) = p
      BY <1>4, <2>1, <2>3
    <3> QED BY <1>6, <2>1, <3>1
  <2>4. CASE ~(k + 1 <= p)
    <3>1. W[k + 1] = Place(W[k], i, of[k + 1])
      BY <1>4, <2>1, <2>4
    <3>2. Came(k) = k /\ Came(k + 1) = k + 1
      BY <1>2, <2>1, <2>4 DEF p
    <3> DEFINE V == W[k]
               P == W[k + 1]
    <3>3. /\ Len(V.columns) = Len(T.columns) /\ V.columns[i].signal = T.columns[i].signal /\ V.columns[i].next = k
          /\ \A j \in 1 .. Len(T.columns) :
               /\ V.columns[j].signal = T.columns[j].signal
               /\ V.columns[j].next = IF j = i THEN k ELSE T.columns[j].next
      BY <2>2, <3>2 DEF Takes
    <3>4. P = Place(V, i, samples[V.columns[i].signal][k + 1]) /\ k + 1 <= Len(samples[V.columns[i].signal])
      BY <2>1, <3>1, <3>3 DEF of, n
    <3> HIDE DEF V, P
    <3>5. i \in 1 .. Len(V.columns) /\ Merged(V, samples, gone, back, reached) /\ k + 1 = V.columns[i].next + 1
      BY <2>2, <3>3 DEF V
    <3>6. Merged(P, samples, gone, back, reached) /\ Takes(V, P, i, k + 1)
      BY ONLY <2>1, <3>4, <3>5, Feed(samples, back, reached), PlaceMerges
    <3>7. Takes(T, P, i, k + 1)
      BY <3>3, <3>6 DEF Takes
    <3> QED BY <2>1, <3>2, <3>6, <3>7 DEF P
  <2> QED BY <2>3, <2>4
<1>9. n \in S
  <2> HIDE DEF S
  <2>1. 0 .. n \subseteq S
    BY <1>3, <1>7, <1>8, UpFrom
  <2> QED BY <1>3, <2>1
<1>10. Came(n) \in Nat /\ Came(n) >= p /\ Came(n) >= n
  BY <1>2, <1>3 DEF p
<1>11. Merged(W[n], samples, gone, back, reached) /\ Takes(T, W[n], i, Came(n))
  BY <1>3, <1>9
<1> HIDE DEF Came
<1> QED BY <1>5, <1>10, <1>11 DEF p

(* T with columns that have taken all their signals have.                  *)
AllTaken(T, P) ==
  /\ Len(P.columns) = Len(T.columns)
  /\ \A j \in 1 .. Len(T.columns) : /\ P.columns[j].signal = T.columns[j].signal
                                  /\ P.columns[j].next >= Count(T.columns[j].signal)

(* All columns do, one after the other.                                    *)
LEMMA FilledMerges ==
  ASSUME NEW T, NEW gone, NEW back, NEW reached, Feed(samples, back, reached),
         Merged(T, samples, gone, back, reached)
  PROVE  LET P == Filled(T)[Len(T.columns)]
         IN  Merged(P, samples, gone, back, reached) /\ AllTaken(T, P)
<1> DEFINE n == Len(T.columns)
           W == Filled(T)
           Upto(k, P) == /\ Len(P.columns) = n
                         /\ \A j \in 1 .. n :
                              /\ P.columns[j].signal = T.columns[j].signal
                              /\ j <= k => P.columns[j].next >= Count(T.columns[j].signal)
           S == {k \in Nat : k <= n => Merged(W[k], samples, gone, back, reached) /\ Upto(k, W[k])}
<1>1. IsTable(T)
  BY DEF Merged
<1>2. n \in Nat /\ \A j \in 1 .. n : T.columns[j].signal \in Signals
  BY <1>1, RowTimes
<1>3. \A k \in 0 .. n : W[k] = IF k = 0 THEN T ELSE Fill(W[k - 1], k)
  BY <1>2, FilledIs
<1>4. \A s \in Signals : Count(s) \in Nat
  BY DEF Feed, Count
<1> HIDE DEF W
<1>5. 0 \in S
  <2>1. W[0] = T
    BY <1>2, <1>3
  <2>2. \A j \in 1 .. n : ~(j <= 0)
    BY <1>2
  <2> QED BY <2>1, <2>2
<1> HIDE DEF n
<1>6. ASSUME NEW k \in 0 .. n, k < n, k \in S
      PROVE  k + 1 \in S
  <2>1. k \in Nat /\ k <= n /\ k + 1 \in 0 .. n /\ (k + 1) - 1 = k /\ k + 1 \in Nat /\ k + 1 \in 1 .. n /\ k + 1 # 0
    BY <1>2, <1>6
  <2> DEFINE V == W[k]
             P == W[k + 1]
  <2>2. Merged(V, samples, gone, back, reached) /\ Upto(k, V)
    BY <1>6, <2>1
  <2>3. P = Fill(V, k + 1)
    BY <1>3, <2>1
  <2> HIDE DEF V, P
  <2>4. k + 1 \in 1 .. Len(V.columns)
    BY <2>1, <2>2
  <2>5. PICK more \in Nat : /\ Merged(P, samples, gone, back, reached) /\ Takes(V, P, k + 1, more)
                            /\ more >= Count(V.columns[k + 1].signal)
    BY <2>2, <2>3, <2>4, FillMerges
  <2>6. ASSUME NEW j \in 1 .. n
        PROVE  /\ P.columns[j].signal = T.columns[j].signal
               /\ j <= k + 1 => P.columns[j].next >= Count(T.columns[j].signal)
    <3>1. /\ V.columns[j].signal = T.columns[j].signal /\ Len(V.columns) = n
          /\ j <= k => V.columns[j].next >= Count(T.columns[j].signal)
      BY <2>2
    <3>2. /\ P.columns[j].signal = V.columns[j].signal
          /\ P.columns[j].next = IF j = k + 1 THEN more ELSE V.columns[j].next
      BY <2>5, <3>1 DEF Takes
    <3>3. CASE j = k + 1
      BY <2>5, <3>1, <3>2, <3>3
    <3>4. CASE j # k + 1
      <4>1. j <= k + 1 => j <= k
        BY <1>2, <2>1, <3>4
      <4> QED BY <3>1, <3>2, <3>4, <4>1
    <3> QED BY <3>3, <3>4
  <2>7. Len(P.columns) = n
    BY <2>2, <2>5 DEF Takes
  <2>8. Upto(k + 1, P)
    BY <2>6, <2>7
  <2> HIDE DEF Upto
  <2> QED BY <2>1, <2>5, <2>8 DEF P
<1>7. n \in S
  <2> HIDE DEF S
  <2>1. 0 .. n \subseteq S
    BY <1>2, <1>5, <1>6, UpFrom DEF n
  <2> QED BY <1>2, <2>1 DEF n
<1>8. Merged(W[n], samples, gone, back, reached) /\ Upto(n, W[n])
  BY <1>2, <1>7 DEF n
<1>9. AllTaken(T, W[n])
  <2>1. \A j \in 1 .. n : j <= n
    BY <1>2 DEF n
  <2> QED BY <1>8, <2>1 DEF AllTaken, n
<1> QED BY <1>8, <1>9 DEF n, W

(* From "feed" on, samples have come to signals in "new", but for signals  *)
(* that are "gone" perhaps without those there were; unless a signal is    *)
(* "back" they are not older than the time it had "reached".               *)
Later(feed, new, gone, back, reached) ==
  /\ \A s \in Signals : Len(feed[s]) \in Nat /\ Len(new[s]) \in Nat
  /\ \A s \in Signals : s \notin gone =>
       Len(feed[s]) <= Len(new[s]) /\ \A k \in 1 .. Len(feed[s]) : new[s][k] = feed[s][k]
  /\ \A s \in Signals : s \notin back =>
       /\ reached[s] \in Nat
       /\ \A k \in 1 .. Len(new[s]) :
            \/ k <= Len(feed[s]) /\ new[s][k] = feed[s][k]
            \/ new[s][k].t \in Nat /\ reached[s] <= new[s][k].t

(* A column of a signal with later samples.                                *)
LEMMA ColumnLater ==
  ASSUME NEW T, IsTable(T), NEW j \in 1 .. Len(T.columns), NEW of, NEW to, NEW limit \in Nat, NEW later \in Nat,
         Ends(T, j), Column(T, j, of, limit), limit <= later, Len(of) \in Nat, Len(to) \in Nat,
         \A k \in 1 .. Len(to) : \/ k <= Len(of) /\ to[k] = of[k]
                                 \/ to[k].t \in Nat /\ limit <= to[k].t
  PROVE  Column(T, j, to, later)
<1> DEFINE c == T.columns[j]
<1>1. c.next \in Nat /\ \A r \in 1 .. Len(T.rows) : T.rows[r].t \in Nat
  BY RowTimes
<1>2. ASSUME c.last > 0
      PROVE  T.rows[c.last].t \in Nat /\ T.rows[c.last].t <= limit /\ T.rows[c.last].t <= later
  <2>1. c.last \in 1 .. Len(T.rows)
    BY <1>2 DEF Ends
  <2>2. T.rows[c.last].t \in Nat /\ T.rows[c.last].t <= limit
    BY <1>1, <1>2, <2>1 DEF Column
  <2> QED BY <2>2
<1>3. ASSUME c.last > 0, c.next < Len(to)
      PROVE  T.rows[c.last].t <= to[c.next + 1].t
  <2>1. c.next + 1 \in 1 .. Len(to)
    BY <1>1, <1>3
  <2>2. CASE c.next + 1 <= Len(of) /\ to[c.next + 1] = of[c.next + 1]
    <3>1. c.next < Len(of)
      BY <1>1, <2>2
    <3> QED BY <1>3, <2>2, <3>1 DEF Column
  <2>3. CASE to[c.next + 1].t \in Nat /\ limit <= to[c.next + 1].t
    BY <1>2, <1>3, <2>3
  <2> QED BY <2>1, <2>2, <2>3
<1>4. \A q, r \in 1 .. Len(T.rows) :
        q < r /\ T.rows[q].t = T.rows[r].t /\ HasCell(T, j, r) => HasCell(T, j, q)
  BY DEF Column
<1> QED BY <1>2, <1>3, <1>4 DEF Column

(* That leaves the table merged.                                           *)
LEMMA MergedLater ==
  ASSUME NEW T, NEW feed, NEW new, NEW gone, NEW more, NEW back, NEW behind, NEW reached, NEW arrived,
         Merged(T, feed, gone, back, reached), gone \subseteq more, back \subseteq behind,
         Later(feed, new, more, behind, reached),
         \A s \in Signals : s \notin behind => arrived[s] \in Nat /\ reached[s] <= arrived[s]
  PROVE  Merged(T, new, more, behind, arrived)
<1>1. IsTable(T)
  BY DEF Merged
<1>2. \A j \in 1 .. Len(T.columns) : T.columns[j].signal \in Signals /\ T.columns[j].next \in Nat
  BY <1>1, RowTimes
<1>3. ASSUME InTimeAll(T, behind)
      PROVE  Straight(T, new, arrived)
  <2>1. Straight(T, feed, reached)
    <3>1. InTimeAll(T, back)
      BY <1>3 DEF InTimeAll
    <3> QED BY <3>1 DEF Merged
  <2>2. ASSUME NEW j \in 1 .. Len(T.columns)
        PROVE  Column(T, j, new[T.columns[j].signal], arrived[T.columns[j].signal])
    <3>1. T.columns[j].signal \in Signals /\ T.columns[j].signal \notin behind
      BY <1>2, <1>3 DEF InTimeAll
    <3>2. PICK s \in Signals : s = T.columns[j].signal /\ s \notin behind
      BY <3>1
    <3> DEFINE of == feed[s]
               to == new[s]
               limit == reached[s]
               later == arrived[s]
    <3>3. Ends(T, j) /\ Column(T, j, of, limit)
      BY <2>1, <3>2 DEF Straight, Merged
    <3>4. /\ limit \in Nat /\ later \in Nat /\ limit <= later /\ Len(of) \in Nat /\ Len(to) \in Nat
          /\ \A k \in 1 .. Len(to) : \/ k <= Len(of) /\ to[k] = of[k]
                                     \/ to[k].t \in Nat /\ limit <= to[k].t
      BY <3>2 DEF Later
    <3> HIDE DEF of, to, limit, later
    <3>5. Column(T, j, to, later)
      BY ONLY <1>1, <3>3, <3>4, j \in 1 .. Len(T.columns), ColumnLater
    <3> QED BY <3>2, <3>5 DEF to, later
  <2> QED BY <2>1, <2>2 DEF Straight
<1>4. ASSUME NEW j \in 1 .. Len(T.columns)
      PROVE  LET c == T.columns[j]
             IN  /\ Ends(T, j)
                 /\ c.signal \notin more => c.next <= Len(new[c.signal]) /\ HasTaken(T, j, new[c.signal], c.next)
  <2> DEFINE c == T.columns[j]
             of == feed[c.signal]
             to == new[c.signal]
  <2>1. Ends(T, j) /\ (c.signal \notin gone => c.next <= Len(of) /\ HasTaken(T, j, of, c.next))
    BY DEF Merged
  <2>2. c.signal \in Signals /\ c.next \in Nat
    BY <1>2
  <2>3. /\ Len(of) \in Nat /\ Len(to) \in Nat
        /\ c.signal \notin more => Len(of) <= Len(to) /\ \A k \in 1 .. Len(of) : to[k] = of[k]
    BY <2>2 DEF Later
  <2> HIDE DEF of, to
  <2>6. ASSUME c.signal \notin more
        PROVE  c.next <= Len(to) /\ HasTaken(T, j, to, c.next)
    <3> DEFINE n == c.next
    <3>1. n <= Len(of) /\ HasTaken(T, j, of, n)
      BY <2>1, <2>6
    <3>2. n <= Len(to) /\ \A k \in 1 .. n : to[k] = of[k]
      BY <2>2, <2>3, <2>6, <3>1
    <3> HIDE DEF n
    <3>3. PICK at \in [1 .. n -> DOMAIN T.rows] :
            /\ \A k \in 2 .. n : at[k - 1] < at[k]
            /\ \A k \in 1 .. n : /\ HasCell(T, j, at[k])
                               /\ of[k].t = T.rows[at[k]].t /\ of[k].v = T.rows[at[k]].cells[j]
            /\ \A r \in DOMAIN T.rows : HasCell(T, j, r) => \E k \in 1 .. n : at[k] = r
      BY <3>1 DEF HasTaken
    <3>4. \A k \in 1 .. n : to[k].t = T.rows[at[k]].t /\ to[k].v = T.rows[at[k]].cells[j]
      BY <3>2, <3>3
    <3>5. HasTaken(T, j, to, n)
      BY <3>3, <3>4, Zenon DEF HasTaken
    <3> QED BY <3>2, <3>5 DEF n
  <2> QED BY <2>1, <2>6 DEF to
<1>5. \A r \in 1 .. Len(T.rows) : \A j \in Nat : HasCell(T, j, r) => j <= Len(T.columns)
  BY DEF Merged
<1> QED
  BY <1>1, <1>3, <1>4, <1>5 DEF Merged

(* A column that has taken nothing is merged.                              *)
LEMMA NewColumn ==
  ASSUME NEW cs, NEW rs, NEW feed, NEW gone, NEW back, NEW reached, NEW s \in Signals,
         Merged([columns |-> cs, rows |-> rs], feed, gone, back, reached), Feed(feed, back, reached)
  PROVE  Merged([columns |-> Append(cs, [signal |-> s, next |-> 0, last |-> 0]), rows |-> rs],
                feed, gone, back, reached)
<1> DEFINE T == [columns |-> cs, rows |-> rs]
           c == [signal |-> s, next |-> 0, last |-> 0]
           P == [columns |-> Append(cs, c), rows |-> rs]
           n == Len(cs)
<1>1. IsTable(T) /\ T.columns = cs /\ T.rows = rs /\ P.rows = rs /\ P.columns = Append(cs, c)
  BY DEF Merged
<1>2. cs \in Seq(Taker) /\ rs \in Seq(Stamped) /\ Len(rs) \in Nat /\ DOMAIN rs = 1 .. Len(rs)
  BY <1>1, LenProperties DEF IsTable
<1>3. c \in Taker /\ n \in Nat /\ c.signal = s /\ c.next = 0 /\ c.last = 0
  BY <1>2 DEF Taker
<1> HIDE DEF c, n
<1>4. /\ P.columns \in Seq(Taker) /\ Len(P.columns) = n + 1 /\ P.columns[n + 1] = c
      /\ \A j \in 1 .. n : P.columns[j] = cs[j]
  BY <1>2, <1>3, LenProperties DEF n
<1>5. IsTable(P) /\ \A j, r : HasCell(P, j, r) <=> HasCell(T, j, r)
  BY <1>1, <1>2, <1>4 DEF IsTable, HasCell
<1>6. /\ \A r \in 1 .. Len(rs) : \A j \in Nat : HasCell(T, j, r) => j <= n
      /\ \A j \in 1 .. n :
           LET b == cs[j]
               of == feed[b.signal]
           IN  Ends(T, j) /\ (b.signal \notin gone => b.next <= Len(of) /\ HasTaken(T, j, of, b.next))
      /\ InTimeAll(T, back) => Straight(T, feed, reached)
  BY <1>1 DEF Merged, n
<1> HIDE DEF T, P
<1>8. \A j, t : Every(P, j, t) <=> Every(T, j, t)
  BY <1>1, <1>5 DEF Every
<1>9. ASSUME NEW j \in 1 .. n + 1
      PROVE  LET b == P.columns[j]
                 of == feed[b.signal]
             IN  Ends(P, j) /\ (b.signal \notin gone => b.next <= Len(of) /\ HasTaken(P, j, of, b.next))
  <2>1. CASE j \in 1 .. n
    <3>1. P.columns[j] = cs[j] /\ T.columns[j] = cs[j]
      BY <1>1, <1>4, <2>1
    <3> DEFINE b == cs[j]
               of == feed[b.signal]
    <3>2. Ends(T, j) /\ (b.signal \notin gone => b.next <= Len(of) /\ HasTaken(T, j, of, b.next))
      BY <1>6, <2>1
    <3> HIDE DEF of
    <3>3. Ends(P, j)
      BY <1>1, <1>5, <3>1, <3>2 DEF Ends
    <3>4. HasTaken(T, j, of, b.next) => HasTaken(P, j, of, b.next)
      <4>1. T.rows = P.rows /\ \A r : HasCell(P, j, r) <=> HasCell(T, j, r)
        BY <1>1, <1>5
      <4> DEFINE m == b.next
      <4> HIDE DEF m, b
      <4>2. ASSUME HasTaken(T, j, of, m)
            PROVE  HasTaken(P, j, of, m)
        <5>1. PICK at \in [1 .. m -> DOMAIN T.rows] :
                /\ \A k \in 2 .. m : at[k - 1] < at[k]
                /\ \A k \in 1 .. m : /\ HasCell(T, j, at[k])
                                   /\ of[k].t = T.rows[at[k]].t /\ of[k].v = T.rows[at[k]].cells[j]
                /\ \A r \in DOMAIN T.rows : HasCell(T, j, r) => \E k \in 1 .. m : at[k] = r
          BY <4>2 DEF HasTaken
        <5>2. /\ at \in [1 .. m -> DOMAIN P.rows]
              /\ \A k \in 1 .. m : /\ HasCell(P, j, at[k])
                                 /\ of[k].t = P.rows[at[k]].t /\ of[k].v = P.rows[at[k]].cells[j]
              /\ \A r \in DOMAIN P.rows : HasCell(P, j, r) => \E k \in 1 .. m : at[k] = r
          BY <4>1, <5>1
        <5> QED BY <5>1, <5>2, Zenon DEF HasTaken
      <4> QED BY <4>2 DEF m
    <3> QED BY <3>1, <3>2, <3>3, <3>4 DEF of
  <2>2. CASE j = n + 1
    <3>1. P.columns[j] = c
      BY <1>4, <2>2
    <3>2. \A r \in 1 .. Len(rs) : ~HasCell(P, j, r)
      <4>1. j \in Nat /\ ~(j <= n)
        BY <1>3, <2>2
      <4> QED BY <1>5, <1>6, <4>1
    <3>3. Ends(P, j)
      BY <1>1, <1>2, <1>3, <3>1, <3>2 DEF Ends
    <3>4. HasTaken(P, j, feed[s], 0)
      <4> DEFINE at == [k \in 1 .. 0 |-> 0]
      <4>1. at \in [1 .. 0 -> DOMAIN P.rows] /\ (\A k \in 1 .. 0 : FALSE) /\ (\A k \in 2 .. 0 : FALSE)
        OBVIOUS
      <4> HIDE DEF at
      <4> QED BY <1>1, <1>2, <3>2, <4>1 DEF HasTaken
    <3>5. 0 <= Len(feed[s])
      BY DEF Feed
    <3> QED BY <1>3, <3>1, <3>3, <3>4, <3>5
  <2> QED BY <1>3, <2>1, <2>2
<1>10. ASSUME InTimeAll(P, back)
       PROVE  Straight(P, feed, reached)
  <2>1. Straight(T, feed, reached) /\ s \notin back
    <3>1. ASSUME NEW j \in 1 .. n
          PROVE  T.columns[j].signal \notin back
      <4>1. j \in 1 .. n + 1 /\ P.columns[j] = T.columns[j]
        BY <1>1, <1>3, <1>4
      <4> QED BY <1>4, <1>10, <4>1 DEF InTimeAll
    <3>2. n + 1 \in 1 .. n + 1
      BY <1>3
    <3> QED BY <1>1, <1>3, <1>4, <1>6, <1>10, <3>1, <3>2 DEF InTimeAll, n
  <2>2. Sorted(P)
    BY <1>1, <2>1 DEF Straight, Sorted
  <2>3. \A r \in 1 .. Len(rs) : \E j \in 1 .. n + 1 : Every(P, j, rs[r].t)
    <3>1. \A j \in 1 .. n : j \in 1 .. n + 1
      BY <1>3
    <3>2. \A r \in 1 .. Len(rs) : \E j \in 1 .. n : Every(T, j, rs[r].t)
      BY <1>1, <2>1 DEF Straight, n
    <3> QED BY <1>8, <3>1, <3>2
  <2>4. ASSUME NEW j \in 1 .. n + 1
        PROVE  Column(P, j, feed[P.columns[j].signal], reached[P.columns[j].signal])
    <3>1. CASE j \in 1 .. n
      <4>1. P.columns[j] = cs[j] /\ T.columns[j] = cs[j]
        BY <1>1, <1>4, <3>1
      <4> DEFINE of == feed[cs[j].signal]
                 limit == reached[cs[j].signal]
      <4>2. Column(T, j, of, limit)
        BY <1>1, <2>1, <3>1 DEF Straight, n
      <4> HIDE DEF of, limit
      <4>3. Column(P, j, of, limit)
        BY <1>1, <1>5, <4>1, <4>2 DEF Column
      <4> QED BY <4>1, <4>3 DEF of, limit
    <3>2. CASE j = n + 1
      <4>1. P.columns[j] = c /\ ~(c.last > 0)
        BY <1>3, <1>4, <3>2
      <4>2. \A r \in 1 .. Len(rs) : ~HasCell(P, j, r)
        <5>1. j \in Nat /\ ~(j <= n)
          BY <1>3, <3>2
        <5> QED BY <1>5, <1>6, <5>1
      <4> QED BY <1>1, <4>1, <4>2 DEF Column
    <3> QED BY <1>3, <3>1, <3>2
  <2> QED BY <1>1, <1>4, <2>2, <2>3, <2>4 DEF Straight
<1>11. \A r \in 1 .. Len(rs) : \A j \in Nat : HasCell(P, j, r) => j <= n + 1
  BY <1>3, <1>5, <1>6
<1>12. Merged(P, feed, gone, back, reached)
  BY <1>1, <1>4, <1>5, <1>9, <1>10, <1>11 DEF Merged
<1> QED BY <1>12 DEF P, c

(* The times the signals have reached.                                     *)
Times == [s \in Signals |-> Reached(s)]

(* Every column has a connection of its signal, and once no event is under *)
(* way each has taken all the samples but for those of a packet that is    *)
(* being pushed.                                                           *)
TableOpen ==
  /\ clears \in Seq(Signals) /\ queued \in Nat /\ listening \in [Signals -> Nat]
  /\ Merged(Table, samples, Range(clears), backward, Times)
  /\ \A j \in 1 .. Len(columns) :
       /\ listening[columns[j].signal] >= 1
       /\ queued = 0 /\ packet[columns[j].signal] = NoPacket =>
            columns[j].next >= Len(samples[columns[j].signal])
TableInv == IF open = "table" THEN TableOpen ELSE columns = <<>> /\ rows = <<>>

(* What TimesInv says of the samples.                                      *)
LEMMA FeedIs ==
  ASSUME TimesInv
  PROVE  Feed(samples, backward, Times) /\ \A s \in Signals : Count(s) = Len(samples[s]) /\ Count(s) \in Nat
<1>1. ASSUME NEW s \in Signals
      PROVE  /\ Len(samples[s]) \in Nat
             /\ \A k \in 1 .. Len(samples[s]) : samples[s][k] \in StoredSamples
             /\ s \notin backward =>
                  /\ \A k \in 1 .. Len(samples[s]) : samples[s][k].t <= Times[s]
                  /\ \A k \in 2 .. Len(samples[s]) : samples[s][k - 1].t <= samples[s][k].t
  <2>1. samples[s] \in Seq(StoredSamples)
    BY DEF TimesInv, SignalsInv
  <2>2. Len(samples[s]) \in Nat
    BY <2>1, LenProperties
  <2>3. \A k \in 1 .. Len(samples[s]) : samples[s][k] \in StoredSamples
    BY <2>1, ElementOfSeq
  <2>4. Ordered(s) /\ Times[s] = Reached(s)
    BY DEF TimesInv, Times
  <2> QED BY <2>2, <2>3, <2>4 DEF Ordered, Count
<1> QED BY <1>1 DEF Feed, Count

LEMMA TableInit == Init => TableInv
<1> SUFFICES ASSUME Init
             PROVE  TableInv
  OBVIOUS
<1>1. /\ columns = <<>> /\ rows = <<>> /\ listening = [s \in Signals |-> 0]
      /\ clears = <<>> /\ queued = 0
  BY DEF Init, InitDataView, InitSource
<1>2. IsTable(Table) /\ Len(Table.rows) = 0 /\ Len(Table.columns) = 0 /\ Len(columns) = 0
  BY <1>1 DEF Table, IsTable
<1>3. (\A r \in 1 .. 0 : FALSE)
  OBVIOUS
<1>4. Straight(Table, samples, Times)
  BY <1>2, <1>3 DEF Straight, Sorted
<1>5. Merged(Table, samples, Range(clears), backward, Times)
  BY <1>2, <1>3, <1>4 DEF Merged
<1>6. TableOpen
  BY <1>1, <1>2, <1>3, <1>5 DEF TableOpen
<1> QED BY <1>1, <1>6 DEF TableInv

LEMMA TablePush ==
  ASSUME TimesInv, TableOpen, NEW s \in Signals, NEW x, Comes(s, x), SignalsInv', UNCHANGED dataVars
  PROVE  TableOpen'
<1>1. /\ samples'[s] = Append(samples[s], x) /\ Len(samples'[s]) = Len(samples[s]) + 1
      /\ samples'[s][Len(samples[s]) + 1] = x
      /\ \A k \in 1 .. Len(samples[s]) : samples'[s][k] = samples[s][k]
      /\ Len(samples[s]) \in Nat /\ Reached(s) \in Nat
      /\ \A o \in Signals : o # s => samples'[o] = samples[o] /\ Reached(o)' = Reached(o)
  BY ComesIs DEF TimesInv
<1>2. /\ x \in StoredSamples /\ x.t \in Nat
      /\ UNCHANGED <<clears, listening>>
      /\ backward \subseteq backward'
      /\ s \notin backward' => Reached(s) <= x.t /\ x.t <= Reached(s)'
      /\ \A o \in Signals : o # s => packet'[o] = packet[o]
      /\ \/ queued' = queued + listening[s]
         \/ queued' = queued /\ packet'[s] # NoPacket
  BY DEF Comes, StoredSamples
<1>3. UNCHANGED <<columns, rows, Table>>
  BY DEF dataVars, Table
<1>4. /\ queued \in Nat /\ listening \in [Signals -> Nat] /\ clears \in Seq(Signals)
      /\ Merged(Table, samples, Range(clears), backward, Times)
  BY DEF TableOpen
<1>5. ASSUME NEW o \in Signals
      PROVE  /\ Len(samples[o]) \in Nat /\ Reached(o) \in Nat /\ Reached(o)' \in Nat
             /\ Times[o] = Reached(o) /\ Times'[o] = Reached(o)'
  <2>1. Len(samples[o]) \in Nat
    BY FeedIs
  <2>2. latest[o] \in StoredSamples /\ packet[o] \in Underway \cup {NoPacket}
    BY DEF TimesInv, SignalsInv
  <2>3. latest'[o] \in StoredSamples /\ packet'[o] \in Underway \cup {NoPacket}
    BY DEF SignalsInv
  <2>4. Reached(o) \in Nat /\ Reached(o)' \in Nat
    BY <2>2, <2>3 DEF Reached, StoredSamples, Underway, NoPacket
  <2> QED BY <2>1, <2>4 DEF Times
<1>6. ASSUME NEW o \in Signals
      PROVE  /\ Len(samples[o]) \in Nat /\ Len(samples'[o]) \in Nat
             /\ Len(samples[o]) <= Len(samples'[o])
             /\ \A k \in 1 .. Len(samples[o]) : samples'[o][k] = samples[o][k]
             /\ o \notin backward' =>
                  /\ Times[o] \in Nat
                  /\ \A k \in 1 .. Len(samples'[o]) :
                       \/ k <= Len(samples[o]) /\ samples'[o][k] = samples[o][k]
                       \/ samples'[o][k].t \in Nat /\ Times[o] <= samples'[o][k].t
  <2>1. CASE o = s
    <3> DEFINE new == samples'[s]
               old == samples[s]
               n == Len(old)
    <3>1. n \in Nat /\ Len(new) = n + 1 /\ new[n + 1] = x /\ \A k \in 1 .. n : new[k] = old[k]
      BY <1>1
    <3>2. Times[s] = Reached(s) /\ Reached(s) \in Nat
      BY <1>5
    <3>3. Len(old) = n
      OBVIOUS
    <3> HIDE DEF new, old, n
    <3>4. \A k \in 1 .. n + 1 : k \in 1 .. n \/ k = n + 1
      BY <3>1
    <3>5. /\ Len(old) \in Nat /\ Len(new) \in Nat /\ Len(old) <= Len(new)
          /\ \A k \in 1 .. Len(old) : new[k] = old[k]
      BY <3>1, <3>3
    <3>6. ASSUME s \notin backward', NEW k \in 1 .. Len(new)
          PROVE  \/ k <= Len(old) /\ new[k] = old[k]
                 \/ new[k].t \in Nat /\ Times[s] <= new[k].t
      <4>1. CASE k = n + 1
        BY <1>2, <3>1, <3>2, <3>6, <4>1
      <4>2. CASE k \in 1 .. n
        BY <3>1, <3>3, <4>2
      <4> QED BY <3>1, <3>4, <3>6, <4>1, <4>2
    <3> QED BY <2>1, <3>2, <3>5, <3>6 DEF new, old
  <2>2. CASE o # s
    BY <1>1, <1>5, <2>2
  <2> QED BY <2>1, <2>2
<1>7. ASSUME NEW o \in Signals, o \notin backward'
      PROVE  Times'[o] \in Nat /\ Times[o] <= Times'[o]
  <2>1. CASE o = s
    <3>1. Reached(s) \in Nat /\ Reached(s)' \in Nat /\ Times[s] = Reached(s) /\ Times'[s] = Reached(s)'
      BY <1>5
    <3>2. Reached(s) <= x.t /\ x.t <= Reached(s)'
      BY <1>2, <1>7, <2>1
    <3> QED BY <1>2, <2>1, <3>1, <3>2
  <2>2. CASE o # s
    <3>1. Reached(o) \in Nat /\ Times[o] = Reached(o) /\ Times'[o] = Reached(o)' /\ Reached(o)' = Reached(o)
      BY <1>1, <1>5, <2>2
    <3> QED BY <3>1
  <2> QED BY <2>1, <2>2
<1>8. Merged(Table, samples', Range(clears), backward', Times')
  <2>1. Later(samples, samples', Range(clears), backward', Times)
    BY <1>6 DEF Later
  <2>2. Range(clears) \subseteq Range(clears)
    OBVIOUS
  <2> QED BY ONLY <1>2, <1>4, <1>7, <2>1, <2>2, MergedLater
<1>9. queued' \in Nat
  BY <1>2, <1>4
<1>10. ASSUME NEW j \in 1 .. Len(columns), queued' = 0, packet'[columns[j].signal] = NoPacket
       PROVE  columns[j].next >= Len(samples'[columns[j].signal])
  <2>1. columns[j].signal \in Signals /\ listening[columns[j].signal] >= 1
    <3>1. IsTable(Table) /\ Table.columns = columns
      BY <1>4 DEF Merged, Table
    <3> QED BY <3>1, RowTimes DEF TableOpen
  <2>2. columns[j].signal # s /\ queued = 0
    <3>1. listening[s] \in Nat
      BY <1>4
    <3> QED BY <1>2, <1>4, <1>10, <2>1, <3>1
  <2>3. /\ samples'[columns[j].signal] = samples[columns[j].signal]
        /\ packet'[columns[j].signal] = packet[columns[j].signal]
    BY <1>1, <1>2, <2>1, <2>2
  <2> QED BY <1>10, <2>2, <2>3 DEF TableOpen
<1>11. Merged(Table, samples, Range(clears), backward, Times)'
  BY <1>2, <1>3, <1>8
<1> QED BY <1>2, <1>3, <1>4, <1>9, <1>10, <1>11 DEF TableOpen

LEMMA TableClear ==
  ASSUME TimesInv, TableOpen, NEW s \in Signals, ClearSignal(s), UNCHANGED dataVars
  PROVE  TableOpen'
<1>1. /\ samples' = [samples EXCEPT ![s] = <<>>]
      /\ clears' = Append(clears, s) /\ UNCHANGED <<queued, listening, latest, packet, backward>>
  BY DEF ClearSignal, pushVars
<1>2. Times' = Times
  BY <1>1 DEF Times, Reached
<1>3. UNCHANGED <<columns, rows, Table>>
  BY DEF dataVars, Table
<1>4. /\ queued \in Nat /\ listening \in [Signals -> Nat] /\ clears \in Seq(Signals)
      /\ Merged(Table, samples, Range(clears), backward, Times)
  BY DEF TableOpen
<1>5. ASSUME NEW o \in Signals
      PROVE  Len(samples[o]) \in Nat /\ Times[o] \in Nat /\ Times[o] <= Times[o]
  <2>1. Len(samples[o]) \in Nat
    BY FeedIs
  <2>2. latest[o] \in StoredSamples /\ packet[o] \in Underway \cup {NoPacket}
    BY DEF TimesInv, SignalsInv
  <2>3. Times[o] \in Nat
    BY <2>2 DEF Times, Reached, StoredSamples, Underway, NoPacket
  <2> QED BY <2>1, <2>3
<1>6. \A o \in Signals : samples'[o] = IF o = s THEN <<>> ELSE samples[o]
  BY <1>1 DEF TimesInv, SignalsInv
<1>7. Range(clears) \subseteq Range(clears') /\ s \in Range(clears') /\ clears' \in Seq(Signals)
  <2>1. Range(clears) \subseteq Signals
    BY <1>4 DEF Range
  <2>2. \A c \in Signals : Cleared(c) => Cleared(c)'
    BY <1>1, <1>4, ClearedStays
  <2>3. Cleared(s)' /\ clears' \in Seq(Signals)
    BY <1>1, <1>4, ClearedStays
  <2> QED BY <2>1, <2>2, <2>3 DEF Cleared
<1>8. ASSUME NEW o \in Signals
      PROVE  /\ Len(samples[o]) \in Nat /\ Len(samples'[o]) \in Nat
             /\ o \notin Range(clears') =>
                  Len(samples[o]) <= Len(samples'[o]) /\ \A k \in 1 .. Len(samples[o]) : samples'[o][k] = samples[o][k]
             /\ o \notin backward =>
                  /\ Times[o] \in Nat
                  /\ \A k \in 1 .. Len(samples'[o]) :
                       \/ k <= Len(samples[o]) /\ samples'[o][k] = samples[o][k]
                       \/ samples'[o][k].t \in Nat /\ Times[o] <= samples'[o][k].t
  <2>1. CASE o = s
    <3>1. samples'[o] = <<>> /\ Len(samples'[o]) = 0
      BY <1>6, <2>1
    <3>2. 1 .. Len(samples'[o]) = {}
      BY <3>1
    <3> QED BY <1>5, <1>7, <2>1, <3>1, <3>2
  <2>2. CASE o # s
    BY <1>5, <1>6, <2>2
  <2> QED BY <2>1, <2>2
<1>9. Merged(Table, samples', Range(clears'), backward, Times)
  <2>1. Later(samples, samples', Range(clears'), backward, Times)
    BY <1>8 DEF Later
  <2>2. Range(clears) \subseteq Range(clears') /\ backward \subseteq backward
    BY <1>7
  <2> QED BY ONLY <1>4, <1>5, <2>1, <2>2, MergedLater
<1>10. ASSUME NEW j \in 1 .. Len(columns), queued = 0, packet[columns[j].signal] = NoPacket
       PROVE  columns[j].next >= Len(samples'[columns[j].signal])
  <2>1. columns[j].signal \in Signals /\ columns[j].next \in Nat
    <3>1. IsTable(Table) /\ Table.columns = columns
      BY <1>4 DEF Merged, Table
    <3> QED BY <3>1, RowTimes
  <2>2. CASE columns[j].signal = s
    <3>1. Len(samples'[columns[j].signal]) = 0
      BY <1>6, <2>1, <2>2
    <3> QED BY <1>3, <2>1, <3>1
  <2>3. CASE columns[j].signal # s
    <3>1. samples'[columns[j].signal] = samples[columns[j].signal]
      BY <1>6, <2>1, <2>3
    <3> QED BY <1>3, <1>10, <3>1 DEF TableOpen
  <2> QED BY <2>2, <2>3
<1>11. Merged(Table, samples, Range(clears), backward, Times)'
  BY <1>1, <1>2, <1>3, <1>9
<1> QED BY <1>1, <1>3, <1>4, <1>7, <1>10, <1>11 DEF TableOpen

(* populate_table(), of a table with or without a new column.              *)
LEMMA PopulateStep ==
  ASSUME TimesInv, NEW table, Merged(table, samples, Range(clears), backward, Times),
         PopulateTable(table), UNCHANGED <<samples, clears, latest, packet, backward>>
  PROVE  /\ Merged(Table, samples, Range(clears), backward, Times)'
         /\ Len(columns') = Len(table.columns)
         /\ \A j \in 1 .. Len(table.columns) :
              /\ columns'[j].signal = table.columns[j].signal
              /\ columns'[j].next >= Len(samples'[columns'[j].signal])
<1> DEFINE P == Filled(table)[Len(table.columns)]
<1>1. Merged(P, samples, Range(clears), backward, Times) /\ AllTaken(table, P)
  BY FeedIs, FilledMerges
<1>2. columns' = P.columns /\ rows' = P.rows
  BY DEF PopulateTable
<1> HIDE DEF P
<1>3. P = [columns |-> P.columns, rows |-> P.rows]
  BY <1>1 DEF Merged, IsTable
<1>4. Table' = P /\ Times' = Times
  BY <1>2, <1>3 DEF Table, Times, Reached
<1>5. Merged(Table, samples, Range(clears), backward, Times)'
  BY <1>1, <1>4
<1> QED BY <1>1, <1>2, <1>5 DEF AllTaken, Count

LEMMA AddSignalStep ==
  ASSUME TimesInv, TableOpen, NEW s \in Signals, AddSignal(s)
  PROVE  TableOpen'
<1> DEFINE c == [signal |-> s, next |-> 0, last |-> 0]
           P == [columns |-> Append(columns, c), rows |-> rows]
<1>1. /\ PopulateTable(P) /\ listening' = [listening EXCEPT ![s] = listening[s] + 1]
      /\ UNCHANGED <<samples, clears, latest, packet, backward, queued>>
  <2>1. [Table EXCEPT !.columns = Append(@, c)] = P
    BY DEF Table
  <2>2. PopulateTable([Table EXCEPT !.columns = Append(@, c)])
    BY DEF AddSignal
  <2> HIDE DEF P
  <2> QED BY <2>1, <2>2 DEF AddSignal, Listen, pushVars
<1>2. /\ queued \in Nat /\ listening \in [Signals -> Nat] /\ clears \in Seq(Signals)
      /\ Merged([columns |-> columns, rows |-> rows], samples, Range(clears), backward, Times)
  BY DEF TableOpen, Table
<1>3. Feed(samples, backward, Times)
  BY FeedIs
<1>4. Merged(P, samples, Range(clears), backward, Times) /\ P.columns = Append(columns, c)
  BY <1>2, <1>3, NewColumn
<1>5. columns \in Seq(Taker) /\ c \in Taker /\ c.signal = s
  BY <1>2 DEF Merged, IsTable, Taker
<1> HIDE DEF P, c
<1>6. /\ Len(P.columns) = Len(columns) + 1 /\ P.columns[Len(columns) + 1] = c /\ Len(columns) \in Nat
      /\ \A j \in 1 .. Len(columns) : P.columns[j] = columns[j]
  BY <1>4, <1>5, LenProperties
<1>7. /\ Merged(Table, samples, Range(clears), backward, Times)'
      /\ Len(columns') = Len(P.columns)
      /\ \A j \in 1 .. Len(P.columns) :
           columns'[j].signal = P.columns[j].signal /\ columns'[j].next >= Len(samples'[columns'[j].signal])
  BY <1>1, <1>4, PopulateStep
<1>8. listening' \in [Signals -> Nat] /\ listening'[s] >= 1 /\ \A o \in Signals : listening[o] >= 1 => listening'[o] >= 1
  BY <1>1, <1>2
<1>9. ASSUME NEW j \in 1 .. Len(columns')
      PROVE  listening'[columns'[j].signal] >= 1 /\ columns'[j].next >= Len(samples'[columns'[j].signal])
  <2>1. j \in 1 .. Len(P.columns) /\ (j \in 1 .. Len(columns) \/ j = Len(columns) + 1)
    BY <1>6, <1>7
  <2>2. CASE j \in 1 .. Len(columns)
    <3>1. columns'[j].signal = columns[j].signal /\ columns[j].signal \in Signals
      <4>1. columns[j] \in Taker
        BY <1>5, <2>2, ElementOfSeq
      <4>2. columns'[j].signal = P.columns[j].signal /\ P.columns[j] = columns[j]
        BY <1>6, <1>7, <2>1, <2>2
      <4> QED BY <4>1, <4>2 DEF Taker
    <3>2. listening[columns[j].signal] >= 1
      BY <2>2 DEF TableOpen
    <3> QED BY <1>7, <1>8, <2>1, <3>1, <3>2
  <2>3. CASE j = Len(columns) + 1
    BY <1>5, <1>6, <1>7, <1>8, <2>1, <2>3
  <2> QED BY <2>1, <2>2, <2>3
<1> QED BY <1>1, <1>2, <1>7, <1>8, <1>9 DEF TableOpen

LEMMA OnTableEventStep ==
  ASSUME TimesInv, TableOpen, OnTableEvent
  PROVE  TableOpen'
<1>1. /\ PopulateTable(Table) /\ queued > 0 /\ queued' = queued - 1
      /\ UNCHANGED <<samples, clears, latest, packet, backward, listening>>
  BY DEF OnTableEvent, TakeEvent, pushVars
<1>2. /\ queued \in Nat /\ listening \in [Signals -> Nat] /\ clears \in Seq(Signals)
      /\ Merged(Table, samples, Range(clears), backward, Times) /\ Table.columns = columns
      /\ \A j \in 1 .. Len(columns) : listening[columns[j].signal] >= 1
  BY DEF TableOpen, Table
<1>3. /\ Merged(Table, samples, Range(clears), backward, Times)'
      /\ Len(columns') = Len(Table.columns)
      /\ \A j \in 1 .. Len(Table.columns) :
           columns'[j].signal = Table.columns[j].signal /\ columns'[j].next >= Len(samples'[columns'[j].signal])
  BY <1>1, <1>2, PopulateStep
<1>4. queued' \in Nat
  BY <1>1, <1>2
<1>5. \A j \in 1 .. Len(columns') : columns'[j].signal = columns[j].signal
  BY <1>2, <1>3
<1> QED BY <1>1, <1>2, <1>3, <1>4, <1>5 DEF TableOpen

LEMMA TableStep == TimesInv /\ TimesInv' /\ TableInv /\ [Next]_vars => TableInv'
<1> SUFFICES ASSUME TimesInv, TimesInv', TableInv, [Next]_vars
             PROVE  TableInv'
  OBVIOUS
<1>1. open' = open
  BY DEF Next, vars
<1>2. CASE open # "table"
  <2>1. UNCHANGED <<columns, rows>>
    BY <1>2 DEF Next, Others, dataVars, vars
  <2> QED BY <1>1, <1>2, <2>1 DEF TableInv
<1>3. CASE open = "table"
  <2>1. TableOpen
    BY <1>3 DEF TableInv
  <2>2. CASE World /\ Others
    <3>1. SamplesCome /\ UNCHANGED dataVars
      BY <1>3, <2>2 DEF World, Others
    <3>2. SignalsInv /\ SignalsInv'
      BY DEF TimesInv
    <3>3. PICK s \in Signals : ClearSignal(s) \/ \E x : Comes(s, x)
      BY <3>1, <3>2, SamplesComeSo
    <3>4. TableOpen'
      BY <2>1, <3>1, <3>2, <3>3, TablePush, TableClear
    <3> QED BY <1>1, <1>3, <3>4 DEF TableInv
  <2>3. CASE DataViewNext
    <3>1. TableOpen'
      BY <2>1, <2>3, AddSignalStep, OnTableEventStep DEF DataViewNext
    <3> QED BY <1>1, <1>3, <3>1 DEF TableInv
  <2>4. CASE UNCHANGED vars
    <3>1. UNCHANGED <<samples, clears, latest, packet, backward, listening, queued, columns, rows>>
      BY <2>4 DEF vars, sourceVars, dataVars, pushVars
    <3>2. Table' = Table /\ Times' = Times
      BY <3>1 DEF Table, Times, Reached
    <3>3. Merged(Table, samples, Range(clears), backward, Times)'
      BY <2>1, <3>1, <3>2 DEF TableOpen
    <3>4. TableOpen'
      BY <2>1, <3>1, <3>3 DEF TableOpen
    <3> QED BY <1>1, <1>3, <3>4 DEF TableInv
  <2> QED BY <1>3, <2>2, <2>3, <2>4 DEF Next
<1> QED BY <1>2, <1>3

LEMMA TableIsRight ==
  ASSUME TimesInv, TableInv
  PROVE  TableIsMerged
<1>1. CASE open # "table"
  BY <1>1 DEF TableInv, TableIsMerged
<1>2. CASE open = "table"
  <2>1. /\ TableOpen /\ Merged(Table, samples, Range(clears), backward, Times)
        /\ Table.columns = columns /\ Table.rows = rows
    BY <1>2 DEF TableInv, TableOpen, Table
  <2>2. IsTable(Table)
    BY <2>1 DEF Merged
  <2>3. /\ Len(rows) \in Nat /\ Len(columns) \in Nat /\ DOMAIN rows = 1 .. Len(rows) /\ DOMAIN columns = 1 .. Len(columns)
        /\ \A j \in 1 .. Len(columns) : columns[j].signal \in Signals /\ columns[j].next \in Nat
    BY <2>1, <2>2, RowTimes
  <2>4. ASSUME NoneBackward
        PROVE  /\ \A r \in 2 .. Len(rows) : rows[r - 1].t <= rows[r].t
               /\ \A r \in DOMAIN rows :
                    \E i \in DOMAIN columns :
                      \A q \in DOMAIN rows : rows[q].t = rows[r].t => HasCell(Table, i, q)
    <3>1. Straight(Table, samples, Times)
      <4>1. InTimeAll(Table, backward)
        BY <2>1, <2>3, <2>4 DEF NoneBackward, InTimeAll
      <4> QED BY <2>1, <4>1 DEF Merged
    <3>2. \A r \in 2 .. Len(rows) : r - 1 \in 1 .. Len(rows) /\ r \in 1 .. Len(rows) /\ r - 1 <= r
      BY <2>3
    <3>3. \A r \in 2 .. Len(rows) : rows[r - 1].t <= rows[r].t
      BY <2>1, <3>1, <3>2 DEF Straight, Sorted
    <3>4. \A r \in DOMAIN rows :
            \E i \in DOMAIN columns :
              \A q \in DOMAIN rows : rows[q].t = rows[r].t => HasCell(Table, i, q)
      BY <2>1, <2>3, <3>1 DEF Straight, Every
    <3> QED BY <3>3, <3>4
  <2>5. ASSUME NEW i \in DOMAIN columns, ~Cleared(columns[i].signal)
        PROVE  \E n \in 0 .. Len(samples[columns[i].signal]) :
                  /\ Still => n = Len(samples[columns[i].signal])
                  /\ HasTaken(Table, i, samples[columns[i].signal], n)
    <3> DEFINE of == samples[columns[i].signal]
               n == columns[i].next
    <3>1. n \in Nat /\ n <= Len(of) /\ HasTaken(Table, i, of, n)
      BY <2>1, <2>3, <2>5 DEF Merged, Cleared
    <3>2. Len(of) \in Nat /\ (Still => n >= Len(of))
      BY <2>1, <2>3, FeedIs DEF TableOpen, Still
    <3> HIDE DEF of, n
    <3>3. n \in 0 .. Len(of) /\ (Still => n = Len(of))
      BY <3>1, <3>2
    <3> QED BY <3>1, <3>3 DEF of
  <2> QED BY <2>4, <2>5 DEF TableIsMerged
<1> QED BY <1>1, <1>2

(* However packets and events of the signals interleave with deletions and *)
(* new columns, the table has the samples of its signals, all of them once *)
(* nothing is under way, and it is their merge in order of time unless a   *)
(* packet came from before the last (populate_table()).                    *)
THEOREM TablesAreMerged == Spec => []TableIsMerged
<1>1. TimesInv /\ TableInv => TableIsMerged
  BY TableIsRight
<1> QED
  BY <1>1, TimesInit, TimesStep, TableInit, TableStep, PTL DEF Spec
=============================================================================
