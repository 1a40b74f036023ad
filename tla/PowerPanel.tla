----------------------------- MODULE PowerPanel -----------------------------
(***************************************************************************)
(* The power panel view: a timer reads the last values of a voltage and a  *)
(* current signal, keeps their extrema, and sums up charge and energy.     *)
(***************************************************************************)
EXTENDS SignalSource, MonoFontDisplay

CONSTANTS
  NoSignal,
  MaxUpdates,   (* bound: timeouts                                         *)
  MaxResets     (* bound: resets by the user, and new signals              *)

ASSUME PanelAssumption == NoSignal \notin Signals

VARIABLES
  voltage, current,   (* voltage_signal_, current_signal_                  *)
  start, last,        (* start_time_, last_time_                           *)
  lo, hi,             (* the extrema of the four readings                  *)
  charge, energy,     (* actual_amp_hours_, actual_watt_hours_             *)
  displays,           (* voltage_display_ and voltage_max_display_         *)
  updates, resets     (* timeouts and resets so far                        *)

panelVars == <<voltage, current, start, last, lo, hi, charge, energy, displays, updates, resets>>

Readings == {"voltage", "current", "resistance", "power"}
Highest  == [r \in Readings |-> Overflow]
Lowest   == [r \in Readings |-> -Overflow]

InitPowerPanel ==
  /\ voltage = NoSignal /\ current = NoSignal
  /\ start = 1 /\ last = 1
  /\ lo = Highest /\ hi = Lowest /\ charge = 0 /\ energy = 0
  /\ displays = [voltage |-> NewDisplay("AutoRangeWithSRDigits"), max |-> NewDisplay("AutoRange")]
  /\ updates = 0 /\ resets = 0

-----------------------------------------------------------------------------
(* Mutant: the time of the last update is kept.                            *)
InitTimerKeepsTime ==
  /\ start' = now /\ last' = last
  /\ lo' = Highest /\ hi' = Lowest /\ charge' = 0 /\ energy' = 0
(* init_timer(): everything counts from now on.                            *)
InitTimer ==
  /\ start' = now /\ last' = now
  /\ lo' = Highest /\ hi' = Lowest /\ charge' = 0 /\ energy' = 0

ResetDisplays == [d \in DOMAIN displays |-> ResetValue(displays[d])]

(* init_displays() sets units, flags and digits one by one, each of which  *)
(* shows the value again.                                                  *)
InitDisplays(v) ==
  [voltage |-> SetSrDigits(SetUnit(displays.voltage), digits[v]),
   max     |-> SetDecimalPlaces(SetUnit(displays.max), 2)]

SetSignals(v, i) ==
  /\ resets < MaxResets /\ resets' = resets + 1
  /\ voltage' = v /\ current' = i
  /\ InitTimer
  /\ displays' = InitDisplays(v)
  /\ watched' = {v, i}
  /\ UNCHANGED <<samples, pushVars, digits, now, clears, listening, queued, announced, updates>>

ResetDisplaysTriggered ==
  /\ resets < MaxResets /\ resets' = resets + 1
  /\ InitTimer
  /\ displays' = ResetDisplays
  /\ UNCHANGED <<sourceVars, voltage, current, updates>>

LastValue(s) == latest[s].v
Read ==
  LET v == LastValue(voltage)
      i == LastValue(current)
  IN  [voltage |-> v, current |-> i, power |-> v * i,
       resistance |-> IF i = 0 THEN Overflow ELSE Quotient(IF i < 0 THEN -v ELSE v, Abs(i))]

(* The time that has passed counts with the values of now; with an empty   *)
(* signal the update returns and leaves the time to the next one.          *)
OnUpdate(gap) ==
  LET read    == Read
      elapsed == now' - last
  IN  /\ updates < MaxUpdates /\ updates' = updates + 1
      /\ now' = now + gap
      /\ IF voltage = NoSignal \/ Count(voltage) = 0 \/ Count(current) = 0
         THEN UNCHANGED <<last, lo, hi, charge, energy, displays>>
         ELSE /\ last' = now'
              /\ lo' = [r \in Readings |-> Min({lo[r], read[r]})]
              /\ hi' = [r \in Readings |-> Max({hi[r], read[r]})]
              /\ charge' = charge + read.current * elapsed
              /\ energy' = energy + read.power * elapsed
              /\ displays' = [voltage |-> SetValue(displays.voltage, read.voltage),
                              max     |-> SetValue(displays.max, hi'["voltage"])]
      /\ UNCHANGED <<samples, digitVars, pushVars, clears, listening, queued, voltage, current, start, resets>>

OnDigitsChanged ==
  /\ announced > 0 /\ announced' = 0
  /\ displays' = [displays EXCEPT !.voltage = SetSrDigits(@, digits[voltage])]
  /\ UNCHANGED <<samples, pushVars, digits, now, clears, listening, queued, watched,
                 voltage, current, start, last, lo, hi, charge, energy, updates, resets>>

PowerPanelNext ==
  \/ \E v, i \in Signals : SetSignals(v, i)
  \/ ResetDisplaysTriggered
  \/ \E gap \in Gaps : OnUpdate(gap)
  \/ OnDigitsChanged

-----------------------------------------------------------------------------
(* However resets, new signals, late timers and empty signals follow each  *)
(* other, what is summed up belongs to the extrema beside it: the mean     *)
(* current and the mean power since the last reset lie between the lowest  *)
(* and the highest that were read.                                         *)
Between(sum, r) == lo[r] * (last - start) <= sum /\ sum <= hi[r] * (last - start)
MeanIsBetweenExtremes ==
  last > start => Between(charge, "current") /\ Between(energy, "power")

(* The displays of the panel read true, after any sequence of values,      *)
(* digits and resets.                                                      *)
ReadingsAreTrue == \A d \in DOMAIN displays : ReadsTrue(displays[d])
=============================================================================
