------------------------ MODULE CombineSignalsProofs ------------------------
(***************************************************************************)
(* Proofs about AnalogTimeSignal::combine_signals(), for any two signals   *)
(* whose time stamps increase, any values and any number of samples, and   *)
(* whatever is pushed between two of its steps: it never reads a value     *)
(* that is not there yet, it combines the right values, in order, and      *)
(* leaves nothing out.                                                     *)
(***************************************************************************)
EXTENDS CombineSignals, WellFoundedInduction, TLAPS

Guis == {"idle", "skip", "merge"}

SignalTypes ==
  /\ time \in [Signals -> Seq(Times)] /\ data \in [Signals -> Seq(Nat)]
  /\ count \in [Signals -> Nat] /\ pos \in [Signals -> Nat]
  /\ queued \in Nat /\ gui \in Guis

(* A push makes the time visible first, then the value, and then counts.   *)
PushOrder ==
  \A i \in Signals : /\ pos[i] <= count[i] /\ count[i] <= Len(data[i])
                     /\ Len(data[i]) <= Len(time[i])

BoundsInv == SignalTypes /\ PushOrder

-----------------------------------------------------------------------------
(* The positions                                                           *)

Increasing == \A i \in Signals : \A k, l \in DOMAIN time[i] : k < l => time[i][k] < time[i][l]

(* What has been passed in one signal is older than what has not in the    *)
(* other, also than what is pushed later: there was a sample not older.    *)
PassedIsOlder ==
  \A i \in Signals : \A l \in 1..pos[i] :
    /\ \A k \in DOMAIN time[Other(i)] : k > pos[Other(i)] => time[i][l] < time[Other(i)][k]
    /\ \E k \in DOMAIN time[Other(i)] : time[i][l] <= time[Other(i)][k]

(* While nothing of signal i has been passed, the other signal is behind   *)
(* it between two calls; what was passed there is not in the range of i.   *)
StartInv ==
  \A i \in Signals : LET j == Other(i) IN
    pos[i] = 0 /\ pos[j] > 0 =>
      /\ time[i] # <<>> /\ Available(j)
      /\ IF gui = "merge" THEN Available(i) ELSE time[j][pos[j] + 1] < time[i][1]

OrderInv == Increasing /\ PassedIsOlder /\ StartInv

-----------------------------------------------------------------------------
(* What has been combined                                                  *)

Multiples == \A i \in Signals : \A k \in DOMAIN data[i] : \E m \in Nat : data[i][k] = m * Scale

OutType == out \in Seq([t : Times, v : [Signals -> Int]])

(* A time stamp that was combined has been passed in one of the signals,   *)
(* and one that was passed has been combined unless it was too early.      *)
OutIsPassed ==
  /\ \A k \in DOMAIN out : \E i \in Signals : \E l \in 1..pos[i] : out[k].t = time[i][l]
  /\ \A i \in Signals : \A l \in 1..pos[i] :
       \/ \E k \in DOMAIN out : out[k].t = time[i][l]
       \/ time[i][l] < time[Other(i)][1]

OutIsInRange == \A k \in DOMAIN out : \A i \in Signals : InRange(i, out[k].t)

OutIsInOrder == \A k \in 2..Len(out) : out[k - 1].t < out[k].t

OutInv == Multiples /\ OutType /\ OutIsPassed /\ OutIsInRange /\ OutIsInOrder /\ CombinedIsRight

-----------------------------------------------------------------------------
(* When a call ends                                                        *)

(* Signal i is at its last sample, which is older than all of the other.   *)
Waits(i) ==
  /\ pos[Other(i)] = 0 /\ time[Other(i)] # <<>>
  /\ pos[i] + 1 = count[i] /\ time[i][count[i]] < time[Other(i)][1]

Done ==
  \/ \E i \in Signals : count[i] = 0 \/ ~Available(i)
  \/ \E i \in Signals : Waits(i)

DoneInv ==
  queued = 0 =>
    /\ gui = "idle" => Done
    /\ gui = "merge" => \A i \in Signals :
         pos[Other(i)] = 0 /\ Available(1) /\ Available(2) /\ TimeOf(i) < TimeOf(Other(i)) => Waits(i)

CombineInv == BoundsInv /\ OrderInv /\ OutInv /\ DoneInv

-----------------------------------------------------------------------------
(* A set of natural numbers that is not empty has a least element.         *)
LEMMA NatMin ==
  ASSUME NEW S \in SUBSET Nat, S # {}
  PROVE  \E m \in S : \A k \in S : m <= k
<1>1. PICK R : /\ IsWellFoundedOn(R, Nat)
               /\ \A k, m \in Nat : k < m => <<k, m>> \in R
  <2>1. \A k, m \in Nat : k < m => <<k, m>> \in OpToRel(<, Nat)
    BY SMT DEF OpToRel
  <2> QED BY <2>1, NatLessThanWellFounded, Zenon
<1>2. PICK m \in S : \A k \in S : ~ (<<k, m>> \in R)
  <2>1. S \subseteq Nat
    OBVIOUS
  <2>2. IsWellFoundedOn(R, Nat)
    BY <1>1
  <2> QED BY ONLY <2>1, <2>2, S # {}, WFMin
<1>3. ASSUME NEW k \in S, ~(m <= k)
      PROVE  FALSE
  <2>1. k \in Nat /\ m \in Nat /\ k < m
    BY <1>3
  <2> QED BY <1>1, <1>2, <2>1
<1> QED BY <1>3

LEMMA OtherSignal ==
  ASSUME NEW i \in Signals
  PROVE  /\ Other(i) \in Signals /\ Other(i) # i /\ Other(Other(i)) = i
         /\ Signals = {i, Other(i)}
BY DEF Signals, Other

LEMMA TimeTypes ==
  ASSUME SignalTypes, NEW i \in Signals
  PROVE  /\ time[i] \in Seq(Times) /\ Len(time[i]) \in Nat /\ DOMAIN time[i] = 1..Len(time[i])
         /\ \A k \in DOMAIN time[i] : time[i][k] \in Times /\ time[i][k] \in Nat
         /\ data[i] \in Seq(Nat) /\ Len(data[i]) \in Nat /\ DOMAIN data[i] = 1..Len(data[i])
         /\ \A k \in DOMAIN data[i] : data[i][k] \in Nat
         /\ count[i] \in Nat /\ pos[i] \in Nat
<1>1. time[i] \in Seq(Times) /\ data[i] \in Seq(Nat) /\ count[i] \in Nat /\ pos[i] \in Nat
  BY DEF SignalTypes
<1>2. \A n \in Times : n \in Nat
  BY ConstantsOK
<1> QED BY ONLY <1>1, <1>2

(* Where std::lower_bound() stops, when there is a sample that late.       *)
LEMMA LowerBoundFound ==
  ASSUME SignalTypes, NEW i \in Signals, NEW t \in Nat, \E k \in DOMAIN time[i] : time[i][k] >= t
  PROVE  /\ LowerBound(i, t) \in DOMAIN time[i] /\ time[i][LowerBound(i, t)] >= t
         /\ \A k \in DOMAIN time[i] : k < LowerBound(i, t) => time[i][k] < t
<1> DEFINE I == {k \in 1..Len(time[i]) : time[i][k] >= t}
<1>1. /\ DOMAIN time[i] = 1..Len(time[i]) /\ Len(time[i]) \in Nat
      /\ \A k \in DOMAIN time[i] : time[i][k] \in Nat
  BY TimeTypes
<1>2. I \in SUBSET Nat /\ I # {}
  BY <1>1
<1>3. \E m \in I : \A k \in I : m <= k
  BY ONLY <1>2, NatMin
<1>4. LowerBound(i, t) = Min(I)
  BY ONLY <1>2 DEF LowerBound, SelectInSeq
<1>5. Min(I) \in I /\ \A k \in I : Min(I) <= k
  BY ONLY <1>3 DEF Min
<1>6. ASSUME NEW k \in DOMAIN time[i], k < Min(I)
      PROVE  time[i][k] < t
  <2>1. k \notin I
    BY <1>1, <1>5, <1>6
  <2> QED BY <1>1, <2>1
<1> QED BY <1>1, <1>4, <1>5, <1>6

(* The loop over the first samples stops at a sample, and passes only ones *)
(* that are older than the other signal.                                   *)
LEMMA SkipToFound ==
  ASSUME BoundsInv, NEW i \in Signals, Available(i)
  PROVE  /\ SkipTo(i) \in pos[i]..(count[i] - 1)
         /\ time[i][SkipTo(i) + 1] >= TimeOf(Other(i)) \/ SkipTo(i) + 1 = count[i]
         /\ \A l \in (pos[i] + 1)..SkipTo(i) : ~(time[i][l] >= TimeOf(Other(i)))
<1> DEFINE late(p)  == time[i][p + 1] >= TimeOf(Other(i)) \/ p = count[i] - 1
           reached  == {p \in pos[i]..(count[i] - 1) : late(p)}
<1>1. pos[i] \in Nat /\ count[i] \in Nat /\ pos[i] < count[i]
  BY DEF BoundsInv, SignalTypes, Available
<1>2. reached \in SUBSET Nat /\ reached # {}
  <2>1. count[i] - 1 \in reached
    BY <1>1
  <2> QED BY <1>1, <2>1
<1>3. \E p \in reached : \A q \in reached : p <= q
  BY ONLY <1>2, NatMin
<1>4. SkipTo(i) \in reached /\ \A q \in reached : SkipTo(i) <= q
  BY ONLY <1>3 DEF SkipTo
<1>5. ASSUME NEW l \in (pos[i] + 1)..SkipTo(i)
      PROVE  ~(time[i][l] >= TimeOf(Other(i)))
  <2>1. l - 1 \in pos[i]..(count[i] - 1) /\ l - 1 < SkipTo(i) /\ (l - 1) + 1 = l
    BY <1>1, <1>4
  <2>2. ~late(l - 1)
    BY <1>1, <1>4, <2>1
  <2> QED BY <2>1, <2>2
<1> QED BY <1>1, <1>4, <1>5

-----------------------------------------------------------------------------
(* The bounds                                                              *)

LEMMA CombineInit ==
  ASSUME Init
  PROVE  CombineInv /\ NeverThrows
<1>1. BoundsInv
  BY DEF Init, BoundsInv, SignalTypes, PushOrder, Guis
<1>2. OrderInv
  BY DEF Init, OrderInv, Increasing, PassedIsOlder, StartInv, Other, Signals
<1>3. OutInv
  BY DEF Init, OutInv, Multiples, OutType, OutIsPassed, OutIsInRange, OutIsInOrder, CombinedIsRight,
     Signals
<1>4. DoneInv /\ NeverThrows
  BY DEF Init, DoneInv, Done, NeverThrows, Signals
<1> QED BY <1>1, <1>2, <1>3, <1>4 DEF CombineInv

(* The lower bound of a time before the next one is among what was passed, *)
(* and the sample behind it has its value already.                         *)
LEMMA LowerIsPassed ==
  ASSUME BoundsInv, NEW i \in Signals, NEW t \in Nat, Available(i), t < TimeOf(i), InRange(i, t)
  PROVE  /\ LowerBound(i, t) \in 1..(pos[i] + 1)
         /\ ~Matches(i, t) => LowerBound(i, t) > 1
         /\ ~OutOfRange(i, t)
<1>1. /\ DOMAIN time[i] = 1..Len(time[i]) /\ Len(time[i]) \in Nat
      /\ \A k \in DOMAIN time[i] : time[i][k] \in Nat
      /\ count[i] \in Nat /\ pos[i] \in Nat /\ Len(data[i]) \in Nat
  BY TimeTypes DEF BoundsInv
<1>2. pos[i] < count[i] /\ count[i] <= Len(data[i]) /\ Len(data[i]) <= Len(time[i])
  BY DEF BoundsInv, PushOrder, Available
<1>3. TimeOf(i) = time[i][pos[i] + 1] /\ pos[i] + 1 \in DOMAIN time[i]
  BY <1>1, <1>2 DEF TimeOf
<1>4. \E k \in DOMAIN time[i] : time[i][k] >= t
  BY <1>1, <1>3
<1>5. /\ LowerBound(i, t) \in DOMAIN time[i] /\ time[i][LowerBound(i, t)] >= t
      /\ \A k \in DOMAIN time[i] : k < LowerBound(i, t) => time[i][k] < t
  BY <1>4, LowerBoundFound DEF BoundsInv
<1>6. LowerBound(i, t) \in 1..(pos[i] + 1)
  BY <1>1, <1>2, <1>3, <1>5
<1>7. ASSUME ~Matches(i, t)
      PROVE  LowerBound(i, t) > 1
  <2>1. t >= time[i][1] /\ 1 \in DOMAIN time[i]
    BY <1>1, <1>3 DEF InRange
  <2> QED BY <1>1, <1>5, <1>6, <1>7, <2>1 DEF Matches
<1>8. ASSUME ~Matches(i, t)
      PROVE  LowerPos(i, t) + 1 <= Len(data[i])
  BY <1>1, <1>2, <1>6, <1>7, <1>8 DEF LowerPos
<1>9. ~OutOfRange(i, t)
  <2>1. LowerPos(i, t) \in Int
    BY <1>6 DEF LowerPos
  <2> QED BY ONLY <1>1, <1>8, <2>1 DEF OutOfRange
<1> QED BY <1>6, <1>7, <1>9

LEMMA BoundsStep ==
  ASSUME BoundsInv, NeverThrows, [Next]_vars
  PROVE  BoundsInv' /\ NeverThrows'
<1> USE DEF BoundsInv, NeverThrows
<1> DEFINE Ts(i) == /\ time[i] \in Seq(Times) /\ data[i] \in Seq(Nat) /\ count[i] \in Nat
                    /\ pos[i] \in Nat /\ pos[i] <= count[i] /\ count[i] <= Len(data[i])
                    /\ Len(data[i]) <= Len(time[i])
<1>0. \A i \in Signals : Ts(i)
  BY DEF SignalTypes, PushOrder
<1>1. ASSUME NEW i \in Signals, PushTime(i)
      PROVE  BoundsInv' /\ NeverThrows'
  <2>1. PICK t \in NextTimes(i) : time' = [time EXCEPT ![i] = Append(@, t)]
    BY <1>1 DEF PushTime
  <2>2. t \in Times
    BY <2>1 DEF NextTimes
  <2>3. Append(time[i], t) \in Seq(Times) /\ Len(Append(time[i], t)) = Len(time[i]) + 1
    BY <1>0, <2>2
  <2>4. SignalTypes'
    BY <1>1, <2>1, <2>3 DEF PushTime, SignalTypes
  <2>5. PushOrder'
    BY <1>0, <1>1, <2>1, <2>3 DEF PushTime, SignalTypes, PushOrder
  <2> QED BY <1>1, <2>4, <2>5 DEF PushTime
<1>2. ASSUME NEW i \in Signals, PushData(i)
      PROVE  BoundsInv' /\ NeverThrows'
  <2>1. PICK l \in Levels : data' = [data EXCEPT ![i] = Append(@, l * Scale)]
    BY <1>2 DEF PushData
  <2>2. l * Scale \in Nat
    BY ConstantsOK
  <2>3. Append(data[i], l * Scale) \in Seq(Nat)
        /\ Len(Append(data[i], l * Scale)) = Len(data[i]) + 1
    BY <1>0, <2>2
  <2>4. SignalTypes'
    BY <1>2, <2>1, <2>3 DEF PushData, SignalTypes
  <2>5. PushOrder'
    BY <1>0, <1>2, <2>1, <2>3 DEF PushData, SignalTypes, PushOrder
  <2> QED BY <1>2, <2>4, <2>5 DEF PushData
<1>3. ASSUME NEW i \in Signals, PushCount(i)
      PROVE  BoundsInv' /\ NeverThrows'
  BY <1>0, <1>3 DEF PushCount, SignalTypes, PushOrder
<1>4. ASSUME NEW i \in Signals, PushDirect(i)
      PROVE  BoundsInv' /\ NeverThrows'
  <2>1. PICK t \in NextTimes(i), l \in Levels :
          /\ time' = [time EXCEPT ![i] = Append(@, t)]
          /\ data' = [data EXCEPT ![i] = Append(@, l * Scale)]
    BY <1>4 DEF PushDirect
  <2>2. t \in Times /\ l * Scale \in Nat
    BY <2>1, ConstantsOK DEF NextTimes
  <2>3. /\ Append(time[i], t) \in Seq(Times) /\ Len(Append(time[i], t)) = Len(time[i]) + 1
        /\ Append(data[i], l * Scale) \in Seq(Nat)
        /\ Len(Append(data[i], l * Scale)) = Len(data[i]) + 1
    BY <1>0, <2>2
  <2>4. SignalTypes'
    BY <1>4, <2>1, <2>3 DEF PushDirect, SignalTypes, Guis
  <2>5. PushOrder'
    BY <1>0, <1>4, <2>1, <2>3 DEF PushDirect, SignalTypes, PushOrder
  <2> QED BY <1>4, <2>4, <2>5 DEF PushDirect
<1>5. CASE StartSlot
  BY <1>5 DEF StartSlot, SignalTypes, PushOrder, signalVars, Guis
<1>6. CASE Skip
  <2>1. \A i \in Signals : pos'[i] \in Nat /\ pos'[i] <= count[i]
    <3>1. ASSUME NEW i \in Signals, pos' = pos
          PROVE  pos'[i] \in Nat /\ pos'[i] <= count[i]
      BY <1>0, <3>1
    <3>2. ASSUME NEW i \in Signals, ~(\E j \in Signals : ~Available(j)),
                 pos' = [j \in Signals |->
                           IF TimeOf(j) < TimeOf(Other(j)) THEN SkipTo(j) ELSE pos[j]]
          PROVE  pos'[i] \in Nat /\ pos'[i] <= count[i]
      <4>1. SkipTo(i) \in pos[i]..(count[i] - 1)
        BY <3>2, SkipToFound
      <4> QED BY <1>0, <3>2, <4>1
    <3> QED BY <1>6, <3>1, <3>2 DEF Skip
  <2>2. pos' \in [Signals -> Nat]
    <3>1. pos' = [j \in Signals |-> pos'[j]]
      BY <1>6 DEF Skip, SignalTypes
    <3> QED BY <2>1, <3>1
  <2> QED BY <1>6, <2>1, <2>2 DEF Skip, SignalTypes, PushOrder, signalVars, Guis
<1>7. CASE MergeEqual
  <2>1. pos' \in [Signals -> Nat] /\ \A i \in Signals : pos'[i] <= count[i]
    BY <1>0, <1>7 DEF MergeEqual, Available
  <2> QED BY <1>7, <2>1 DEF MergeEqual, SignalTypes, PushOrder, signalVars
<1>8. CASE MergeEnds
  BY <1>8 DEF MergeEnds, SignalTypes, PushOrder, signalVars, Guis
<1>9. ASSUME NEW i \in Signals, MergeOlder(i)
      PROVE  BoundsInv' /\ NeverThrows'
  <2>1. /\ Other(i) \in Signals /\ Available(i) /\ Available(Other(i)) /\ TimeOf(i) < TimeOf(Other(i))
        /\ TimeOf(i) \in Nat
    <3>1. TimeOf(i) \in Nat
      <4>1. pos[i] + 1 \in DOMAIN time[i]
        BY <1>0, <1>9 DEF MergeOlder, Available
      <4> QED BY <4>1, TimeTypes DEF TimeOf
    <3> QED BY <1>9, <3>1, OtherSignal DEF MergeOlder
  <2>2. InRange(Other(i), TimeOf(i)) => ~OutOfRange(Other(i), TimeOf(i))
    BY <2>1, LowerIsPassed
  <2>3. thrown' = thrown /\ UNCHANGED <<signalVars, queued>>
    BY <1>9, <2>2 DEF MergeOlder
  <2>4. /\ pos' \in [Signals -> Nat] /\ \A k \in Signals : pos'[k] <= count[k]
        /\ gui' \in Guis
    <3>1. \/ pos' = pos /\ gui' = "idle"
          \/ pos' = [pos EXCEPT ![i] = @ + 1] /\ gui' = gui
      BY <1>9, <2>2, Zenon DEF MergeOlder, AdvanceOne
    <3>2. CASE pos' = pos /\ gui' = "idle"
      BY <1>0, <3>2 DEF SignalTypes, Guis
    <3>3. CASE pos' = [pos EXCEPT ![i] = @ + 1] /\ gui' = gui
      BY <1>0, <2>1, <3>3 DEF SignalTypes, Available
    <3> QED BY <3>1, <3>2, <3>3
  <2> QED BY <2>3, <2>4 DEF SignalTypes, PushOrder, signalVars
<1>10. CASE UNCHANGED vars
  BY <1>10 DEF vars, signalVars, SignalTypes, PushOrder
<1> QED BY <1>1, <1>2, <1>3, <1>4, <1>5, <1>6, <1>7, <1>8, <1>9, <1>10 DEF Next

(* While other threads write, get_value_at_timestamp() never reads a value *)
(* that is not there yet, also when a signal has several samples of the    *)
(* same time.                                                              *)
THEOREM ReadsStayInRange == Spec => []NeverThrows
<1>1. Init => BoundsInv /\ NeverThrows
  BY CombineInit DEF CombineInv
<1>2. (BoundsInv /\ NeverThrows) /\ [Next]_vars => (BoundsInv /\ NeverThrows)'
  BY BoundsStep
<1> QED BY <1>1, <1>2, PTL DEF Spec

-----------------------------------------------------------------------------
(* The steps that combine nothing: samples are added at the end, with time *)
(* stamps later than all before.                                           *)
Grown(i) ==
  /\ count[i] <= count'[i]
  /\ Len(time[i]) <= Len(time'[i]) /\ Len(time'[i]) <= Len(time[i]) + 1
  /\ \A k \in DOMAIN time[i] : time'[i][k] = time[i][k]
  /\ \A k \in DOMAIN time'[i] : k > Len(time[i]) => \A l \in DOMAIN time[i] : time[i][l] < time'[i][k]
  /\ Len(data[i]) <= Len(data'[i])
  /\ \A k \in DOMAIN data[i] : data'[i][k] = data[i][k]

Quiet ==
  /\ pos' = pos /\ out' = out
  /\ gui' = gui \/ (gui = "idle" /\ gui' = "skip")
  /\ queued' = 0 /\ gui' # "skip" => queued = 0 /\ gui' = gui /\ count' = count
  /\ \A i \in Signals : Grown(i)

Waiting == StartSlot \/ \E i \in Signals : PushTime(i) \/ PushData(i) \/ PushCount(i) \/ PushDirect(i)

LEMMA WaitingIsQuiet ==
  ASSUME BoundsInv, Increasing, Strict, Waiting \/ UNCHANGED vars
  PROVE  Quiet
<1> DEFINE Ts(i) == /\ time[i] \in Seq(Times) /\ data[i] \in Seq(Nat) /\ count[i] \in Nat
                    /\ \A k \in DOMAIN time[i] : time[i][k] \in Nat
<1>0. \A i \in Signals : Ts(i)
  BY TimeTypes DEF BoundsInv
<1>1. ASSUME NEW i \in Signals, time'[i] = time[i], data'[i] = data[i], count[i] <= count'[i]
      PROVE  Grown(i)
  BY <1>0, <1>1 DEF Grown
<1>2. ASSUME NEW i \in Signals, NEW t \in NextTimes(i), time'[i] = Append(time[i], t),
             Len(data[i]) <= Len(data'[i]), \A k \in DOMAIN data[i] : data'[i][k] = data[i][k],
             count[i] <= count'[i]
      PROVE  Grown(i)
  <2>1. t \in Times /\ t \in Nat
    BY ConstantsOK DEF NextTimes
  <2>2. /\ Len(time'[i]) = Len(time[i]) + 1 /\ Len(time[i]) \in Nat
        /\ DOMAIN time'[i] = 1..(Len(time[i]) + 1) /\ DOMAIN time[i] = 1..Len(time[i])
        /\ \A k \in DOMAIN time[i] : time'[i][k] = time[i][k]
        /\ time'[i][Len(time[i]) + 1] = t
    BY <1>0, <1>2, <2>1
  <2>3. ASSUME NEW l \in DOMAIN time[i]
        PROVE  time[i][l] < t
    <3>1. time[i] # <<>> /\ Len(time[i]) \in DOMAIN time[i]
      BY <2>2
    <3>2. t > time[i][Len(time[i])]
      BY <1>2, <3>1 DEF NextTimes, Last
    <3>3. l = Len(time[i]) \/ time[i][l] < time[i][Len(time[i])]
      BY <2>2, <3>1 DEF Increasing
    <3> QED BY <1>0, <2>1, <3>1, <3>2, <3>3
  <2>4. \A k \in DOMAIN time'[i] : k > Len(time[i]) => k = Len(time[i]) + 1
    BY <2>2
  <2> QED BY <1>2, <2>2, <2>3, <2>4 DEF Grown
<1>3. ASSUME NEW i \in Signals, NEW x \in Nat, data' = [data EXCEPT ![i] = Append(@, x)]
      PROVE  /\ Len(data[i]) <= Len(data'[i]) /\ \A k \in DOMAIN data[i] : data'[i][k] = data[i][k]
             /\ \A j \in Signals \ {i} : data'[j] = data[j]
  <2>1. data'[i] = Append(data[i], x) /\ \A j \in Signals \ {i} : data'[j] = data[j]
    BY <1>3 DEF BoundsInv, SignalTypes
  <2> QED BY <1>0, <2>1
<1>4. \A i \in Signals : count[i] <= count[i]
  BY <1>0
<1>5. ASSUME NEW i \in Signals, PushTime(i)
      PROVE  Quiet
  <2>1. PICK t \in NextTimes(i) : time' = [time EXCEPT ![i] = Append(@, t)]
    BY <1>5 DEF PushTime
  <2>2. time'[i] = Append(time[i], t) /\ \A j \in Signals \ {i} : time'[j] = time[j]
    BY <2>1 DEF BoundsInv, SignalTypes
  <2>3. data' = data /\ count' = count
    BY <1>5 DEF PushTime
  <2>4. Len(data[i]) <= Len(data[i])
    BY <1>0
  <2>5. Grown(i)
    BY <1>2, <1>4, <2>2, <2>3, <2>4
  <2>6. \A j \in Signals \ {i} : Grown(j)
    BY <1>1, <1>4, <2>2, <2>3
  <2> QED BY <1>5, <2>5, <2>6 DEF PushTime, Quiet
<1>6. ASSUME NEW i \in Signals, PushData(i)
      PROVE  Quiet
  <2>1. PICK l \in Levels : data' = [data EXCEPT ![i] = Append(@, l * Scale)]
    BY <1>6 DEF PushData
  <2>2. l * Scale \in Nat
    BY ConstantsOK
  <2>3. time' = time /\ count' = count
    BY <1>6 DEF PushData
  <2>4. /\ Len(data[i]) <= Len(data'[i]) /\ \A k \in DOMAIN data[i] : data'[i][k] = data[i][k]
        /\ \A j \in Signals \ {i} : data'[j] = data[j]
    BY <1>3, <2>1, <2>2
  <2>5. Grown(i)
    BY <1>0, <2>3, <2>4 DEF Grown
  <2>6. \A j \in Signals \ {i} : Grown(j)
    BY <1>1, <1>4, <2>3, <2>4
  <2> QED BY <1>6, <2>5, <2>6 DEF PushData, Quiet
<1>7. ASSUME NEW i \in Signals, PushCount(i)
      PROVE  Quiet
  <2>1. /\ time' = time /\ data' = data /\ pos' = pos /\ out' = out /\ gui' = gui
        /\ \A j \in Signals : count[j] <= count'[j]
    BY <1>0, <1>7 DEF PushCount, BoundsInv, SignalTypes
  <2>2. \A j \in Signals : Grown(j)
    BY <1>1, <2>1
  <2>3. queued' # 0
    BY <1>7 DEF PushCount, BoundsInv, SignalTypes
  <2> QED BY <2>1, <2>2, <2>3 DEF Quiet
<1>8. ASSUME NEW i \in Signals, PushDirect(i)
      PROVE  Quiet
  <2>1. PICK t \in NextTimes(i), l \in Levels :
          /\ time' = [time EXCEPT ![i] = Append(@, t)]
          /\ data' = [data EXCEPT ![i] = Append(@, l * Scale)]
    BY <1>8 DEF PushDirect
  <2>2. time'[i] = Append(time[i], t) /\ \A j \in Signals \ {i} : time'[j] = time[j]
    BY <2>1 DEF BoundsInv, SignalTypes
  <2>3. l * Scale \in Nat
    BY ConstantsOK
  <2>4. /\ Len(data[i]) <= Len(data'[i]) /\ \A k \in DOMAIN data[i] : data'[i][k] = data[i][k]
        /\ \A j \in Signals \ {i} : data'[j] = data[j]
    BY <1>3, <2>1, <2>3
  <2>5. /\ pos' = pos /\ out' = out /\ gui = "idle" /\ gui' = "skip"
        /\ \A j \in Signals : count[j] <= count'[j]
    BY <1>0, <1>8 DEF PushDirect, BoundsInv, SignalTypes
  <2>6. Grown(i)
    BY <1>2, <2>2, <2>4, <2>5
  <2>7. \A j \in Signals \ {i} : Grown(j)
    BY <1>1, <2>2, <2>4, <2>5
  <2> QED BY <2>5, <2>6, <2>7 DEF Quiet
<1>9. CASE StartSlot \/ UNCHANGED vars
  <2>1. time' = time /\ data' = data /\ count' = count /\ pos' = pos /\ out' = out
    BY <1>9 DEF StartSlot, vars, signalVars
  <2>2. \A i \in Signals : Grown(i)
    BY <1>1, <1>4, <2>1
  <2>3. (gui = "idle" /\ gui' = "skip") \/ (gui' = gui /\ queued' = queued)
    BY <1>9 DEF StartSlot, vars
  <2> QED BY <2>1, <2>2, <2>3 DEF Quiet
<1> QED BY <1>5, <1>6, <1>7, <1>8, <1>9 DEF Waiting

-----------------------------------------------------------------------------
(* The order of what has been passed                                       *)

LEMMA Samples ==
  ASSUME BoundsInv, NEW i \in Signals
  PROVE  /\ Len(time[i]) \in Nat /\ DOMAIN time[i] = 1..Len(time[i])
         /\ \A k \in DOMAIN time[i] : time[i][k] \in Times /\ time[i][k] \in Nat
         /\ Len(data[i]) \in Nat /\ DOMAIN data[i] = 1..Len(data[i])
         /\ \A k \in DOMAIN data[i] : data[i][k] \in Nat
         /\ count[i] \in Nat /\ pos[i] \in Nat
         /\ pos[i] <= count[i] /\ count[i] <= Len(data[i]) /\ Len(data[i]) <= Len(time[i])
         /\ 1..pos[i] \subseteq DOMAIN time[i]
BY TimeTypes DEF BoundsInv, PushOrder

LEMMA SamplesNext ==
  ASSUME BoundsInv', NEW i \in Signals
  PROVE  /\ Len(time'[i]) \in Nat /\ DOMAIN time'[i] = 1..Len(time'[i])
         /\ \A k \in DOMAIN time'[i] : time'[i][k] \in Times /\ time'[i][k] \in Nat
         /\ Len(data'[i]) \in Nat /\ DOMAIN data'[i] = 1..Len(data'[i])
         /\ \A k \in DOMAIN data'[i] : data'[i][k] \in Nat
         /\ count'[i] \in Nat /\ pos'[i] \in Nat
         /\ pos'[i] <= count'[i] /\ count'[i] <= Len(data'[i]) /\ Len(data'[i]) <= Len(time'[i])
<1>1. time'[i] \in Seq(Times) /\ data'[i] \in Seq(Nat) /\ count'[i] \in Nat /\ pos'[i] \in Nat
  BY DEF BoundsInv, SignalTypes
<1>2. pos'[i] <= count'[i] /\ count'[i] <= Len(data'[i]) /\ Len(data'[i]) <= Len(time'[i])
  BY DEF BoundsInv, PushOrder
<1>3. \A n \in Times : n \in Nat
  BY ConstantsOK
<1> QED BY ONLY <1>1, <1>2, <1>3

LEMMA NextSample ==
  ASSUME BoundsInv, NEW i \in Signals, Available(i)
  PROVE  /\ pos[i] + 1 \in DOMAIN time[i] /\ pos[i] + 1 \in DOMAIN data[i] /\ pos[i] + 1 <= count[i]
         /\ TimeOf(i) = time[i][pos[i] + 1] /\ TimeOf(i) \in Times /\ TimeOf(i) \in Nat
         /\ ValueOf(i) = data[i][pos[i] + 1]
<1>1. pos[i] + 1 \in DOMAIN time[i] /\ pos[i] + 1 \in DOMAIN data[i] /\ pos[i] + 1 <= count[i]
  BY Samples DEF Available
<1> QED BY <1>1, Samples DEF Available, TimeOf, ValueOf

LEMMA OrderQuiet ==
  ASSUME BoundsInv, BoundsInv', OrderInv, Quiet
  PROVE  OrderInv'
<1>1. \A i \in Signals : Grown(i)
  BY DEF Quiet
<1>2. Increasing'
  <2>1. SUFFICES ASSUME NEW i \in Signals, NEW k \in DOMAIN time'[i], NEW l \in DOMAIN time'[i], k < l
                 PROVE  time'[i][k] < time'[i][l]
    BY DEF Increasing
  <2>2. CASE l <= Len(time[i])
    <3>1. k \in DOMAIN time[i] /\ l \in DOMAIN time[i]
      BY <2>1, <2>2, Samples, SamplesNext
    <3> QED BY <1>1, <2>1, <3>1 DEF Grown, OrderInv, Increasing
  <2>3. CASE l > Len(time[i])
    <3>1. k \in DOMAIN time[i]
      BY <1>1, <2>1, <2>3, Samples, SamplesNext DEF Grown
    <3> QED BY <1>1, <2>3, <3>1 DEF Grown
  <2> QED BY <2>1, <2>2, <2>3, Samples, SamplesNext
<1>3. PassedIsOlder'
  <2>1. SUFFICES ASSUME NEW i \in Signals, NEW l \in 1..pos[i]
                 PROVE  /\ \A k \in DOMAIN time'[Other(i)] :
                              k > pos[Other(i)] => time'[i][l] < time'[Other(i)][k]
                        /\ \E k \in DOMAIN time'[Other(i)] : time'[i][l] <= time'[Other(i)][k]
    BY DEF PassedIsOlder, Quiet
  <2>2. Other(i) \in Signals
    BY OtherSignal
  <2>3. l \in DOMAIN time[i] /\ time'[i][l] = time[i][l] /\ time[i][l] \in Nat
    BY <1>1, Samples DEF Grown
  <2>4. PICK m \in DOMAIN time[Other(i)] : time[i][l] <= time[Other(i)][m]
    BY DEF OrderInv, PassedIsOlder
  <2>5. /\ m \in DOMAIN time'[Other(i)] /\ time'[Other(i)][m] = time[Other(i)][m]
        /\ time[Other(i)][m] \in Nat
    BY <1>1, <2>2, <2>4, Samples, SamplesNext DEF Grown
  <2>6. ASSUME NEW k \in DOMAIN time'[Other(i)], k > pos[Other(i)]
        PROVE  time'[i][l] < time'[Other(i)][k]
    <3>1. CASE k \in DOMAIN time[Other(i)]
      BY <1>1, <2>2, <2>3, <2>6, <3>1 DEF Grown, OrderInv, PassedIsOlder
    <3>2. CASE k \notin DOMAIN time[Other(i)]
      <4>1. k > Len(time[Other(i)]) /\ time'[Other(i)][k] \in Nat
        BY <2>2, <3>2, Samples, SamplesNext
      <4>2. time[Other(i)][m] < time'[Other(i)][k]
        BY <1>1, <2>2, <2>4, <4>1 DEF Grown
      <4> QED BY ONLY <2>3, <2>4, <2>5, <4>1, <4>2
    <3> QED BY <3>1, <3>2
  <2> QED BY <2>3, <2>4, <2>5, <2>6
<1>4. StartInv'
  <2>1. SUFFICES ASSUME NEW i \in Signals, pos[i] = 0, pos[Other(i)] > 0
                 PROVE  /\ time'[i] # <<>> /\ Available(Other(i))'
                        /\ IF gui' = "merge" THEN Available(i)'
                             ELSE time'[Other(i)][pos[Other(i)] + 1] < time'[i][1]
    BY DEF StartInv, Quiet
  <2>2. Other(i) \in Signals
    BY OtherSignal
  <2>3. /\ time[i] # <<>> /\ Available(Other(i))
        /\ IF gui = "merge" THEN Available(i) ELSE time[Other(i)][pos[Other(i)] + 1] < time[i][1]
    BY <2>1 DEF OrderInv, StartInv
  <2>4. 1 \in DOMAIN time[i] /\ time'[i][1] = time[i][1] /\ time'[i] # <<>>
    BY <1>1, <2>3, Samples, SamplesNext DEF Grown
  <2>5. time'[Other(i)][pos[Other(i)] + 1] = time[Other(i)][pos[Other(i)] + 1]
    BY <1>1, <2>2, <2>3, NextSample DEF Grown
  <2>6. ASSUME NEW j \in Signals, Available(j)
        PROVE  Available(j)'
    BY <1>1, <2>6, Samples, SamplesNext DEF Grown, Available, Quiet
  <2>7. gui' = "merge" => gui = "merge"
    BY DEF Quiet
  <2>8. gui = "merge" => gui' = "merge"
    BY DEF Quiet
  <2> QED BY <2>2, <2>3, <2>4, <2>5, <2>6, <2>7, <2>8
<1> QED BY <1>2, <1>3, <1>4 DEF OrderInv

(* The older sample is in the range of the other signal exactly when       *)
(* something has been passed there.                                        *)
LEMMA OlderSample ==
  ASSUME BoundsInv, OrderInv, NEW i \in Signals, MergeOlder(i)
  PROVE  /\ Available(i) /\ Available(Other(i)) /\ TimeOf(i) < TimeOf(Other(i))
         /\ time[Other(i)] # <<>> /\ TimeOf(i) <= Last(time[Other(i)])
         /\ InRange(Other(i), TimeOf(i)) <=> pos[Other(i)] > 0
         /\ pos[Other(i)] = 0 => TimeOf(i) < time[Other(i)][1]
         /\ UNCHANGED <<time, data, count, queued>>
         /\ \/ /\ ~InRange(Other(i), TimeOf(i))
               /\ gui' = "idle" /\ pos' = pos /\ out' = out
            \/ /\ InRange(Other(i), TimeOf(i)) /\ gui = "merge" /\ gui' = "merge"
               /\ pos'[i] = pos[i] + 1 /\ pos'[Other(i)] = pos[Other(i)]
               /\ out' = Append(out, [t |-> TimeOf(i),
                           v |-> [k \in Signals |-> IF k = i THEN ValueOf(i)
                                                     ELSE ValueAt(Other(i), TimeOf(i))]])
<1> DEFINE j == Other(i)
           t == TimeOf(i)
<1>1. j \in Signals /\ j # i /\ Other(j) = i
  BY OtherSignal
<1>2. Available(i) /\ Available(j) /\ t < TimeOf(j) /\ gui = "merge" /\ UNCHANGED <<signalVars, queued>>
  BY <1>1 DEF MergeOlder
<1>3. /\ t = time[i][pos[i] + 1] /\ t \in Nat /\ pos[i] + 1 \in DOMAIN time[i]
      /\ TimeOf(j) = time[j][pos[j] + 1] /\ TimeOf(j) \in Nat /\ pos[j] + 1 \in DOMAIN time[j]
  BY <1>1, <1>2, NextSample
<1>4. /\ DOMAIN time[j] = 1..Len(time[j]) /\ Len(time[j]) \in Nat /\ pos[j] \in Nat
      /\ \A k \in DOMAIN time[j] : time[j][k] \in Nat
  BY <1>1, Samples
<1>5. time[j] # <<>> /\ 1 \in DOMAIN time[j] /\ Len(time[j]) \in DOMAIN time[j]
  BY <1>3, <1>4
<1>6. t <= Last(time[j])
  <2>1. TimeOf(j) <= time[j][Len(time[j])]
    <3>1. CASE pos[j] + 1 = Len(time[j])
      BY <1>3, <3>1
    <3>2. CASE pos[j] + 1 < Len(time[j])
      <4>1. time[j][pos[j] + 1] < time[j][Len(time[j])]
        BY <1>1, <1>3, <1>5, <3>2 DEF OrderInv, Increasing
      <4> QED BY <1>3, <1>4, <1>5, <4>1
    <3> QED BY <1>3, <1>4, <3>1, <3>2
  <2> QED BY ONLY <1>2, <1>3, <1>4, <1>5, <2>1 DEF Last
<1>7. ASSUME pos[j] = 0
      PROVE  t < time[j][1]
  BY <1>2, <1>3, <1>7
<1>8. ASSUME pos[j] > 0
      PROVE  time[j][1] < t
  <2>1. 1 \in 1..pos[j]
    BY <1>4, <1>8
  <2>2. pos[i] + 1 \in DOMAIN time[Other(j)] /\ pos[i] + 1 > pos[Other(j)] /\ time[Other(j)][pos[i] + 1] = t
    BY <1>1, <1>3, Samples
  <2> QED BY <1>1, <2>1, <2>2 DEF OrderInv, PassedIsOlder
<1>9. InRange(j, t) <=> pos[j] > 0
  BY <1>3, <1>4, <1>5, <1>6, <1>7, <1>8 DEF InRange
<1>10. InRange(j, t) => ~OutOfRange(j, t)
  BY <1>1, <1>2, <1>3, LowerIsPassed
<1>11. \/ ~InRange(j, t) /\ gui' = "idle" /\ pos' = pos /\ out' = out
       \/ /\ InRange(j, t) /\ gui' = gui /\ AdvanceOne(i)
          /\ out' = Append(out, [t |-> t,
               v |-> [k \in Signals |-> IF k = i THEN ValueOf(i) ELSE ValueAt(j, t)]])
  BY <1>10, Zenon DEF MergeOlder
<1>12. AdvanceOne(i) => pos'[i] = pos[i] + 1 /\ pos'[j] = pos[j]
  BY <1>1 DEF AdvanceOne, BoundsInv, SignalTypes
<1>13. UNCHANGED <<time, data, count, queued>>
  BY <1>2 DEF signalVars
<1> HIDE DEF j, t
<1>14. \/ /\ ~InRange(j, t)
          /\ gui' = "idle" /\ pos' = pos /\ out' = out
       \/ /\ InRange(j, t) /\ gui = "merge" /\ gui' = "merge"
          /\ pos'[i] = pos[i] + 1 /\ pos'[j] = pos[j]
          /\ out' = Append(out, [t |-> t,
                     v |-> [k \in Signals |-> IF k = i THEN ValueOf(i) ELSE ValueAt(j, t)]])
  BY ONLY <1>2, <1>11, <1>12
<1> QED BY ONLY <1>2, <1>5, <1>6, <1>7, <1>9, <1>13, <1>14, Zenon DEF j, t

Combining == Skip \/ MergeEqual \/ MergeEnds \/ \E i \in Signals : MergeOlder(i)

LEMMA SkipCases ==
  ASSUME BoundsInv, Skip
  PROVE  /\ gui = "skip" /\ UNCHANGED <<time, data, count, queued, out>>
         /\ \/ /\ gui' = "idle" /\ pos' = pos /\ \E i \in Signals : count[i] = 0 \/ ~Available(i)
            \/ /\ gui' = "merge" /\ pos' = pos /\ \A i \in Signals : pos[i] > 0
            \/ /\ gui' = "merge" /\ ~(\A i \in Signals : pos[i] > 0) /\ \A i \in Signals : Available(i)
               /\ \A i \in Signals :
                    pos'[i] = IF TimeOf(i) < TimeOf(Other(i)) THEN SkipTo(i) ELSE pos[i]
BY DEF Skip, signalVars

(* What a step passes in one signal is older than the next sample of the   *)
(* other, or of the same time, and then that one is passed with it.        *)
LEMMA NewlyPassed ==
  ASSUME BoundsInv, OrderInv, Combining, NEW i \in Signals
  PROVE  /\ UNCHANGED <<time, data, count, queued>> /\ pos[i] <= pos'[i]
         /\ pos'[i] > pos[i] => Available(Other(i))
         /\ \A l \in (pos[i] + 1)..pos'[i] :
              \/ time[i][l] < TimeOf(Other(i))
              \/ time[i][l] = TimeOf(Other(i)) /\ pos'[Other(i)] = pos[Other(i)] + 1
<1> DEFINE Goal == /\ UNCHANGED <<time, data, count, queued>> /\ pos[i] <= pos'[i]
                   /\ pos'[i] > pos[i] => Available(Other(i))
                   /\ \A l \in (pos[i] + 1)..pos'[i] :
                        \/ time[i][l] < TimeOf(Other(i))
                        \/ time[i][l] = TimeOf(Other(i)) /\ pos'[Other(i)] = pos[Other(i)] + 1
<1>1. /\ Other(i) \in Signals /\ Other(i) # i /\ Other(Other(i)) = i
      /\ pos[i] \in Nat /\ pos[Other(i)] \in Nat /\ count[i] \in Nat
  BY OtherSignal, Samples
<1>2. ASSUME pos'[i] = pos[i], UNCHANGED <<time, data, count, queued>>
      PROVE  Goal
  BY <1>1, <1>2
<1>3. CASE Skip
  <2>1. UNCHANGED <<time, data, count, queued>>
    BY <1>3, SkipCases
  <2>2. CASE pos'[i] = pos[i]
    BY <1>2, <2>1, <2>2
  <2>3. CASE pos'[i] # pos[i]
    <3>1. /\ Available(i) /\ Available(Other(i)) /\ TimeOf(i) < TimeOf(Other(i)) /\ pos'[i] = SkipTo(i)
      BY <1>1, <1>3, <2>3, SkipCases
    <3>2. /\ SkipTo(i) \in pos[i]..(count[i] - 1)
          /\ \A l \in (pos[i] + 1)..SkipTo(i) : ~(time[i][l] >= TimeOf(Other(i)))
      BY <3>1, SkipToFound
    <3>3. \A l \in (pos[i] + 1)..SkipTo(i) : time[i][l] \in Nat
      BY <3>2, Samples
    <3>4. TimeOf(Other(i)) \in Nat
      BY <1>1, <3>1, NextSample
    <3> QED BY <1>1, <2>1, <3>1, <3>2, <3>3, <3>4
  <2> QED BY <2>2, <2>3
<1>4. CASE MergeEqual
  <2>1. /\ Available(i) /\ Available(Other(i)) /\ TimeOf(i) = TimeOf(Other(i))
        /\ UNCHANGED <<time, data, count, queued>>
        /\ pos'[i] = pos[i] + 1 /\ pos'[Other(i)] = pos[Other(i)] + 1
    BY <1>1, <1>4 DEF MergeEqual, signalVars, Signals, Other
  <2>2. TimeOf(i) = time[i][pos[i] + 1]
    BY <2>1, NextSample
  <2> QED BY <1>1, <2>1, <2>2
<1>5. CASE MergeEnds
  BY <1>2, <1>5 DEF MergeEnds, signalVars
<1>6. CASE MergeOlder(i)
  <2>1. /\ Available(i) /\ Available(Other(i)) /\ TimeOf(i) < TimeOf(Other(i))
        /\ UNCHANGED <<time, data, count, queued>>
        /\ pos'[i] = pos[i] \/ pos'[i] = pos[i] + 1
    BY <1>6, OlderSample
  <2>2. TimeOf(i) = time[i][pos[i] + 1]
    BY <2>1, NextSample
  <2> QED BY <1>1, <2>1, <2>2
<1>7. CASE MergeOlder(Other(i))
  <2>1. pos'[i] = pos[i] /\ UNCHANGED <<time, data, count, queued>>
    BY <1>1, <1>7, OlderSample
  <2> QED BY <1>2, <2>1
<1> QED BY <1>3, <1>4, <1>5, <1>6, <1>7, OtherSignal DEF Combining

LEMMA OrderCombining ==
  ASSUME BoundsInv, BoundsInv', OrderInv, Combining
  PROVE  OrderInv'
<1>1. /\ UNCHANGED <<time, data, count, queued>>
      /\ \A i \in Signals : pos[i] \in Nat /\ pos'[i] \in Nat /\ pos[i] <= pos'[i] /\ pos'[i] <= count[i]
  <2>1. \A i \in Signals : pos[i] <= pos'[i] /\ UNCHANGED <<time, data, count, queued>>
    BY NewlyPassed
  <2>2. 1 \in Signals
    BY DEF Signals
  <2>3. UNCHANGED <<time, data, count, queued>>
    BY <2>1, <2>2
  <2> QED BY <2>1, <2>3, Samples, SamplesNext
<1>2. Increasing'
  BY <1>1 DEF OrderInv, Increasing
<1>3. PassedIsOlder'
  <2>1. SUFFICES ASSUME NEW i \in Signals, NEW l \in 1..pos'[i]
                 PROVE  /\ \A k \in DOMAIN time[Other(i)] :
                              k > pos'[Other(i)] => time[i][l] < time[Other(i)][k]
                        /\ \E k \in DOMAIN time[Other(i)] : time[i][l] <= time[Other(i)][k]
    BY <1>1 DEF PassedIsOlder
  <2>2. Other(i) \in Signals
    BY OtherSignal
  <2>3. CASE l \in 1..pos[i]
    BY <1>1, <2>2, <2>3, Samples DEF OrderInv, PassedIsOlder
  <2>4. CASE l \in (pos[i] + 1)..pos'[i]
    <3>1. /\ Available(Other(i))
          /\ \/ time[i][l] < TimeOf(Other(i))
             \/ time[i][l] = TimeOf(Other(i)) /\ pos'[Other(i)] = pos[Other(i)] + 1
      BY <1>1, <2>4, NewlyPassed
    <3>2. /\ pos[Other(i)] + 1 \in DOMAIN time[Other(i)]
          /\ TimeOf(Other(i)) = time[Other(i)][pos[Other(i)] + 1] /\ TimeOf(Other(i)) \in Nat
      BY <2>2, <3>1, NextSample
    <3>3. time[i][l] \in Nat
      BY <1>1, <2>4, Samples
    <3>4. ASSUME NEW k \in DOMAIN time[Other(i)], k > pos'[Other(i)]
          PROVE  time[i][l] < time[Other(i)][k]
      <4>1. k \in Nat /\ time[Other(i)][k] \in Nat
        BY <2>2, Samples
      <4>2. k = pos[Other(i)] + 1 \/ k > pos[Other(i)] + 1
        BY <1>1, <2>2, <3>4, <4>1
      <4>3. k > pos[Other(i)] + 1 => TimeOf(Other(i)) < time[Other(i)][k]
        BY <2>2, <3>2 DEF OrderInv, Increasing
      <4> QED BY <1>1, <2>2, <3>1, <3>2, <3>3, <3>4, <4>1, <4>2, <4>3
    <3> QED BY <3>1, <3>2, <3>3, <3>4
  <2> QED BY <1>1, <2>3, <2>4
<1>4. StartInv'
  <2>1. SUFFICES ASSUME NEW i \in Signals, pos'[i] = 0, pos'[Other(i)] > 0
                 PROVE  /\ time[i] # <<>> /\ Available(Other(i))'
                        /\ IF gui' = "merge" THEN Available(i)'
                             ELSE time[Other(i)][pos'[Other(i)] + 1] < time[i][1]
    BY <1>1 DEF StartInv
  <2>2. /\ Other(i) \in Signals /\ Other(i) # i /\ Other(Other(i)) = i
        /\ pos[i] = 0 /\ pos[i] \in Nat /\ pos[Other(i)] \in Nat
    BY <1>1, <2>1, OtherSignal
  <2>3. CASE Skip
    <3>1. CASE gui' = "idle" /\ pos' = pos
      BY <1>1, <2>1, <2>2, <3>1, <2>3, SkipCases DEF OrderInv, StartInv, Available
    <3>2. CASE /\ gui' = "merge" /\ \A j \in Signals : Available(j)
               /\ \A j \in Signals : pos'[j] = IF TimeOf(j) < TimeOf(Other(j)) THEN SkipTo(j) ELSE pos[j]
      <4>1. \A j \in Signals : SkipTo(j) \in pos[j]..(count[j] - 1)
        BY <3>2, SkipToFound
      <4>2. \A j \in Signals : pos'[j] < count[j]
        <5>1. ASSUME NEW j \in Signals
              PROVE  pos'[j] < count[j]
          <6>1. SkipTo(j) < count[j] /\ pos[j] < count[j]
            BY <3>2, <4>1, Samples DEF Available
          <6> QED BY <3>2, <6>1
        <5> QED BY <5>1
      <4>3. \A j \in Signals : Available(j)'
        BY <1>1, <4>2 DEF Available
      <4>4. time[i] # <<>>
        BY <3>2, NextSample
      <4> QED BY <2>2, <3>2, <4>3, <4>4
    <3> QED BY <2>1, <2>2, <2>3, <3>1, <3>2, SkipCases
  <2>4. CASE MergeEqual
    BY <2>1, <2>2, <2>4 DEF MergeEqual
  <2>5. CASE MergeEnds
    BY <2>1, <2>2, <2>5 DEF MergeEnds, OrderInv, StartInv, Signals, Other
  <2>6. ASSUME NEW j \in Signals, MergeOlder(j)
        PROVE  /\ time[i] # <<>> /\ Available(Other(i))'
               /\ IF gui' = "merge" THEN Available(i)'
                    ELSE time[Other(i)][pos'[Other(i)] + 1] < time[i][1]
    <3>1. CASE ~InRange(Other(j), TimeOf(j))
      <4>1. pos' = pos /\ gui' = "idle" /\ pos[Other(j)] = 0 /\ TimeOf(j) < time[Other(j)][1] /\ Available(j)
        <5>1. Other(j) \in Signals
          BY OtherSignal
        <5>2. /\ pos' = pos /\ gui' = "idle" /\ Available(j) /\ ~(pos[Other(j)] > 0)
              /\ pos[Other(j)] = 0 => TimeOf(j) < time[Other(j)][1]
          BY <2>6, <3>1, OlderSample
        <5>3. pos[Other(j)] = 0
          BY <1>1, <5>1, <5>2
        <5> QED BY <5>2, <5>3
      <4>2. j = Other(i) /\ Other(j) = i
        BY <2>1, <2>2, <4>1, OtherSignal
      <4>3. TimeOf(j) = time[j][pos[j] + 1]
        BY <4>1, NextSample
      <4>4. time[i] # <<>>
        BY <2>6, <4>2, OlderSample
      <4> QED BY <1>1, <4>1, <4>2, <4>3, <4>4 DEF Available
    <3>2. CASE InRange(Other(j), TimeOf(j))
      <4>1. pos'[j] = pos[j] + 1 /\ pos'[Other(j)] > 0
        BY <2>6, <3>2, OlderSample
      <4>2. i = j \/ i = Other(j)
        BY OtherSignal
      <4> QED BY <1>1, <2>1, <4>1, <4>2
    <3> QED BY <3>1, <3>2
  <2> QED BY <2>3, <2>4, <2>5, <2>6 DEF Combining
<1> QED BY <1>2, <1>3, <1>4 DEF OrderInv

-----------------------------------------------------------------------------
(* The values                                                              *)

LEMMA DivExact ==
  ASSUME NEW d \in Nat \ {0}, NEW y \in Int
  PROVE  (d * y) \div d = y
BY SMT

LEMMA Divides ==
  ASSUME NEW d \in Nat \ {0}, NEW s \in Nat, s % d = 0
  PROVE  \E q \in Int : s = d * q
<1>1. s = d * (s \div d) + (s % d)
  BY SMT
<1>2. s \div d \in Int
  BY SMT
<1> QED BY <1>1, <1>2, SMT

LEMMA Distribute ==
  ASSUME NEW d \in Nat, NEW q \in Int, NEW m \in Nat, NEW n \in Nat, NEW e \in Nat
  PROVE  (n * (d * q) - m * (d * q)) * e = d * ((n - m) * q * e)
BY SMT

(* The interpolation is exact and lies on the line between two samples.    *)
LEMMA Interpolated ==
  ASSUME BoundsInv, Increasing, Multiples, NEW i \in Signals, NEW t \in Nat,
         Available(i), t < TimeOf(i), InRange(i, t), ~Matches(i, t)
  PROVE  ValueAt(i, t) \in Int /\ OnLine(i, t, ValueAt(i, t))
<1> DEFINE l == LowerBound(i, t)
           lo == l - 1
           d == time[i][lo + 1] - time[i][lo]
           e == t - time[i][lo]
           x == (data[i][lo + 1] - data[i][lo]) * e
<1>1. l \in 1..(pos[i] + 1) /\ l > 1
  BY LowerIsPassed
<1>2. pos[i] + 1 <= count[i] /\ pos[i] \in Nat /\ pos[i] + 1 \in DOMAIN time[i] /\ TimeOf(i) = time[i][pos[i] + 1]
  BY NextSample, Samples
<1>3. /\ lo \in DOMAIN time[i] /\ lo + 1 \in DOMAIN time[i] /\ lo \in DOMAIN data[i] /\ lo + 1 \in DOMAIN data[i]
      /\ lo \in 1..(Len(data[i]) - 1) /\ lo + 1 = l
  <2>1. /\ DOMAIN time[i] = 1..Len(time[i]) /\ DOMAIN data[i] = 1..Len(data[i])
        /\ Len(data[i]) \in Nat /\ Len(time[i]) \in Nat /\ count[i] \in Nat
        /\ count[i] <= Len(data[i]) /\ Len(data[i]) <= Len(time[i])
    BY Samples
  <2> HIDE DEF l
  <2> QED BY ONLY <1>1, <1>2, <2>1
<1>4. /\ time[i][lo] \in Times /\ time[i][lo + 1] \in Times
      /\ time[i][lo] \in Nat /\ time[i][lo + 1] \in Nat
      /\ data[i][lo] \in Nat /\ data[i][lo + 1] \in Nat
  BY <1>3, Samples
<1>5. time[i][l] >= t /\ \A k \in DOMAIN time[i] : k < l => time[i][k] < t
  <2>1. time[i][pos[i] + 1] >= t
    BY <1>2, Samples
  <2> QED BY <1>2, <2>1, LowerBoundFound DEF BoundsInv
<1>6. time[i][lo] < t /\ t < time[i][lo + 1]
  <2>1. time[i][l] # t
    BY DEF Matches
  <2> QED BY <1>1, <1>3, <1>4, <1>5, <2>1
<1>7. d \in Nat \ {0} /\ e \in Nat
  BY <1>4, <1>6
<1>8. PICK q \in Int : Scale = d * q
  <2>1. Scale % d = 0 /\ Scale \in Nat
    BY <1>4, <1>6, ConstantsOK
  <2> QED BY <1>7, <2>1, Divides
<1>9. PICK m \in Nat, n \in Nat : data[i][lo] = m * Scale /\ data[i][lo + 1] = n * Scale
  BY <1>3 DEF Multiples
<1>10. x = d * ((n - m) * q * e)
  <2> HIDE DEF d, e
  <2>1. (n * (d * q) - m * (d * q)) * e = d * ((n - m) * q * e)
    BY <1>7, Distribute
  <2> QED BY <1>8, <1>9, <2>1
<1>11. (n - m) * q * e \in Int
  BY <1>7
<1>12. x \div d = (n - m) * q * e
  <2> HIDE DEF d, x
  <2> QED BY <1>7, <1>10, <1>11, DivExact
<1>13. ValueAt(i, t) = data[i][lo] + x \div d
  BY <1>1 DEF ValueAt, LowerPos, Upper
<1>14. ValueAt(i, t) \in Int /\ (ValueAt(i, t) - data[i][lo]) * d = x
  <2> HIDE DEF d, x, e
  <2>1. ((n - m) * q * e) * d = d * ((n - m) * q * e)
    BY <1>7, <1>11
  <2> QED BY <1>4, <1>10, <1>11, <1>12, <1>13, <2>1
<1> QED BY <1>3, <1>6, <1>14 DEF OnLine

LEMMA MultiplesStep ==
  ASSUME BoundsInv, Multiples, [Next]_vars
  PROVE  Multiples'
<1>1. ASSUME NEW i \in Signals, NEW l \in Levels, data' = [data EXCEPT ![i] = Append(@, l * Scale)]
      PROVE  Multiples'
  <2>1. SUFFICES ASSUME NEW j \in Signals, NEW k \in DOMAIN data'[j]
                 PROVE  \E m \in Nat : data'[j][k] = m * Scale
    BY DEF Multiples
  <2>2. l \in Nat /\ l * Scale \in Nat /\ data[i] \in Seq(Nat) /\ data[j] \in Seq(Nat)
    BY ConstantsOK DEF BoundsInv, SignalTypes
  <2>3. data'[j] = IF j = i THEN Append(data[i], l * Scale) ELSE data[j]
    BY <1>1 DEF BoundsInv, SignalTypes
  <2>4. CASE j = i /\ k = Len(data[i]) + 1
    BY <2>2, <2>3, <2>4
  <2>5. CASE ~(j = i /\ k = Len(data[i]) + 1)
    <3>1. k \in DOMAIN data[j] /\ data'[j][k] = data[j][k]
      BY <2>2, <2>3, <2>5
    <3> QED BY <3>1 DEF Multiples
  <2> QED BY <2>4, <2>5
<1>2. ASSUME data' = data
      PROVE  Multiples'
  BY <1>2 DEF Multiples
<1>3. \/ data' = data
      \/ \E i \in Signals, l \in Levels : data' = [data EXCEPT ![i] = Append(@, l * Scale)]
  BY DEF Next, vars, signalVars, PushTime, PushData, PushCount, PushDirect, StartSlot, Skip, MergeEqual,
     MergeEnds, MergeOlder
<1> QED BY <1>1, <1>2, <1>3

LEMMA CombinedTimes ==
  ASSUME OutType, NEW k \in DOMAIN out
  PROVE  /\ k \in 1..Len(out) /\ Len(out) \in Nat /\ out[k].t \in Times /\ out[k].t \in Nat
<1> DEFINE T == [t : Times, v : [Signals -> Int]]
<1>1. out[k] \in T /\ k \in 1..Len(out) /\ Len(out) \in Nat
  <2>1. out \in Seq(T)
    BY DEF OutType
  <2> HIDE DEF T
  <2> QED BY <2>1
<1>2. out[k].t \in Times
  BY <1>1
<1> QED BY <1>1, <1>2, ConstantsOK

LEMMA OutQuiet ==
  ASSUME BoundsInv, BoundsInv', OrderInv, OutInv, Quiet
  PROVE  OutType' /\ OutIsPassed' /\ OutIsInRange' /\ OutIsInOrder' /\ CombinedIsRight'
<1>1. out' = out /\ pos' = pos /\ \A i \in Signals : Grown(i)
  BY DEF Quiet
<1>2. OutType' /\ OutIsInOrder'
  BY <1>1 DEF OutInv, OutType, OutIsInOrder
<1>3. \A i \in Signals : \A l \in 1..pos[i] : time'[i][l] = time[i][l]
  BY <1>1, Samples DEF Grown
<1>4. ASSUME NEW i \in Signals, time[i] # <<>>
      PROVE  1 \in DOMAIN time[i] /\ time'[i] # <<>> /\ time'[i][1] = time[i][1]
  BY <1>1, <1>4, Samples, SamplesNext DEF Grown
<1>5. OutIsPassed'
  <2>1. ASSUME NEW k \in DOMAIN out
        PROVE  \E i \in Signals : \E l \in 1..pos[i] : out[k].t = time'[i][l]
    BY <1>3 DEF OutInv, OutIsPassed
  <2>2. ASSUME NEW i \in Signals, NEW l \in 1..pos[i]
        PROVE  \/ \E k \in DOMAIN out : out[k].t = time'[i][l]
               \/ time'[i][l] < time'[Other(i)][1]
    <3>1. time[Other(i)] # <<>> /\ Other(i) \in Signals
      <4>1. Other(i) \in Signals
        BY OtherSignal
      <4>2. \E k \in DOMAIN time[Other(i)] : time[i][l] <= time[Other(i)][k]
        BY DEF OrderInv, PassedIsOlder
      <4> QED BY <4>1, <4>2, Samples
    <3>2. time'[i][l] = time[i][l] /\ time'[Other(i)][1] = time[Other(i)][1]
      BY <1>3, <1>4, <3>1
    <3> QED BY <3>2 DEF OutInv, OutIsPassed
  <2> QED BY <1>1, <2>1, <2>2 DEF OutIsPassed
<1>6. OutIsInRange'
  <2>1. SUFFICES ASSUME NEW k \in DOMAIN out, NEW i \in Signals
                 PROVE  /\ time'[i] # <<>> /\ out[k].t >= time'[i][1]
                        /\ out[k].t <= time'[i][Len(time'[i])]
    BY <1>1 DEF OutIsInRange, InRange, Last
  <2>2. time[i] # <<>> /\ out[k].t >= time[i][1] /\ out[k].t <= time[i][Len(time[i])]
    BY DEF OutInv, OutIsInRange, InRange, Last
  <2>3. out[k].t \in Nat
    BY CombinedTimes DEF OutInv
  <2>4. /\ Len(time[i]) \in DOMAIN time[i] /\ Len(time'[i]) \in DOMAIN time'[i]
        /\ time[i][Len(time[i])] \in Nat /\ time'[i][Len(time'[i])] \in Nat
    BY <1>4, <2>2, Samples, SamplesNext
  <2>5. time[i][Len(time[i])] <= time'[i][Len(time'[i])]
    <3>1. CASE Len(time'[i]) = Len(time[i])
      BY <1>1, <2>4, <3>1 DEF Grown
    <3>2. CASE Len(time'[i]) > Len(time[i])
      BY <1>1, <2>4, <3>2 DEF Grown
    <3> QED BY <1>1, <3>1, <3>2, Samples, SamplesNext DEF Grown
  <2> QED BY <1>4, <2>2, <2>3, <2>4, <2>5
<1>7. CombinedIsRight'
  <2>1. SUFFICES ASSUME NEW k \in DOMAIN out, NEW i \in Signals
                 PROVE  RightValue(i, out[k].t, out[k].v[i])'
    BY <1>1 DEF CombinedIsRight
  <2> DEFINE t == out[k].t
             v == out[k].v[i]
  <2>2. Grown(i) /\ t' = t /\ v' = v
    BY <1>1
  <2>3. RightValue(i, t, v)
    BY DEF OutInv, CombinedIsRight
  <2>4. DOMAIN data[i] \subseteq DOMAIN data'[i] /\ DOMAIN data[i] \subseteq DOMAIN time[i]
    BY <2>2, Samples, SamplesNext DEF Grown
  <2>5. CASE v \in Measured(i, t)
    <3>1. PICK n \in DOMAIN data[i] : time[i][n] = t /\ data[i][n] = v
      BY <2>5 DEF Measured
    <3>2. n \in DOMAIN data'[i] /\ time'[i][n] = t /\ data'[i][n] = v
      BY <2>2, <2>4, <3>1 DEF Grown
    <3>3. v \in {data'[i][m] : m \in {m \in DOMAIN data'[i] : time'[i][m] = t}}
      BY <3>2
    <3> QED BY <1>1, <3>3 DEF RightValue, Measured
  <2>6. CASE OnLine(i, t, v)
    <3>1. PICK n \in 1..(Len(data[i]) - 1) :
            /\ time[i][n] < t /\ t < time[i][n + 1]
            /\ (v - data[i][n]) * (time[i][n + 1] - time[i][n])
                 = (data[i][n + 1] - data[i][n]) * (t - time[i][n])
      BY <2>6 DEF OnLine
    <3>2. /\ n \in DOMAIN data[i] /\ n + 1 \in DOMAIN data[i] /\ n \in 1..(Len(data'[i]) - 1)
      BY <2>2, Samples, SamplesNext DEF Grown
    <3>3. /\ time'[i][n] = time[i][n] /\ time'[i][n + 1] = time[i][n + 1]
          /\ data'[i][n] = data[i][n] /\ data'[i][n + 1] = data[i][n + 1]
      BY <2>2, <2>4, <3>2 DEF Grown
    <3>4. \E m \in 1..(Len(data'[i]) - 1) :
            /\ time'[i][m] < t /\ t < time'[i][m + 1]
            /\ (v - data'[i][m]) * (time'[i][m + 1] - time'[i][m])
                 = (data'[i][m + 1] - data'[i][m]) * (t - time'[i][m])
      BY <3>1, <3>2, <3>3
    <3> QED BY <1>1, <3>4 DEF RightValue, OnLine
  <2> QED BY <2>3, <2>5, <2>6 DEF RightValue
<1> QED BY <1>2, <1>5, <1>6, <1>7

(* A step that combines nothing passes only what is too early.             *)
LEMMA OutKept ==
  ASSUME BoundsInv, BoundsInv', OrderInv, OutInv, out' = out, UNCHANGED <<time, data>>,
         \A i \in Signals : pos[i] <= pos'[i],
         \A i \in Signals : \A l \in (pos[i] + 1)..pos'[i] : time[i][l] < time[Other(i)][1]
  PROVE  OutType' /\ OutIsPassed' /\ OutIsInRange' /\ OutIsInOrder' /\ CombinedIsRight'
<1>1. OutType' /\ OutIsInRange' /\ OutIsInOrder'
  BY DEF OutInv, OutType, OutIsInRange, OutIsInOrder, InRange
<1>2. CombinedIsRight'
  <2>1. SUFFICES ASSUME NEW k \in DOMAIN out, NEW i \in Signals
                 PROVE  RightValue(i, out[k].t, out[k].v[i])'
    BY DEF CombinedIsRight
  <2>2. RightValue(i, out[k].t, out[k].v[i])
    BY DEF OutInv, CombinedIsRight
  <2> QED BY <2>2 DEF RightValue, Measured, OnLine
<1>3. \A i \in Signals : pos[i] \in Nat /\ pos'[i] \in Nat
  BY Samples, SamplesNext
<1>4. OutIsPassed'
  <2>1. ASSUME NEW k \in DOMAIN out
        PROVE  \E i \in Signals : \E l \in 1..pos'[i] : out[k].t = time[i][l]
    <3>1. PICK i \in Signals : \E l \in 1..pos[i] : out[k].t = time[i][l]
      BY DEF OutInv, OutIsPassed
    <3>2. PICK l \in 1..pos[i] : out[k].t = time[i][l]
      BY <3>1
    <3>3. l \in 1..pos'[i]
      BY <1>3
    <3> QED BY <3>2, <3>3
  <2>2. ASSUME NEW i \in Signals, NEW l \in 1..pos'[i]
        PROVE  \/ \E k \in DOMAIN out : out[k].t = time[i][l]
               \/ time[i][l] < time[Other(i)][1]
    <3>1. l \in 1..pos[i] \/ l \in (pos[i] + 1)..pos'[i]
      BY <1>3
    <3> QED BY <3>1 DEF OutInv, OutIsPassed
  <2> QED BY <2>1, <2>2 DEF OutIsPassed
<1> QED BY <1>1, <1>2, <1>4

(* A step that combines appends the next time stamp with its two values.   *)
LEMMA OutAppended ==
  ASSUME BoundsInv, BoundsInv', OrderInv, OutInv, UNCHANGED <<time, data>>,
         NEW a \in Signals, Available(a), pos'[a] = pos[a] + 1,
         pos'[Other(a)] = pos[Other(a)] \/ /\ Available(Other(a)) /\ TimeOf(Other(a)) = TimeOf(a)
                                           /\ pos'[Other(a)] = pos[Other(a)] + 1,
         NEW v \in [Signals -> Int], out' = Append(out, [t |-> TimeOf(a), v |-> v]),
         \A i \in Signals : InRange(i, TimeOf(a)) /\ RightValue(i, TimeOf(a), v[i])
  PROVE  OutType' /\ OutIsPassed' /\ OutIsInRange' /\ OutIsInOrder' /\ CombinedIsRight'
<1> DEFINE s == [t |-> TimeOf(a), v |-> v]
<1>1. /\ TimeOf(a) \in Times /\ TimeOf(a) \in Nat /\ TimeOf(a) = time[a][pos[a] + 1]
      /\ pos[a] + 1 \in DOMAIN time[a]
  BY NextSample
<1>2. out \in Seq([t : Times, v : [Signals -> Int]]) /\ s \in [t : Times, v : [Signals -> Int]]
  BY <1>1 DEF OutInv, OutType
<1>3. OutType'
  BY <1>2 DEF OutType
<1>4. /\ Len(out) \in Nat /\ DOMAIN out = 1..Len(out) /\ DOMAIN out' = 1..(Len(out) + 1)
      /\ Len(out') = Len(out) + 1 /\ out'[Len(out) + 1] = s
      /\ \A k \in DOMAIN out : out'[k] = out[k]
  BY <1>2
<1>5. s.t = TimeOf(a) /\ s.v = v
  OBVIOUS
<1>6. ASSUME NEW k \in DOMAIN out'
      PROVE  \/ k \in DOMAIN out /\ out'[k] = out[k]
             \/ k = Len(out) + 1 /\ out'[k] = s
  BY ONLY <1>4, <1>6
<1>7. /\ Other(a) \in Signals /\ Other(a) # a /\ Other(Other(a)) = a
      /\ \A i \in Signals : i = a \/ i = Other(a)
      /\ \A i \in Signals : pos[i] \in Nat /\ pos'[i] \in Nat /\ pos[i] <= pos'[i]
  <2>1. /\ Other(a) \in Signals /\ Other(a) # a /\ Other(Other(a)) = a
        /\ \A i \in Signals : i = a \/ i = Other(a)
    BY OtherSignal
  <2>2. \A i \in Signals : pos[i] \in Nat /\ pos'[i] \in Nat
    BY Samples, SamplesNext
  <2>3. pos[a] <= pos'[a] /\ pos[Other(a)] <= pos'[Other(a)]
    BY <2>1, <2>2
  <2> QED BY <2>1, <2>2, <2>3
<1>8. ASSUME NEW i \in Signals, NEW l \in 1..pos'[i], l \notin 1..pos[i]
      PROVE  time[i][l] = TimeOf(a)
  <2>1. CASE i = a
    BY <1>1, <1>7, <1>8, <2>1
  <2>2. CASE i = Other(a)
    <3>1. /\ Available(i) /\ TimeOf(i) = TimeOf(a) /\ l = pos[i] + 1
      BY <1>7, <1>8, <2>2
    <3> QED BY <3>1, NextSample
  <2> QED BY <1>7, <2>1, <2>2
<1>9. OutIsPassed'
  <2>1. ASSUME NEW k \in DOMAIN out'
        PROVE  \E i \in Signals : \E l \in 1..pos'[i] : out'[k].t = time[i][l]
    <3>1. CASE k \in DOMAIN out /\ out'[k] = out[k]
      <4>1. PICK i \in Signals : \E l \in 1..pos[i] : out[k].t = time[i][l]
        BY <3>1 DEF OutInv, OutIsPassed
      <4>2. PICK l \in 1..pos[i] : out[k].t = time[i][l]
        BY <4>1
      <4>3. l \in 1..pos'[i]
        BY <1>7
      <4> QED BY <3>1, <4>2, <4>3
    <3>2. CASE k = Len(out) + 1 /\ out'[k] = s
      <4>1. pos[a] + 1 \in 1..pos'[a]
        BY <1>7
      <4> QED BY <1>1, <1>5, <3>2, <4>1
    <3> QED BY <1>6, <2>1, <3>1, <3>2
  <2>2. ASSUME NEW i \in Signals, NEW l \in 1..pos'[i]
        PROVE  \/ \E k \in DOMAIN out' : out'[k].t = time[i][l]
               \/ time[i][l] < time[Other(i)][1]
    <3>1. CASE l \in 1..pos[i]
      <4>1. CASE \E k \in DOMAIN out : out[k].t = time[i][l]
        <5>1. PICK k \in DOMAIN out : out[k].t = time[i][l]
          BY <4>1
        <5>2. k \in DOMAIN out' /\ out'[k] = out[k]
          BY <1>4
        <5> QED BY <5>1, <5>2
      <4> QED BY <3>1, <4>1 DEF OutInv, OutIsPassed
    <3>2. CASE l \notin 1..pos[i]
      <4>1. Len(out) + 1 \in DOMAIN out'
        BY <1>4
      <4> QED BY <1>4, <1>5, <1>8, <2>2, <3>2, <4>1
    <3> QED BY <3>1, <3>2
  <2> QED BY <2>1, <2>2 DEF OutIsPassed
<1>10. OutIsInRange'
  <2>1. SUFFICES ASSUME NEW k \in DOMAIN out', NEW i \in Signals
                 PROVE  InRange(i, out'[k].t)
    BY DEF OutIsInRange, InRange
  <2> QED BY <1>5, <1>6 DEF OutInv, OutIsInRange
<1>11. ASSUME NEW k \in DOMAIN out
       PROVE  out[k].t < TimeOf(a)
  <2>1. PICK i \in Signals : \E l \in 1..pos[i] : out[k].t = time[i][l]
    BY DEF OutInv, OutIsPassed
  <2>2. PICK l \in 1..pos[i] : out[k].t = time[i][l]
    BY <2>1
  <2>3. l \in DOMAIN time[i] /\ l < pos[i] + 1
    BY Samples
  <2>4. CASE i = a
    BY <1>1, <2>2, <2>3, <2>4 DEF OrderInv, Increasing
  <2>5. CASE i = Other(a)
    <3>1. Other(i) = a /\ pos[a] + 1 \in DOMAIN time[Other(i)] /\ pos[a] + 1 > pos[Other(i)]
      BY <1>1, <1>7, <2>5
    <3>2. time[i][l] < time[Other(i)][pos[a] + 1]
      BY <3>1 DEF OrderInv, PassedIsOlder
    <3> QED BY <1>1, <2>2, <3>1, <3>2
  <2> QED BY <1>7, <2>4, <2>5
<1>12. OutIsInOrder'
  <2>1. SUFFICES ASSUME NEW k \in 2..Len(out')
                 PROVE  out'[k - 1].t < out'[k].t
    BY DEF OutIsInOrder
  <2>2. k - 1 \in DOMAIN out /\ out'[k - 1] = out[k - 1]
    BY <1>4
  <2>3. CASE k = Len(out) + 1
    BY <1>4, <1>5, <1>11, <2>2, <2>3
  <2>4. CASE k # Len(out) + 1
    <3>1. k \in 2..Len(out) /\ out'[k] = out[k]
      BY <1>4, <2>4
    <3> QED BY <2>2, <3>1 DEF OutInv, OutIsInOrder
  <2> QED BY <2>3, <2>4
<1>13. CombinedIsRight'
  <2>1. SUFFICES ASSUME NEW k \in DOMAIN out', NEW i \in Signals
                 PROVE  RightValue(i, out[k].t, out[k].v[i])'
    BY DEF CombinedIsRight
  <2>2. k \in DOMAIN out => RightValue(i, out[k].t, out[k].v[i])
    BY DEF OutInv, CombinedIsRight
  <2>3. RightValue(i, s.t, s.v[i])
    BY <1>5
  <2>4. RightValue(i, out'[k].t, out'[k].v[i])
    BY <1>6, <2>2, <2>3
  <2> QED BY <2>4 DEF RightValue, Measured, OnLine
<1> QED BY <1>3, <1>9, <1>10, <1>12, <1>13

LEMMA NextIsRight ==
  ASSUME BoundsInv, Increasing, NEW i \in Signals, Available(i)
  PROVE  /\ InRange(i, TimeOf(i)) /\ ValueOf(i) \in Int /\ RightValue(i, TimeOf(i), ValueOf(i))
<1>1. /\ pos[i] + 1 \in DOMAIN time[i] /\ pos[i] + 1 \in DOMAIN data[i] /\ TimeOf(i) = time[i][pos[i] + 1]
      /\ ValueOf(i) = data[i][pos[i] + 1] /\ TimeOf(i) \in Nat
  BY NextSample
<1>2. /\ DOMAIN time[i] = 1..Len(time[i]) /\ Len(time[i]) \in Nat /\ pos[i] \in Nat
      /\ \A k \in DOMAIN time[i] : time[i][k] \in Nat
  BY Samples
<1>3. 1 \in DOMAIN time[i] /\ Len(time[i]) \in DOMAIN time[i] /\ time[i] # <<>>
  BY <1>1, <1>2
<1>4. time[i][1] <= TimeOf(i)
  <2>1. pos[i] + 1 = 1 \/ time[i][1] < time[i][pos[i] + 1]
    BY <1>1, <1>2, <1>3 DEF Increasing
  <2> QED BY <1>1, <1>2, <1>3, <2>1
<1>5. TimeOf(i) <= time[i][Len(time[i])]
  <2>1. pos[i] + 1 = Len(time[i]) \/ time[i][pos[i] + 1] < time[i][Len(time[i])]
    BY <1>1, <1>2, <1>3 DEF Increasing
  <2> QED BY <1>1, <1>2, <1>3, <2>1
<1>6. ValueOf(i) \in Measured(i, TimeOf(i))
  BY <1>1 DEF Measured
<1> QED BY <1>1, <1>2, <1>3, <1>4, <1>5, <1>6, Samples DEF InRange, Last, RightValue

LEMMA OutCombining ==
  ASSUME BoundsInv, BoundsInv', OrderInv, OutInv, Combining
  PROVE  OutType' /\ OutIsPassed' /\ OutIsInRange' /\ OutIsInOrder' /\ CombinedIsRight'
<1> DEFINE Goal == OutType' /\ OutIsPassed' /\ OutIsInRange' /\ OutIsInOrder' /\ CombinedIsRight'
<1>1. \A i \in Signals : pos[i] \in Nat /\ pos[i] <= pos[i]
  BY Samples
<1>2. ASSUME out' = out, pos' = pos, UNCHANGED <<time, data>>
      PROVE  Goal
  <2>1. \A i \in Signals : \A l \in (pos[i] + 1)..pos[i] : time[i][l] < time[Other(i)][1]
    BY <1>1
  <2>2. /\ \A i \in Signals : pos[i] <= pos'[i]
        /\ \A i \in Signals : \A l \in (pos[i] + 1)..pos'[i] : time[i][l] < time[Other(i)][1]
    BY <1>1, <1>2, <2>1
  <2> QED BY <1>2, <2>2, OutKept
<1>3. CASE Skip
  <2>1. out' = out /\ UNCHANGED <<time, data>> /\ gui = "skip"
    BY <1>3, SkipCases
  <2>2. CASE pos' = pos
    BY <1>2, <2>1, <2>2
  <2>3. CASE /\ ~(\A i \in Signals : pos[i] > 0) /\ \A i \in Signals : Available(i)
             /\ \A i \in Signals : pos'[i] = IF TimeOf(i) < TimeOf(Other(i)) THEN SkipTo(i) ELSE pos[i]
    <3>1. \A i \in Signals : pos[i] <= pos'[i]
      BY <1>3, NewlyPassed DEF Combining
    <3>2. ASSUME NEW i \in Signals, NEW l \in (pos[i] + 1)..pos'[i]
          PROVE  time[i][l] < time[Other(i)][1]
      <4>1. /\ Other(i) \in Signals /\ Available(i) /\ Available(Other(i))
            /\ \A j \in Signals : j = i \/ j = Other(i)
        BY <2>3, OtherSignal
      <4>2. TimeOf(i) < TimeOf(Other(i)) /\ pos'[i] = SkipTo(i)
        BY <1>1, <2>3, <3>2
      <4>3. ~(time[i][l] >= TimeOf(Other(i))) /\ SkipTo(i) \in pos[i]..(count[i] - 1)
        BY <3>2, <4>1, <4>2, SkipToFound
      <4>4. time[i][l] \in Nat
        BY <1>1, <3>2, <4>2, <4>3, Samples
      <4>5. /\ TimeOf(i) = time[i][pos[i] + 1] /\ TimeOf(i) \in Nat
            /\ TimeOf(Other(i)) = time[Other(i)][pos[Other(i)] + 1] /\ TimeOf(Other(i)) \in Nat
        BY <4>1, NextSample
      <4>6. CASE pos[Other(i)] = 0
        BY <4>3, <4>4, <4>5, <4>6
      <4>7. CASE pos[Other(i)] # 0
        <5>1. pos[i] = 0 /\ pos[Other(i)] > 0
          BY <1>1, <2>3, <4>1, <4>7
        <5>2. time[Other(i)][pos[Other(i)] + 1] < time[i][1]
          BY <2>1, <5>1 DEF OrderInv, StartInv
        <5> QED BY <4>2, <4>5, <5>1, <5>2
      <4> QED BY <4>6, <4>7
    <3> QED BY <2>1, <3>1, <3>2, OutKept
  <2> QED BY <1>3, <2>2, <2>3, SkipCases
<1>4. CASE MergeEqual
  <2> DEFINE v == [i \in Signals |-> ValueOf(i)]
  <2>1. /\ 1 \in Signals /\ Other(1) = 2 /\ Available(1) /\ Available(2) /\ TimeOf(1) = TimeOf(2)
        /\ pos'[1] = pos[1] + 1 /\ pos'[2] = pos[2] + 1 /\ UNCHANGED <<time, data>>
        /\ out' = Append(out, [t |-> TimeOf(1), v |-> v])
    BY <1>4 DEF MergeEqual, signalVars, Signals, Other
  <2>2. \A i \in Signals : Available(i) /\ TimeOf(i) = TimeOf(1)
    BY <2>1 DEF Signals
  <2>3. v \in [Signals -> Int]
    BY <2>2, NextIsRight DEF OrderInv
  <2>4. \A i \in Signals : InRange(i, TimeOf(1)) /\ RightValue(i, TimeOf(1), v[i])
    <3>1. ASSUME NEW i \in Signals
          PROVE  InRange(i, TimeOf(1)) /\ RightValue(i, TimeOf(1), v[i])
      <4>1. InRange(i, TimeOf(i)) /\ RightValue(i, TimeOf(i), ValueOf(i))
        BY <2>2, NextIsRight DEF OrderInv
      <4> QED BY <2>2, <4>1
    <3> QED BY <3>1
  <2> HIDE DEF v
  <2> QED BY <2>1, <2>2, <2>3, <2>4, OutAppended
<1>5. CASE MergeEnds
  BY <1>2, <1>5 DEF MergeEnds, signalVars
<1>6. ASSUME NEW i \in Signals, MergeOlder(i)
      PROVE  Goal
  <2> DEFINE j == Other(i)
             t == TimeOf(i)
             v == [k \in Signals |-> IF k = i THEN ValueOf(i) ELSE ValueAt(j, t)]
  <2>1. /\ j \in Signals /\ j # i /\ Other(j) = i /\ \A k \in Signals : k = i \/ k = j
        /\ Available(i) /\ Available(j) /\ t < TimeOf(j) /\ UNCHANGED <<time, data>>
    BY <1>6, OtherSignal, OlderSample
  <2>2. /\ t = time[i][pos[i] + 1] /\ t \in Nat /\ pos[i] + 1 \in DOMAIN time[i]
        /\ TimeOf(j) = time[j][pos[j] + 1]
    BY <2>1, NextSample
  <2>3. CASE ~InRange(j, t)
    <3>1. pos' = pos /\ out' = out
      BY <1>6, <2>3, OlderSample
    <3> QED BY <1>2, <2>1, <3>1
  <2>4. CASE InRange(j, t)
    <3>1. /\ pos'[i] = pos[i] + 1 /\ pos'[j] = pos[j] /\ out' = Append(out, [t |-> t, v |-> v])
      BY <1>6, <2>4, OlderSample
    <3>2. ~Matches(j, t)
      <4>1. LowerBound(j, t) \in 1..(pos[j] + 1)
        BY <2>1, <2>2, <2>4, LowerIsPassed
      <4>2. CASE LowerBound(j, t) = pos[j] + 1
        BY <2>1, <2>2, <4>2 DEF Matches
      <4>3. CASE LowerBound(j, t) \in 1..pos[j]
        <5>1. pos[i] + 1 \in DOMAIN time[Other(j)] /\ pos[i] + 1 > pos[Other(j)]
          BY <1>1, <2>1, <2>2
        <5>2. time[j][LowerBound(j, t)] < time[Other(j)][pos[i] + 1]
          BY <2>1, <4>3, <5>1 DEF OrderInv, PassedIsOlder
        <5>3. time[j][LowerBound(j, t)] < t
          BY <2>1, <2>2, <5>2
        <5> QED BY <2>2, <5>3 DEF Matches
      <4> QED BY <1>1, <2>1, <4>1, <4>2, <4>3
    <3>3. ValueAt(j, t) \in Int /\ RightValue(j, t, ValueAt(j, t))
      BY <2>1, <2>2, <2>4, <3>2, Interpolated DEF OrderInv, OutInv, RightValue
    <3>4. InRange(i, t) /\ ValueOf(i) \in Int /\ RightValue(i, t, ValueOf(i))
      BY <2>1, NextIsRight DEF OrderInv
    <3>5. v \in [Signals -> Int] /\ v[i] = ValueOf(i) /\ v[j] = ValueAt(j, t)
      BY <2>1, <3>3, <3>4
    <3>6. \A k \in Signals : InRange(k, t) /\ RightValue(k, t, v[k])
      BY <2>1, <2>4, <3>3, <3>4, <3>5
    <3> HIDE DEF v
    <3> QED BY <2>1, <3>1, <3>5, <3>6, OutAppended
  <2> QED BY <2>3, <2>4
<1> QED BY <1>3, <1>4, <1>5, <1>6 DEF Combining

-----------------------------------------------------------------------------
(* The end of a call                                                       *)

LEMMA DoneQuiet ==
  ASSUME BoundsInv, BoundsInv', OrderInv, DoneInv, Quiet
  PROVE  DoneInv'
<1>1. SUFFICES ASSUME queued' = 0
               PROVE  /\ gui' = "idle" => Done'
                      /\ gui' = "merge" => \A i \in Signals :
                           pos'[Other(i)] = 0 /\ Available(1)' /\ Available(2)' /\ TimeOf(i)' < TimeOf(Other(i))'
                             => Waits(i)'
  BY DEF DoneInv
<1>2. CASE gui' = "skip"
  BY <1>2
<1>3. CASE gui' # "skip"
  <2>1. /\ queued = 0 /\ gui' = gui /\ count' = count /\ pos' = pos
        /\ \A i \in Signals : Grown(i)
    BY <1>1, <1>3 DEF Quiet
  <2>2. ASSUME NEW i \in Signals, Available(i)
        PROVE  TimeOf(i)' = TimeOf(i)
    <3>1. time'[i][pos[i] + 1] = time[i][pos[i] + 1]
      BY <2>1, <2>2, NextSample DEF Grown
    <3> QED BY <2>1, <2>2, <3>1 DEF TimeOf, Available
  <2>3. \A i \in Signals : Available(i)' <=> Available(i)
    BY <2>1 DEF Available
  <2>4. ASSUME NEW i \in Signals, Waits(i)
        PROVE  Waits(i)'
    <3>1. /\ Other(i) \in Signals /\ pos[Other(i)] = 0 /\ time[Other(i)] # <<>>
          /\ pos[i] + 1 = count[i] /\ time[i][count[i]] < time[Other(i)][1]
      BY <2>4, OtherSignal DEF Waits
    <3>2. count[i] \in DOMAIN time[i] /\ 1 \in DOMAIN time[Other(i)] /\ time'[Other(i)] # <<>>
      <4>1. count[i] \in DOMAIN time[i]
        BY <3>1, Samples
      <4>2. 1 \in DOMAIN time[Other(i)] /\ Len(time[Other(i)]) > 0
        BY <3>1, Samples
      <4>3. Len(time[Other(i)]) <= Len(time'[Other(i)])
        BY <2>1, <3>1 DEF Grown
      <4>4. Len(time'[Other(i)]) > 0
        BY <3>1, <4>2, <4>3, Samples, SamplesNext
      <4> QED BY <3>1, <4>1, <4>2, <4>4, SamplesNext
    <3>3. time'[i][count[i]] = time[i][count[i]] /\ time'[Other(i)][1] = time[Other(i)][1]
      BY <2>1, <3>1, <3>2 DEF Grown
    <3> QED BY <2>1, <3>1, <3>2, <3>3 DEF Waits
  <2>5. gui = "idle" => Done'
    <3>1. gui = "idle" => Done
      BY <2>1 DEF DoneInv
    <3>2. ASSUME \E i \in Signals : count[i] = 0 \/ ~Available(i)
          PROVE  Done'
      BY <2>1, <2>3, <3>2 DEF Done
    <3>3. ASSUME NEW i \in Signals, Waits(i)
          PROVE  Done'
      BY <2>4, <3>3 DEF Done
    <3> QED BY <3>1, <3>2, <3>3 DEF Done
  <2>6. ASSUME gui = "merge", NEW i \in Signals, pos'[Other(i)] = 0, Available(1)', Available(2)',
               TimeOf(i)' < TimeOf(Other(i))'
        PROVE  Waits(i)'
    <3>1. Available(i) /\ Available(Other(i)) /\ Available(1) /\ Available(2) /\ Other(i) \in Signals
      BY <2>3, <2>6 DEF Signals, Other
    <3>2. TimeOf(i)' = TimeOf(i) /\ TimeOf(Other(i))' = TimeOf(Other(i))
      BY <2>2, <3>1
    <3>3. Waits(i)
      BY <2>1, <2>6, <3>1, <3>2 DEF DoneInv
    <3> QED BY <2>4, <3>3
  <2> QED BY <2>1, <2>5, <2>6
<1> QED BY <1>2, <1>3

LEMMA DoneCombining ==
  ASSUME BoundsInv, BoundsInv', OrderInv, DoneInv, Combining
  PROVE  DoneInv'
<1>1. /\ UNCHANGED <<time, data, count, queued>>
      /\ \A i \in Signals : pos[i] \in Nat /\ pos'[i] \in Nat /\ pos[i] <= pos'[i]
  <2>1. \A i \in Signals : pos[i] <= pos'[i] /\ UNCHANGED <<time, data, count, queued>>
    BY NewlyPassed
  <2>2. UNCHANGED <<time, data, count, queued>>
    BY <2>1 DEF Signals
  <2> QED BY <2>1, <2>2, Samples, SamplesNext
<1>2. ASSUME pos' = pos, \E i \in Signals : count[i] = 0 \/ ~Available(i), gui' = "idle"
      PROVE  DoneInv'
  BY <1>1, <1>2 DEF DoneInv, Done, Available
<1>3. ASSUME gui' = "merge", \A i \in Signals : pos'[i] # 0
      PROVE  DoneInv'
  BY <1>3, OtherSignal DEF DoneInv
<1>4. CASE Skip
  <2>1. CASE gui' = "idle" /\ pos' = pos /\ \E i \in Signals : count[i] = 0 \/ ~Available(i)
    BY <1>2, <2>1
  <2>2. CASE gui' = "merge" /\ pos' = pos /\ \A i \in Signals : pos[i] > 0
    BY <1>1, <1>3, <2>2
  <2>3. CASE /\ gui' = "merge" /\ \A i \in Signals : Available(i)
             /\ \A i \in Signals : pos'[i] = IF TimeOf(i) < TimeOf(Other(i)) THEN SkipTo(i) ELSE pos[i]
    <3>1. SUFFICES ASSUME NEW i \in Signals, pos'[Other(i)] = 0, Available(i)', Available(Other(i))',
                          TimeOf(i)' < TimeOf(Other(i))'
                   PROVE  Waits(i)'
      BY <2>3 DEF DoneInv, Signals, Other
    <3> DEFINE j == Other(i)
    <3>2. /\ j \in Signals /\ j # i /\ pos[j] = 0 /\ Available(i) /\ Available(j)
      BY <1>1, <2>3, <3>1, OtherSignal
    <3>3. /\ TimeOf(i) = time[i][pos[i] + 1] /\ TimeOf(i) \in Nat /\ pos[i] + 1 \in DOMAIN time[i]
          /\ TimeOf(j) = time[j][1] /\ TimeOf(j) \in Nat /\ 1 \in DOMAIN time[j]
      BY <3>2, NextSample
    <3>4. TimeOf(i)' = time[i][pos'[i] + 1] /\ TimeOf(j)' = time[j][1]
      BY <1>1, <3>1, <3>2 DEF TimeOf, Available
    <3>5. TimeOf(i) < TimeOf(j)
      BY <2>3, <3>1, <3>3, <3>4
    <3>6. pos'[i] = SkipTo(i)
      BY <2>3, <3>5
    <3>7. /\ SkipTo(i) \in pos[i]..(count[i] - 1)
          /\ time[i][SkipTo(i) + 1] >= TimeOf(j) \/ SkipTo(i) + 1 = count[i]
      BY <3>2, SkipToFound
    <3>8. count[i] \in Nat /\ SkipTo(i) + 1 \in DOMAIN time[i] /\ time[i][SkipTo(i) + 1] \in Nat
      BY <1>1, <3>7, Samples
    <3>9. pos'[i] + 1 = count[i] /\ time[i][count[i]] < time[j][1]
      BY <3>1, <3>3, <3>4, <3>6, <3>7, <3>8
    <3>10. time[j] # <<>>
      BY <3>2, <3>3, Samples
    <3> QED BY <1>1, <3>1, <3>9, <3>10 DEF Waits
  <2> QED BY <1>4, <2>1, <2>2, <2>3, SkipCases
<1>5. CASE MergeEqual
  BY <1>1, <1>3, <1>5 DEF MergeEqual
<1>6. CASE MergeEnds
  BY <1>2, <1>6 DEF MergeEnds
<1>7. ASSUME NEW i \in Signals, MergeOlder(i)
      PROVE  DoneInv'
  <2> DEFINE j == Other(i)
  <2>1. /\ j \in Signals /\ j # i /\ \A k \in Signals : k = i \/ k = j
        /\ Available(i) /\ Available(j) /\ TimeOf(i) < TimeOf(j)
    BY <1>7, OtherSignal, OlderSample
  <2>2. CASE ~InRange(j, TimeOf(i))
    <3>1. gui' = "idle" /\ pos' = pos /\ ~(pos[j] > 0) /\ gui = "merge"
      BY <1>7, <2>2, OlderSample DEF MergeOlder
    <3>2. pos[j] = 0
      BY <1>1, <2>1, <3>1
    <3>3. queued = 0 => Waits(i)
      BY <2>1, <3>1, <3>2 DEF DoneInv, Signals
    <3>4. Waits(i) => Waits(i)'
      BY <1>1, <3>1 DEF Waits
    <3> QED BY <1>1, <2>1, <3>1, <3>3, <3>4 DEF DoneInv, Done
  <2>3. CASE InRange(j, TimeOf(i))
    <3>1. gui' = "merge" /\ pos'[i] = pos[i] + 1 /\ pos'[j] = pos[j] /\ pos[j] > 0
      BY <1>7, <2>3, OlderSample
    <3>2. \A k \in Signals : pos'[k] # 0
      BY <1>1, <2>1, <3>1
    <3> QED BY <1>3, <3>1, <3>2
  <2> QED BY <2>2, <2>3
<1> QED BY <1>4, <1>5, <1>6, <1>7 DEF Combining

-----------------------------------------------------------------------------
(* The whole invariant                                                     *)

LEMMA CombineStep ==
  ASSUME Strict, CombineInv, NeverThrows, [Next]_vars
  PROVE  CombineInv' /\ NeverThrows'
<1>1. BoundsInv /\ OrderInv /\ Increasing /\ OutInv /\ Multiples /\ DoneInv
  BY DEF CombineInv, OrderInv, OutInv
<1>2. BoundsInv' /\ NeverThrows'
  BY <1>1, BoundsStep
<1>3. Multiples'
  BY <1>1, MultiplesStep
<1>4. (Waiting \/ UNCHANGED vars) \/ Combining
  BY DEF Next, Waiting, Combining
<1>5. CASE Waiting \/ UNCHANGED vars
  <2>1. Quiet
    BY <1>1, <1>5, WaitingIsQuiet
  <2>2. OrderInv'
    BY <1>1, <1>2, <2>1, OrderQuiet
  <2>3. OutType' /\ OutIsPassed' /\ OutIsInRange' /\ OutIsInOrder' /\ CombinedIsRight'
    BY <1>1, <1>2, <2>1, OutQuiet
  <2>4. DoneInv'
    BY <1>1, <1>2, <2>1, DoneQuiet
  <2> QED BY <1>2, <1>3, <2>2, <2>3, <2>4 DEF CombineInv, OutInv
<1>6. CASE Combining
  <2>1. OrderInv'
    BY <1>1, <1>2, <1>6, OrderCombining
  <2>2. OutType' /\ OutIsPassed' /\ OutIsInRange' /\ OutIsInOrder' /\ CombinedIsRight'
    BY <1>1, <1>2, <1>6, OutCombining
  <2>3. DoneInv'
    BY <1>1, <1>2, <1>6, DoneCombining
  <2> QED BY <1>2, <1>3, <2>1, <2>2, <2>3 DEF CombineInv, OutInv
<1> QED BY <1>4, <1>5, <1>6

(* Between two calls nothing of the common range is missing.               *)
LEMMA NothingMissing ==
  ASSUME CombineInv
  PROVE  CombinedIsComplete
<1>1. BoundsInv /\ OrderInv /\ OutInv /\ DoneInv
  BY DEF CombineInv
<1>2. \A k \in 2..Len(out) : out[k - 1].t < out[k].t
  BY <1>1 DEF OutInv, OutIsInOrder
<1>3. ASSUME gui = "idle", queued = 0, \A i \in Signals : Len(time[i]) = count[i]
      PROVE  {out[k].t : k \in DOMAIN out} = InBoth
  <2>1. ASSUME NEW k \in DOMAIN out
        PROVE  out[k].t \in InBoth
    <3>1. PICK i \in Signals : \E l \in 1..pos[i] : out[k].t = time[i][l]
      BY <1>1 DEF OutInv, OutIsPassed
    <3>2. PICK l \in 1..pos[i] : out[k].t = time[i][l]
      BY <3>1
    <3>3. l \in 1..count[i]
      BY <1>1, Samples
    <3>4. out[k].t \in Stamps(i) /\ Stamps(i) \subseteq Stamps(1) \cup Stamps(2)
      BY <3>2, <3>3 DEF Stamps, Signals
    <3> QED BY <1>1, <3>4 DEF InBoth, OutInv, OutIsInRange
  <2>2. ASSUME NEW t \in InBoth
        PROVE  t \in {out[k].t : k \in DOMAIN out}
    <3>1. PICK i \in Signals : \E n \in 1..count[i] : t = time[i][n]
      BY DEF InBoth, Stamps, Signals
    <3>2. PICK n \in 1..count[i] : t = time[i][n]
      BY <3>1
    <3>3. \A j \in Signals : /\ time[j] # <<>> /\ count[j] \in DOMAIN time[j] /\ t >= time[j][1]
                            /\ t <= time[j][count[j]] /\ 1 \in DOMAIN time[j] /\ count[j] # 0
      BY <1>1, <1>3, Samples DEF InBoth, InRange, Last
    <3>4. n \in DOMAIN time[i] /\ t \in Nat /\ Other(i) \in Signals /\ Other(Other(i)) = i
      BY <1>1, <1>3, <3>2, Samples, OtherSignal
    <3>5. CASE n \in 1..pos[i]
      <4>1. ~(t < time[Other(i)][1])
        BY <1>1, <3>3, <3>4, Samples
      <4>2. \E k \in DOMAIN out : out[k].t = t
        BY <1>1, <3>2, <3>5, <4>1 DEF OutInv, OutIsPassed
      <4> QED BY <4>2
    <3>6. CASE n \notin 1..pos[i]
      <4>1. Done
        BY <1>1, <1>3 DEF DoneInv
      <4>2. ASSUME NEW j \in Signals, ~Available(j)
            PROVE  FALSE
        <5>1. pos[j] = count[j] /\ count[j] \in 1..pos[j]
          BY <1>1, <3>3, <4>2, Samples DEF Available
        <5>2. j = Other(i)
          BY <3>6, <5>1, OtherSignal
        <5>3. n \in DOMAIN time[Other(j)] /\ n > pos[Other(j)] /\ Other(j) = i
          BY <1>1, <3>4, <3>6, <5>2, Samples
        <5>4. time[j][count[j]] < time[Other(j)][n]
          BY <1>1, <5>1, <5>3 DEF OrderInv, PassedIsOlder
        <5> QED BY <1>1, <3>2, <3>3, <3>4, <5>3, <5>4, Samples
      <4>3. ASSUME NEW j \in Signals, Waits(j)
            PROVE  FALSE
        <5>1. Other(j) \in Signals /\ time[j][count[j]] < time[Other(j)][1]
          BY <4>3, OtherSignal DEF Waits
        <5>2. t <= time[j][count[j]] /\ t >= time[Other(j)][1]
          BY <3>3, <5>1
        <5>3. time[j][count[j]] \in Nat /\ time[Other(j)][1] \in Nat
          BY <1>1, <3>3, <5>1, Samples
        <5> QED BY <3>4, <5>1, <5>2, <5>3
      <4> QED BY <3>3, <4>1, <4>2, <4>3 DEF Done
    <3> QED BY <3>5, <3>6
  <2> QED BY <2>1, <2>2 DEF InBoth
<1> QED BY <1>2, <1>3 DEF CombinedIsComplete

(* Of two signals whose time stamps increase, what is combined between two *)
(* calls is every time stamp in the range of both, once and in order.      *)
THEOREM NothingIsLeftOut ==
  ASSUME Strict
  PROVE  Spec => []CombinedIsComplete
<1>1. Init => CombineInv /\ NeverThrows
  BY CombineInit
<1>2. (CombineInv /\ NeverThrows) /\ [Next]_vars => (CombineInv /\ NeverThrows)'
  BY CombineStep
<1>3. CombineInv => CombinedIsComplete
  BY NothingMissing
<1> QED BY <1>1, <1>2, <1>3, PTL DEF Spec

(* Each of the two values combined at a time is the one measured then, or  *)
(* the one on the straight line between its neighbours in the signal, with *)
(* whatever another thread is pushing meanwhile.                           *)
THEOREM RightValuesCombined ==
  ASSUME Strict
  PROVE  Spec => []CombinedIsRight
<1>1. Init => CombineInv /\ NeverThrows
  BY CombineInit
<1>2. (CombineInv /\ NeverThrows) /\ [Next]_vars => (CombineInv /\ NeverThrows)'
  BY CombineStep
<1>3. CombineInv => CombinedIsRight
  BY DEF CombineInv, OutInv
<1> QED BY <1>1, <1>2, <1>3, PTL DEF Spec
====
