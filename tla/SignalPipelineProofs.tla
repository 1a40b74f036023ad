------------------------ MODULE SignalPipelineProofs ------------------------
(***************************************************************************)
(* Proofs about SignalPipeline for any number of samples, batches and      *)
(* clears and any values.  What needs the assumption that the user does    *)
(* not clear a signal while it is being pushed to says so: ~Overlap.       *)
(***************************************************************************)
EXTENDS SignalPipeline, WellFoundedInduction, TLAPS

(* How far the vectors are ahead of the count, by the place of the writer. *)
StoreInv ==
  /\ pusher # "idle" => ~Clearing
  /\ pusher \in {"time", "data", "count"} => left > 0
  /\ ~Clearing =>
       /\ Len(time) = IF pusher \in {"data", "count"} THEN count + 1 ELSE count
       /\ Len(data) = IF pusher = "count" THEN count + 1 ELSE count
  /\ Clearing => Len(time) = 0
  /\ gui = "clearCount" => Len(data) = 0

(* The position of a math channel counts what it has computed, and what    *)
(* its slot has still to read has been counted.                            *)
SlotInv ==
  /\ gui \in {"slot", "integrate"} => limit <= count
  /\ nextPos = Len(added)
  /\ intPos = Len(integral)
  /\ ~thrown

(* Time stamps grow, also across a clear(), and what the channel has not   *)
(* read is later than what it has integrated.                              *)
TimeInv ==
  /\ intTime <= made
  /\ \A k \in DOMAIN time : time[k] <= made
  /\ \A j, k \in DOMAIN time : j < k => time[j] < time[k]
  /\ \A k \in DOMAIN time : k > intPos => intTime < time[k]

IInv == TypeOK /\ StoreInv /\ SlotInv /\ TimeInv

LEMMA InitIInv == Init => IInv
<1> SUFFICES ASSUME Init PROVE IInv
  OBVIOUS
<1>1. /\ time \in Seq(Nat) /\ data \in Seq(Nat)
      /\ added \in Seq(Sample) /\ integral \in Seq(Sample)
      /\ Len(time) = 0 /\ Len(data) = 0 /\ Len(added) = 0 /\ Len(integral) = 0
      /\ DOMAIN time = {}
  BY DEF Init
<1>2. TypeOK
  BY <1>1 DEF Init, TypeOK
<1>3. StoreInv /\ SlotInv /\ TimeInv
  BY <1>1 DEF Init, StoreInv, SlotInv, TimeInv, Clearing
<1> QED
  BY <1>2, <1>3 DEF IInv

(* What the next sample adds to the integral is a natural number, as time  *)
(* does not run backwards.                                                 *)
LEMMA AreaIsNat ==
  ASSUME NEW v \in Nat, NEW t \in Nat, NEW u \in Nat, u <= t
  PROVE  v * (t - u) \in Nat
<1>1. t - u \in Nat
  OBVIOUS
<1> DEFINE d == t - u
<1>2. d \in Nat
  BY <1>1
<1> HIDE DEF d
<1>3. v * d \in Nat
  BY <1>2
<1> QED
  BY <1>3 DEF d

(* The sample a slot reads next is there, both halves of it.               *)
LEMMA NextIsThere ==
  ASSUME IInv, gui \in {"slot", "integrate"}, NEW pos \in Nat, pos < limit
  PROVE  /\ ~OutOfRange(pos)
         /\ pos + 1 \in DOMAIN time /\ pos + 1 \in DOMAIN data
         /\ pos < count
         /\ GetSample(pos) = [t |-> time[pos + 1], v |-> data[pos + 1]]
         /\ time[pos + 1] \in Nat /\ data[pos + 1] \in Nat
         /\ time[pos + 1] <= made
<1> USE DEF IInv, TypeOK, StoreInv, SlotInv, TimeInv
<1>1. pos < count /\ count <= Len(time) /\ count <= Len(data)
  BY DEF Clearing
<1>2. pos + 1 \in DOMAIN time /\ pos + 1 \in DOMAIN data
  BY <1>1
<1>3. time[pos + 1] \in Nat /\ data[pos + 1] \in Nat
  BY <1>2
<1>4. ~OutOfRange(pos)
  BY <1>1 DEF OutOfRange
<1>5. GetSample(pos) = [t |-> time[pos + 1], v |-> data[pos + 1]]
  BY <1>1 DEF GetSample
<1>6. time[pos + 1] <= made
  BY <1>2
<1> QED
  BY <1>1, <1>2, <1>3, <1>4, <1>5, <1>6

(* What IntegrateChannel takes next is later than all it has integrated,   *)
(* so that what it adds is a natural number.                               *)
LEMMA NextToIntegrate ==
  ASSUME IInv, IntegrateSample
  PROVE  \E t, v \in Nat :
           /\ intPos + 1 \in DOMAIN time /\ intPos < count
           /\ t = time[intPos + 1] /\ v = data[intPos + 1]
           /\ intTime < t /\ t <= made
           /\ intValue + v * (t - intTime) \in Nat
           /\ integral' = Append(integral, [t |-> t, v |-> intValue + v * (t - intTime)])
           /\ intTime' = t
           /\ intValue' = intValue + v * (t - intTime)
           /\ intPos' = intPos + 1
           /\ UNCHANGED <<thrown, storeVars, pushVars, queued, intQueued, gui, clears,
                          limit, addVars>>
<1>1. gui = "integrate" /\ intPos < limit /\ intPos \in Nat
  BY DEF IntegrateSample, IInv, TypeOK
<1> DEFINE t == time[intPos + 1]
           v == data[intPos + 1]
<1>2. /\ ~OutOfRange(intPos) /\ intPos < count /\ intPos + 1 \in DOMAIN time
      /\ GetSample(intPos) = [t |-> t, v |-> v] /\ t \in Nat /\ v \in Nat /\ t <= made
  BY <1>1, NextIsThere
<1>3. intTime < t /\ intTime \in Nat /\ intValue \in Nat
  BY <1>1, <1>2 DEF IInv, TimeInv, TypeOK
<1> HIDE DEF t, v
<1>4. Integrated(GetSample(intPos)) = intValue + v * (t - intTime)
  BY <1>2 DEF Integrated
<1>5. intValue + v * (t - intTime) \in Nat
  <2>1. v * (t - intTime) \in Nat
    <3>1. intTime <= t /\ v \in Nat /\ t \in Nat
      BY <1>2, <1>3
    <3> QED BY <1>3, <3>1, AreaIsNat
  <2> DEFINE a == v * (t - intTime)
  <2>2. a \in Nat
    BY <2>1
  <2> HIDE DEF a
  <2>3. intValue + a \in Nat
    BY <1>3, <2>2
  <2> QED BY <2>3 DEF a
<1>6. /\ integral' = Append(integral, [t |-> t, v |-> intValue + v * (t - intTime)])
      /\ intTime' = t
      /\ intValue' = intValue + v * (t - intTime)
      /\ intPos' = intPos + 1
      /\ UNCHANGED <<thrown, storeVars, pushVars, queued, intQueued, gui, clears,
                     limit, addVars>>
  BY <1>2, <1>4 DEF IntegrateSample, Pass
<1> QED BY <1>2, <1>3, <1>5, <1>6 DEF t, v

(* What AddSCChannel pushes for a sample.                                  *)
LEMMA PlusAdds ==
  ASSUME NEW t \in Nat, NEW v \in Nat
  PROVE  Plus([t |-> t, v |-> v]) = [t |-> t, v |-> v + Constant]
  BY DEF Plus

(* One step per action.  While nobody clears the vectors are only ever     *)
(* appended to, in the order time, data, count.                            *)
LEMMA StepIInv == ~Overlap /\ IInv /\ [Next]_vars => IInv'
<1> SUFFICES ASSUME ~Overlap, IInv, [Next]_vars PROVE IInv'
  OBVIOUS
<1> USE ConstantsOK
    DEF IInv, TypeOK, StoreInv, SlotInv, TimeInv, Clearing, storeVars, pushVars, mathVars,
        addVars, intVars
<1>1. CASE StartPush
  <2>1. PICK n \in 1..MaxBatch, one \in BOOLEAN :
          left' = n /\ single' = one /\ lastTime' = IF one THEN made + 1 ELSE lastTime
    BY <1>1, Zenon DEF StartPush
  <2>2. n \in Nat /\ n > 0
    BY <2>1
  <2>3. left' \in Nat /\ left' > 0 /\ single' \in BOOLEAN /\ lastTime' \in Nat
    BY <2>1, <2>2
  <2>4. /\ pusher = "idle" /\ ~Clearing /\ pusher' = "time"
        /\ UNCHANGED <<time, data, count, made, queued, intQueued, gui, clears, mathVars>>
    BY <1>1 DEF StartPush
  <2> QED
    BY <2>3, <2>4
<1>2. CASE PushTime
  <2>1. /\ time' = Append(time, made + 1) /\ made' = made + 1
        /\ time' \in Seq(Nat) /\ Len(time') = Len(time) + 1
        /\ DOMAIN time' = DOMAIN time \cup {Len(time) + 1}
        /\ time'[Len(time) + 1] = made + 1
        /\ \A k \in DOMAIN time : time'[k] = time[k]
    BY <1>2 DEF PushTime, StoreTime
  <2>2. TypeOK' /\ StoreInv' /\ SlotInv'
    BY <1>2, <2>1 DEF PushTime, StoreTime
  <2>3. TimeInv'
    <3>1. \A k \in DOMAIN time : k \in Nat /\ k < Len(time) + 1 /\ time[k] \in Nat
      <4>1. time \in Seq(Nat)
        BY Zenon
      <4> QED
        BY ONLY <4>1
    <3>2. intTime' = intTime /\ intPos' = intPos
      BY <1>2 DEF PushTime
    <3>3. \A k \in DOMAIN time' :
            \/ k \in DOMAIN time /\ time'[k] = time[k]
            \/ k = Len(time) + 1 /\ time'[k] = made + 1
      BY ONLY <2>1
    <3>4. (\A k \in DOMAIN time : time[k] <= made)' /\ intTime' <= made'
      <4>1. intTime' <= made'
        BY <2>1, <3>2
      <4>2. \A k \in DOMAIN time : time[k] <= made'
        BY <2>1, <3>1
      <4> QED
        BY <2>1, <3>3, <4>1, <4>2
    <3>5. (\A k \in DOMAIN time : k > intPos => intTime < time[k])'
      <4>1. ASSUME NEW k \in DOMAIN time', k > intPos
            PROVE  intTime < time'[k]
        <5>1. CASE k \in DOMAIN time /\ time'[k] = time[k]
          BY <4>1, <5>1
        <5>2. CASE k = Len(time) + 1 /\ time'[k] = made + 1
          <6>1. intTime \in Nat /\ made \in Nat /\ intTime <= made
            OBVIOUS
          <6>2. intTime < made + 1
            BY ONLY <6>1
          <6> QED BY <5>2, <6>2
        <5> QED BY <3>3, <5>1, <5>2
      <4> QED BY <3>2, <4>1
    <3>6. (\A j, k \in DOMAIN time : j < k => time[j] < time[k])'
      <4> SUFFICES ASSUME NEW j \in DOMAIN time', NEW k \in DOMAIN time', j < k
                   PROVE  time'[j] < time'[k]
        OBVIOUS
      <4>1. j \in DOMAIN time /\ time'[j] = time[j] /\ time[j] <= made
        <5>1. k \in DOMAIN time \/ k = Len(time) + 1
          BY <3>3
        <5>2. j # Len(time) + 1
          BY <3>1, <5>1
        <5> QED
          BY <3>3, <5>2
      <4>2. CASE k \in DOMAIN time
        <5>1. k # Len(time) + 1
          BY <3>1, <4>2
        <5> QED
          BY <3>3, <4>1, <4>2, <5>1
      <4>3. CASE k = Len(time) + 1
        <5>1. time'[k] = made + 1 /\ time[j] \in Nat
          BY <2>1, <3>1, <4>1, <4>3
        <5> QED
          BY <4>1, <5>1
      <4> QED
        BY <3>3, <4>2, <4>3
    <3> QED
      BY <3>4, <3>5, <3>6
  <2> QED
    BY <2>2, <2>3
<1>3. CASE PushData
  <2>1. PICK v \in Values : data' = Append(data, v)
    BY <1>3 DEF PushData
  <2>2. v \in Nat
    BY DEF ConstantsOK
  <2>3. data' \in Seq(Nat) /\ Len(data') = Len(data) + 1
    BY <2>1, <2>2
  <2> QED
    BY <1>3, <2>3 DEF PushData
<1>4. CASE PushCount
  BY <1>4 DEF PushCount, CountSample
<1>5. CASE EmitAppended
  BY <1>5 DEF EmitAppended, Notify, AfterPush
<1>6. CASE BeginSlot
  BY <1>6 DEF BeginSlot, SlotLimit
<1>7. CASE FollowSample
  <2> DEFINE s == Plus(GetSample(nextPos))
  <2>1. gui = "slot" /\ nextPos < limit
    BY <1>7 DEF FollowSample
  <2>2. s \in Sample
    <3> DEFINE t == time[nextPos + 1]
               v == data[nextPos + 1]
    <3>1. t \in Nat /\ v \in Nat /\ GetSample(nextPos) = [t |-> t, v |-> v]
      BY <2>1, NextIsThere
    <3> HIDE DEF t, v
    <3>2. Plus([t |-> t, v |-> v]) = [t |-> t, v |-> v + Constant]
      BY <3>1, PlusAdds
    <3>3. v + Constant \in Nat
      BY <3>1, ConstantsOK
    <3> QED
      BY <3>1, <3>2, <3>3 DEF Sample
  <2>3. /\ added' = Append(added, s) /\ nextPos' = nextPos + 1
        /\ UNCHANGED <<thrown, storeVars, pushVars, queued, intQueued, gui, clears, limit,
                       intVars>>
    <3>1. ~OutOfRange(nextPos)
      BY <2>1, NextIsThere
    <3> QED BY <1>7, <3>1 DEF FollowSample, Advance
  <2> HIDE DEF s
  <2>4. added' \in Seq(Sample) /\ Len(added') = Len(added) + 1
    BY <2>2, <2>3
  <2> QED
    BY <2>3, <2>4
<1>8. CASE EndSlot
  BY <1>8 DEF EndSlot
<1>9. CASE ClearTime
  <2>1. time' \in Seq(Nat) /\ Len(time') = 0 /\ DOMAIN time' = {}
    BY <1>9 DEF ClearTime
  <2>2. /\ gui = "idle" /\ pusher = "idle" /\ gui' = "clearData"
        /\ clears' = clears + 1
        /\ UNCHANGED <<data, count, lastTime, pushVars, queued, intQueued, mathVars>>
    BY <1>9 DEF ClearTime
  <2> QED
    BY <2>1, <2>2
<1>10. CASE ClearData
  <2>1. data' \in Seq(Nat) /\ Len(data') = 0
    BY <1>10 DEF ClearData
  <2>2. /\ gui = "clearData" /\ gui' = "clearCount"
        /\ UNCHANGED <<time, count, lastTime, pushVars, queued, intQueued, clears, mathVars>>
    BY <1>10 DEF ClearData
  <2> QED
    BY <2>1, <2>2
<1>11. CASE ClearCount
  BY <1>11 DEF ClearCount, ResetCount
<1>12. CASE BeginIntegrate
  BY <1>12 DEF BeginIntegrate, SlotLimit
<1>13. CASE IntegrateSample
  <2>1. PICK t, v \in Nat :
           /\ intPos + 1 \in DOMAIN time /\ intPos < count
           /\ t = time[intPos + 1] /\ v = data[intPos + 1]
           /\ intTime < t /\ t <= made
           /\ intValue + v * (t - intTime) \in Nat
           /\ integral' = Append(integral, [t |-> t, v |-> intValue + v * (t - intTime)])
           /\ intTime' = t
           /\ intValue' = intValue + v * (t - intTime)
           /\ intPos' = intPos + 1
           /\ UNCHANGED <<thrown, storeVars, pushVars, queued, intQueued, gui, clears,
                          limit, addVars>>
    BY <1>13, NextToIntegrate
  <2> DEFINE w == intValue + v * (t - intTime)
  <2>2. [t |-> t, v |-> w] \in Sample
    BY <2>1 DEF Sample
  <2>3. integral' = Append(integral, [t |-> t, v |-> w]) /\ w \in Nat /\ intValue' = w
    BY <2>1
  <2> HIDE DEF w
  <2>4. integral' \in Seq(Sample) /\ Len(integral') = Len(integral) + 1
    BY <2>2, <2>3
  <2>5. TypeOK' /\ StoreInv' /\ SlotInv'
    BY <2>1, <2>3, <2>4
  <2>6. \A k \in DOMAIN time : k > intPos + 1 => t < time[k]
    BY <2>1
  <2>7. TimeInv'
    BY <2>1, <2>6
  <2> QED BY <2>5, <2>7
<1>14. CASE EndIntegrate
  BY <1>14 DEF EndIntegrate
<1>15. CASE UNCHANGED vars
  BY <1>15 DEF vars
<1> QED
  BY <1>1, <1>2, <1>3, <1>4, <1>5, <1>6, <1>7, <1>8, <1>9, <1>10, <1>11, <1>12, <1>13,
     <1>14, <1>15
     DEF Next, Producer, Gui, Slots

(* Every reachable state satisfies the invariant.                          *)
THEOREM Invariance == ~Overlap => (Spec => []IInv)
<1> SUFFICES ASSUME ~Overlap PROVE Spec => []IInv
  OBVIOUS
<1>1. IInv /\ [Next]_vars => IInv'
  BY StepIInv
<1> QED
  BY InitIInv, <1>1, PTL DEF Spec

(* Every variable keeps its type; that the samples of the integral are     *)
(* natural numbers says that time does not run backwards, also over clear().*)
THEOREM TypeCorrect == ~Overlap => (Spec => []TypeOK)
<1> SUFFICES ASSUME ~Overlap PROVE Spec => []TypeOK
  OBVIOUS
<1>1. IInv => TypeOK
  BY DEF IInv
<1> QED
  BY Invariance, <1>1, PTL

(* A sample that push_samples() has counted can be read by the other       *)
(* thread, whatever step of a push it is in.                               *)
THEOREM CountedCanBeRead == ~Overlap => (Spec => []CountedIsStored)
<1> SUFFICES ASSUME ~Overlap PROVE Spec => []CountedIsStored
  OBVIOUS
<1>1. IInv => CountedIsStored
  BY DEF IInv, TypeOK, StoreInv, CountedIsStored, Clearing
<1> QED
  BY Invariance, <1>1, PTL

(* The slot never reads a vector out of range: at() throws nowhere.        *)
THEOREM NeverOutOfRange == ~Overlap => (Spec => []~thrown)
<1> SUFFICES ASSUME ~Overlap PROVE Spec => []~thrown
  OBVIOUS
<1>1. IInv => ~thrown
  BY DEF IInv, SlotInv
<1> QED
  BY Invariance, <1>1, PTL

(* No wakeup is lost: samples the math channel has not computed yet are    *)
(* always announced, by an event queued, a push or a slot under way.       *)
THEOREM NoLostWakeup == ~Overlap => (Spec => []BehindIsAnnounced)
<1> SUFFICES ASSUME ~Overlap PROVE Spec => []BehindIsAnnounced
  OBVIOUS
<1>1. Init => BehindIsAnnounced
  BY DEF Init, BehindIsAnnounced
<1>2. IInv /\ BehindIsAnnounced /\ [Next]_vars => BehindIsAnnounced'
  <2> SUFFICES ASSUME IInv, BehindIsAnnounced, [Next]_vars PROVE BehindIsAnnounced'
    OBVIOUS
  <2> USE DEF IInv, TypeOK, BehindIsAnnounced, storeVars, pushVars, mathVars, addVars, intVars
  <2>1. CASE StartPush
    BY <2>1 DEF StartPush
  <2>2. CASE PushTime \/ PushData \/ PushCount
    BY <2>2 DEF PushTime, StoreTime, PushData, PushCount, CountSample
  <2>3. CASE EmitAppended
    BY <2>3 DEF EmitAppended, Notify
  <2>4. CASE BeginSlot
    BY <2>4 DEF BeginSlot, SlotLimit
  <2>5. CASE FollowSample
    <3>1. /\ nextPos' >= nextPos
          /\ UNCHANGED <<count, queued, intQueued, pusher, gui, limit, intPos>>
      BY <2>5 DEF FollowSample, Advance
    <3>2. nextPos' \in Nat
      BY <2>5 DEF FollowSample, Advance
    <3> QED
      BY <3>1, <3>2
  <2>6. CASE EndSlot
    BY <2>6 DEF EndSlot
  <2>7. CASE ClearTime \/ ClearData
    BY <2>7 DEF ClearTime, ClearData
  <2>8. CASE ClearCount
    BY <2>8 DEF ClearCount, ResetCount
  <2>9. CASE BeginIntegrate
    BY <2>9 DEF BeginIntegrate, SlotLimit
  <2>10. CASE IntegrateSample
    <3>1. /\ intPos' >= intPos
          /\ UNCHANGED <<count, queued, intQueued, pusher, gui, limit, nextPos>>
      BY <2>10 DEF IntegrateSample, Pass
    <3>2. intPos' \in Nat
      BY <2>10 DEF IntegrateSample, Pass
    <3> QED
      BY <3>1, <3>2
  <2>11. CASE EndIntegrate
    BY <2>11 DEF EndIntegrate
  <2>12. CASE UNCHANGED vars
    BY <2>12 DEF vars
  <2> QED
    BY <2>1, <2>2, <2>3, <2>4, <2>5, <2>6, <2>7, <2>8, <2>9, <2>10, <2>11, <2>12
       DEF Next, Producer, Gui, Slots
<1> QED
  BY Invariance, <1>1, <1>2, PTL DEF Spec

-----------------------------------------------------------------------------
(* What Source is in either state of the GUI thread.                       *)
LEMMA SourceWhole ==
  ASSUME IInv, ~Clearing
  PROVE  /\ Source \in Seq(Sample)
         /\ Len(Source) = count
         /\ \A i \in 1..count : Source[i] = [t |-> time[i], v |-> data[i]]
<1>1. count \in Nat /\ count <= Len(time) /\ count <= Len(data)
  BY DEF IInv, TypeOK, StoreInv, Clearing
<1>2. \A i \in 1..count : time[i] \in Nat /\ data[i] \in Nat
  BY <1>1 DEF IInv, TypeOK
<1>3. Source = [i \in 1..count |-> [t |-> time[i], v |-> data[i]]]
  BY DEF Source, Clearing
<1> QED
  BY <1>1, <1>2, <1>3 DEF Sample

LEMMA SourceClearing == Clearing => Source = <<>>
  BY DEF Source, Clearing

(* A step that leaves alone what has been counted leaves the source alone. *)
LEMMA SourceKept ==
  ASSUME Clearing' = Clearing, count' = count,
         ~Clearing => \A i \in 1..count : time'[i] = time[i] /\ data'[i] = data[i]
  PROVE  Source' = Source
<1>1. CASE Clearing
  BY <1>1 DEF Source, Clearing
<1>2. CASE ~Clearing
  <2>1. Source = [i \in 1..count |-> [t |-> time[i], v |-> data[i]]]
    BY <1>2 DEF Source, Clearing
  <2>2. Source' = [i \in 1..count |-> [t |-> time'[i], v |-> data'[i]]]
    BY <1>2 DEF Source, Clearing
  <2> QED
    BY <1>2, <2>1, <2>2
<1> QED
  BY <1>1, <1>2

(* The math channel implements the mirror of its source: counting a sample *)
(* makes the source grow, a round of the slot follows it by one sample,    *)
(* clear() takes effect with its first step, and all else is a stutter.    *)
THEOREM Refinement == ~Overlap => (Spec => ImplementsMirror)
<1> SUFFICES ASSUME ~Overlap PROVE Spec => ImplementsMirror
  OBVIOUS
<1>1. Init => Abstract!Init
  BY DEF Init, Abstract!Init, Source
<1>2. IInv /\ IInv' /\ [Next]_vars => [Abstract!Next]_(Abstract!mirrorVars)
  <2> SUFFICES ASSUME IInv, IInv', [Next]_vars
               PROVE  [Abstract!Next]_(Abstract!mirrorVars)
    OBVIOUS
  <2> USE DEF storeVars, pushVars, mathVars, addVars
  <2>1. CASE PushCount
    <3>1. /\ ~Clearing /\ ~Clearing' /\ count' = count + 1
          /\ UNCHANGED <<time, data, added>>
      BY <2>1 DEF PushCount, CountSample, IInv, StoreInv, TypeOK, Clearing
    <3>2. /\ Source \in Seq(Sample) /\ Len(Source) = count
          /\ \A i \in 1..count : Source[i] = [t |-> time[i], v |-> data[i]]
      BY <3>1, SourceWhole
    <3>3. Source' = [i \in 1..(count + 1) |-> [t |-> time[i], v |-> data[i]]]
      BY <3>1 DEF Source, Clearing
    <3>4. count \in Nat
      BY DEF IInv, TypeOK
    <3>5. Len(Source') = count + 1
      BY <3>3, <3>4
    <3>6. SubSeq(Source', 1, Len(Source)) = Source
      BY <3>2, <3>3, <3>4
    <3> QED
      BY <3>1, <3>2, <3>5, <3>6 DEF Abstract!Next, Abstract!Grow
  <2>2. CASE FollowSample
    <3>1. gui = "slot" /\ nextPos < limit /\ ~Clearing /\ ~Clearing'
      BY <2>2 DEF FollowSample, Clearing
    <3>2. added' = Append(added, Plus(GetSample(nextPos)))
      BY <2>2, <3>1, NextIsThere DEF FollowSample, IInv, TypeOK
    <3>3. Source' = Source
      <4>1. UNCHANGED <<time, data, count, gui>>
        BY <2>2 DEF FollowSample
      <4> QED
        BY <4>1, SourceKept DEF Clearing
    <3>4. nextPos = Len(added) /\ nextPos < count /\ nextPos \in Nat /\ count \in Nat
      BY <3>1, NextIsThere DEF IInv, SlotInv, TypeOK
    <3>5. Source[Len(added) + 1] = GetSample(nextPos) /\ Len(Source) = count
      BY <3>1, <3>4, SourceWhole, NextIsThere
    <3> QED
      BY <3>2, <3>3, <3>4, <3>5 DEF Abstract!Next, Abstract!Follow
  <2>3. CASE ClearTime
    <3>1. Source' = <<>> /\ added' = added
      BY <2>3, SourceClearing DEF ClearTime, Source, Clearing
    <3> QED
      BY <3>1 DEF Abstract!Next, Abstract!Clear
  <2>4. CASE ClearCount
    <3>1. Source = <<>> /\ added' = added
      BY <2>4 DEF ClearCount, Source, Clearing
    <3>2. Source' = <<>>
      BY <2>4 DEF ClearCount, ResetCount, Source, Clearing
    <3> QED
      BY <3>1, <3>2 DEF Abstract!mirrorVars
  <2>5. CASE PushTime
    <3>1. \A i \in 1..count : time'[i] = time[i]
      BY <2>5 DEF PushTime, StoreTime, IInv, TypeOK, StoreInv
    <3> QED
      BY <2>5, <3>1, SourceKept DEF PushTime, StoreTime, Clearing, Abstract!mirrorVars
  <2>6. CASE PushData
    <3>1. \A i \in 1..count : data'[i] = data[i]
      BY <2>6, ConstantsOK DEF PushData, IInv, TypeOK, StoreInv
    <3> QED
      BY <2>6, <3>1, SourceKept DEF PushData, Clearing, Abstract!mirrorVars
  <2>7. CASE ClearData
    <3>1. Clearing /\ Clearing' /\ UNCHANGED <<count, added>>
      BY <2>7 DEF ClearData, Clearing
    <3> QED
      BY <3>1, SourceKept DEF Abstract!mirrorVars
  <2>8. CASE StartPush \/ EmitAppended \/ BeginSlot \/ EndSlot
    <3>1. /\ Clearing' = Clearing /\ UNCHANGED <<time, data, count, added>>
      BY <2>8 DEF StartPush, EmitAppended, BeginSlot, EndSlot, Clearing, storeVars, mathVars,
                  addVars
    <3> QED
      BY <3>1, SourceKept DEF Abstract!mirrorVars
  <2>9. CASE BeginIntegrate \/ IntegrateSample \/ EndIntegrate \/ UNCHANGED vars
    <3>1. /\ Clearing' = Clearing /\ UNCHANGED <<time, data, count, added>>
      BY <2>9 DEF BeginIntegrate, IntegrateSample, EndIntegrate, Clearing, vars, storeVars,
                  mathVars, addVars
    <3> QED
      BY <3>1, SourceKept DEF Abstract!mirrorVars
  <2> QED
    BY <2>1, <2>2, <2>3, <2>4, <2>5, <2>6, <2>7, <2>8, <2>9 DEF Next, Producer, Gui, Slots
<1> QED
  BY <1>1, <1>2, Invariance, PTL DEF Spec, ImplementsMirror, Abstract!Spec

-----------------------------------------------------------------------------
(* The integral                                                            *)

(* A set of natural numbers that is not empty has a least element.         *)
LEMMA NatMin ==
  ASSUME NEW S \in SUBSET Nat, S # {}
  PROVE  \E m \in S : \A k \in S : m <= k
<1>1. PICK R : /\ IsWellFoundedOn(R, Nat)
               /\ \A k, m \in Nat : k < m => <<k, m>> \in R
  <2>1. \A k, m \in Nat : k < m => <<k, m>> \in OpToRel(<, Nat)
    BY SMT DEF OpToRel
  <2> QED BY <2>1, NatLessThanWellFounded, Zenon
<1>2. PICK m \in S : \A k \in S : ~ (<<k, m>> \in R)
  <2>1. S \subseteq Nat
    OBVIOUS
  <2>2. IsWellFoundedOn(R, Nat)
    BY <1>1
  <2> QED BY ONLY <2>1, <2>2, S # {}, WFMin
<1>3. ASSUME NEW k \in S, ~(m <= k)
      PROVE  FALSE
  <2>1. k \in Nat /\ m \in Nat /\ k < m
    BY <1>3
  <2> QED BY <1>1, <1>2, <2>1
<1> QED BY <1>3

(* The running sums of a function exist: there is one of every length, and *)
(* they agree as far as they go.                                           *)
LEMMA SumExists ==
  ASSUME NEW g
  PROVE  \E f : f = [k \in Nat |-> IF k = 0 THEN 0 ELSE f[k - 1] + g[k]]
<1> DEFINE Upto(n, h) == h = [k \in 0..n |-> IF k = 0 THEN 0 ELSE h[k - 1] + g[k]]
<1>1. ASSUME NEW n \in Nat
      PROVE  \E h : Upto(n, h)
  <2> DEFINE S == {m \in Nat : ~\E h : Upto(m, h)}
  <2>1. S \in SUBSET Nat
    OBVIOUS
  <2>2. ASSUME S # {}
        PROVE  FALSE
    <3>1. PICK m \in S : \A k \in S : m <= k
      BY <2>1, <2>2, NatMin
    <3>2. m \in Nat /\ ~\E h : Upto(m, h)
      BY <3>1
    <3>3. CASE m = 0
      <4>1. Upto(0, [k \in 0..0 |-> 0])
        OBVIOUS
      <4> QED BY <3>2, <3>3, <4>1
    <3>4. CASE m # 0
      <4>1. m - 1 \in Nat /\ ~(m <= m - 1)
        BY <3>2, <3>4
      <4>2. m - 1 \notin S
        BY <3>1, <4>1
      <4>3. PICK h : Upto(m - 1, h)
        BY <4>1, <4>2
      <4> DEFINE new == [k \in 0..m |-> IF k = m THEN h[m - 1] + g[m] ELSE h[k]]
      <4>4. ASSUME NEW k \in 0..m
            PROVE  new[k] = IF k = 0 THEN 0 ELSE new[k - 1] + g[k]
        <5>1. CASE k = m
          <6>1. new[k] = h[m - 1] + g[m] /\ new[m - 1] = h[m - 1]
            BY <3>2, <3>4, <4>1, <5>1
          <6> QED BY <3>4, <5>1, <6>1
        <5>2. CASE k # m
          <6>1. k \in 0..(m - 1) /\ new[k] = h[k] /\ (k # 0 => k - 1 \in 0..(m - 1) /\ new[k - 1] = h[k - 1])
            BY <3>2, <4>4, <5>2
          <6>2. h[k] = IF k = 0 THEN 0 ELSE h[k - 1] + g[k]
            BY <4>3, <6>1
          <6> QED BY <6>1, <6>2
        <5> QED BY <5>1, <5>2
      <4>5. Upto(m, new)
        BY <4>4
      <4> QED BY <3>2, <4>5
    <3> QED BY <3>3, <3>4
  <2> QED BY <2>2
<1>2. ASSUME NEW n \in Nat, NEW p \in Nat, NEW a, NEW b, Upto(n, a), Upto(p, b),
             NEW k \in 0..n, k <= p
      PROVE  a[k] = b[k]
  <2> DEFINE S == {j \in Nat : j <= n /\ j <= p /\ a[j] # b[j]}
  <2>1. ASSUME S # {}
        PROVE  FALSE
    <3>1. PICK m \in S : \A j \in S : m <= j
      <4>1. S \in SUBSET Nat
        OBVIOUS
      <4> QED BY <2>1, <4>1, NatMin
    <3>2. m \in Nat /\ m <= n /\ m <= p /\ a[m] # b[m] /\ m \in 0..n /\ m \in 0..p
      BY <3>1
    <3>3. /\ a[m] = IF m = 0 THEN 0 ELSE a[m - 1] + g[m]
          /\ b[m] = IF m = 0 THEN 0 ELSE b[m - 1] + g[m]
      BY <1>2, <3>2
    <3>4. m # 0 /\ m - 1 \in Nat /\ ~(m <= m - 1) /\ m - 1 <= n /\ m - 1 <= p
      BY <3>2, <3>3
    <3>5. a[m - 1] = b[m - 1]
      BY <3>1, <3>4
    <3> QED BY <3>2, <3>3, <3>5
  <2>2. k \in Nat /\ k <= n
    OBVIOUS
  <2> QED BY <1>2, <2>1, <2>2
<1> DEFINE H(n) == CHOOSE h : Upto(n, h)
           f == [k \in Nat |-> H(k)[k]]
<1>3. \A n \in Nat : Upto(n, H(n))
  BY <1>1
<1> HIDE DEF H
<1>4. ASSUME NEW k \in Nat
      PROVE  f[k] = IF k = 0 THEN 0 ELSE f[k - 1] + g[k]
  <2>1. f[k] = H(k)[k] /\ (k # 0 => k - 1 \in Nat /\ f[k - 1] = H(k - 1)[k - 1])
    OBVIOUS
  <2>2. Upto(k, H(k)) /\ k \in 0..k
    BY <1>3
  <2>3. H(k)[k] = IF k = 0 THEN 0 ELSE H(k)[k - 1] + g[k]
    BY <2>2
  <2>4. ASSUME k # 0
        PROVE  H(k)[k - 1] = H(k - 1)[k - 1]
    <3>1. k - 1 \in Nat /\ k - 1 \in 0..k /\ k - 1 <= k - 1 /\ Upto(k - 1, H(k - 1))
      BY <1>3, <2>4
    <3> HIDE DEF Upto
    <3> QED BY <1>2, <2>2, <3>1
  <2> QED BY <2>1, <2>3, <2>4
<1>5. f = [k \in Nat |-> IF k = 0 THEN 0 ELSE f[k - 1] + g[k]]
  BY <1>4
<1> QED BY <1>5

(* What sample k adds to the area: its value since the sample before it.   *)
Rect(ts, ds, k) == ds[k] * (ts[k] - (IF k = 1 THEN 0 ELSE ts[k - 1]))

LEMMA AreaExists ==
  ASSUME NEW ts, NEW ds
  PROVE  \E f : f = [k \in Nat |-> IF k = 0 THEN 0 ELSE f[k - 1] + Rect(ts, ds, k)]
<1> DEFINE g == [k \in Nat |-> Rect(ts, ds, k)]
<1>1. PICK f : f = [k \in Nat |-> IF k = 0 THEN 0 ELSE f[k - 1] + g[k]]
  BY SumExists
<1>2. f = [k \in Nat |-> IF k = 0 THEN 0 ELSE f[k - 1] + Rect(ts, ds, k)]
  BY <1>1
<1> QED BY <1>2

(* The area is what its definition says, before and after a step.          *)
LEMMA AreaIs ==
  ASSUME NEW k \in Nat
  PROVE  /\ Area[k] = IF k = 0 THEN 0 ELSE Area[k - 1] + Rect(time, data, k)
         /\ Area'[k] = IF k = 0 THEN 0 ELSE Area'[k - 1] + Rect(time', data', k)
<1>1. Area = [i \in Nat |-> IF i = 0 THEN 0 ELSE Area[i - 1] + Rect(time, data, i)]
  BY AreaExists DEF Area, Rect
<1>2. Area' = [i \in Nat |-> IF i = 0 THEN 0 ELSE Area'[i - 1] + Rect(time', data', i)]
  BY AreaExists DEF Area, Rect
<1> QED BY <1>1, <1>2

(* The area of samples that stay as they are stays as it is.               *)
LEMMA AreaKept ==
  ASSUME NEW n \in Nat, \A k \in 1..n : time'[k] = time[k] /\ data'[k] = data[k]
  PROVE  Area'[n] = Area[n]
<1> DEFINE S == {k \in Nat : k <= n /\ Area'[k] # Area[k]}
<1>1. ASSUME S # {}
      PROVE  FALSE
  <2>1. PICK m \in S : \A k \in S : m <= k
    <3>1. S \in SUBSET Nat
      OBVIOUS
    <3> QED BY <1>1, <3>1, NatMin
  <2>2. m \in Nat /\ m <= n /\ Area'[m] # Area[m]
    BY <2>1
  <2>3. m # 0
    BY <2>2, AreaIs
  <2>4. m - 1 \in Nat /\ m - 1 <= n /\ ~(m <= m - 1) /\ m \in 1..n /\ (m # 1 => m - 1 \in 1..n)
    BY <2>2, <2>3
  <2>5. Area'[m - 1] = Area[m - 1]
    BY <2>1, <2>4
  <2>6. Rect(time', data', m) = Rect(time, data, m)
    BY <2>4 DEF Rect
  <2> QED BY <2>2, <2>3, <2>5, <2>6, AreaIs
<1> QED BY <1>1

(* v over a time of t is a mean between two of the values.                 *)
IsMean(v, t) == \E low, high \in Values : low * t <= v /\ v <= high * t

LEMMA TimesGrows ==
  ASSUME NEW a \in Nat, NEW b \in Nat, NEW c \in Nat, a <= b
  PROVE  a * c <= b * c
<1>1. PICK d \in Nat : b = a + d
  <2>1. b - a \in Nat /\ b = a + (b - a)
    OBVIOUS
  <2> QED BY <2>1
<1>2. b * c = a * c + d * c
  BY <1>1
<1>3. d * c \in Nat /\ a * c \in Nat
  OBVIOUS
<1> DEFINE x == a * c
           y == d * c
           z == b * c
<1>4. x \in Nat /\ y \in Nat /\ z = x + y
  BY <1>2, <1>3
<1> HIDE DEF x, y, z
<1>5. x <= z
  BY <1>4
<1> QED BY <1>5 DEF x, z

(* One more value for the rest of the time leaves a mean.                  *)
LEMMA MeanGoesOn ==
  ASSUME NEW v \in Nat, NEW t \in Nat, NEW u \in Nat, t <= u, NEW x \in Values,
         IsMean(v, t) \/ (v = 0 /\ t = 0)
  PROVE  IsMean(v + x * (u - t), u)
<1>1. x \in Nat /\ Values \subseteq Nat
  BY ConstantsOK
<1>2. PICK d \in Nat : u = t + d /\ u - t = d
  <2>1. u - t \in Nat /\ u = t + (u - t)
    OBVIOUS
  <2> QED BY <2>1
<1>3. CASE v = 0 /\ t = 0
  <2>1. v + x * (u - t) = x * u /\ x * u \in Nat
    BY <1>1, <1>3
  <2>2. x * u <= v + x * (u - t) /\ v + x * (u - t) <= x * u
    BY <2>1
  <2> QED BY <2>2 DEF IsMean
<1>4. CASE IsMean(v, t)
  <2>1. PICK low \in Values, high \in Values : low * t <= v /\ v <= high * t
    BY <1>4 DEF IsMean
  <2>2. low \in Nat /\ high \in Nat
    BY <1>1
  <2>3. PICK l \in Values : l <= low /\ l <= x /\ l \in Nat
    <3>1. low <= x \/ x <= low
      BY <1>1, <2>2
    <3> QED BY <1>1, <2>2, <3>1
  <2>4. PICK h \in Values : low \in Nat /\ high <= h /\ x <= h /\ h \in Nat
    <3>1. high <= x \/ x <= high
      BY <1>1, <2>2
    <3> QED BY <1>1, <2>2, <3>1
  <2>5. /\ l * t <= low * t /\ l * d <= x * d
        /\ high * t <= h * t /\ x * d <= h * d
    BY <1>1, <1>2, <2>2, <2>3, <2>4, TimesGrows
  <2>6. l * u = l * t + l * d /\ h * u = h * t + h * d
    BY <1>2, <2>3, <2>4
  <2> DEFINE lt == l * t
             ld == l * d
             ht == h * t
             hd == h * d
             lo == low * t
             hi == high * t
             xd == x * d
             lu == l * u
             hu == h * u
  <2>7. /\ lt \in Nat /\ ld \in Nat /\ ht \in Nat /\ hd \in Nat
        /\ lo \in Nat /\ hi \in Nat /\ xd \in Nat
    BY <1>1, <1>2, <2>2, <2>3, <2>4
  <2>8. /\ lt <= lo /\ ld <= xd /\ hi <= ht /\ xd <= hd
        /\ lu = lt + ld /\ hu = ht + hd /\ lo <= v /\ v <= hi
    BY <2>1, <2>5, <2>6
  <2> HIDE DEF lt, ld, ht, hd, lo, hi, xd, lu, hu
  <2>9. lu <= v + xd /\ v + xd <= hu
    BY <2>7, <2>8
  <2>10. l * u <= v + x * (u - t) /\ v + x * (u - t) <= h * u
    BY <1>2, <2>9 DEF lu, hu, xd
  <2> QED BY <2>3, <2>4, <2>10 DEF IsMean
<1> QED BY <1>3, <1>4

(* The integral goes on at its last sample, has taken no more of the       *)
(* source than is counted until somebody clears it, and takes values only  *)
(* that were pushed.                                                       *)
AreaInv ==
  /\ clears = 0 => ~Clearing /\ intPos <= count
  /\ \A k \in DOMAIN data : data[k] \in Values
  /\ integral = <<>> => intTime = 0 /\ intValue = 0
  /\ integral # <<>> => integral[Len(integral)] = [t |-> intTime, v |-> intValue]
  /\ \A k \in DOMAIN integral : clears = 0 => integral[k] = [t |-> time[k], v |-> Area[k]]
  /\ \A k \in DOMAIN integral : IsMean(integral[k].v, integral[k].t)

LEMMA AreaInit == Init => AreaInv
<1> SUFFICES ASSUME Init PROVE AreaInv
  OBVIOUS
<1>1. DOMAIN data = {} /\ DOMAIN integral = {} /\ integral = <<>> /\ ~Clearing
  BY DEF Init, Clearing
<1> QED BY <1>1 DEF Init, AreaInv

(* The next sample of the integral.                                        *)
LEMMA IntegralGrows ==
  ASSUME IInv, AreaInv, IntegrateSample
  PROVE  AreaInv'
<1>1. PICK t, v \in Nat :
         /\ intPos + 1 \in DOMAIN time /\ intPos < count
         /\ t = time[intPos + 1] /\ v = data[intPos + 1]
         /\ intTime < t /\ t <= made
         /\ intValue + v * (t - intTime) \in Nat
         /\ integral' = Append(integral, [t |-> t, v |-> intValue + v * (t - intTime)])
         /\ intTime' = t
         /\ intValue' = intValue + v * (t - intTime)
         /\ intPos' = intPos + 1
         /\ UNCHANGED <<thrown, storeVars, pushVars, queued, intQueued, gui, clears,
                        limit, addVars>>
  BY NextToIntegrate
<1> DEFINE n == Len(integral)
           w == intValue + v * (t - intTime)
           x == [t |-> t, v |-> w]
<1>2. UNCHANGED <<time, data, count, gui, clears>> /\ Area' = Area /\ Clearing' = Clearing
  BY <1>1 DEF storeVars, Area, Clearing
<1>3. /\ integral \in Seq(Sample) /\ intTime \in Nat /\ intValue \in Nat /\ count \in Nat
      /\ intPos = n /\ n \in Nat
  BY DEF IInv, TypeOK, SlotInv
<1>4. w \in Nat /\ integral' = Append(integral, x) /\ intValue' = w /\ intTime' = t
  BY <1>1
<1>5. v \in Values
  <2>1. gui = "integrate" /\ intPos < limit /\ intPos \in Nat
    BY DEF IntegrateSample, IInv, TypeOK
  <2>2. intPos + 1 \in DOMAIN data
    BY <2>1, NextIsThere
  <2> QED BY <1>1, <2>2 DEF AreaInv
<1>6. IsMean(w, t)
  <2>1. CASE n = 0
    <3>1. intTime = 0 /\ intValue = 0
      BY <1>3, <2>1 DEF AreaInv
    <3> QED BY <1>1, <1>3, <1>5, <3>1, MeanGoesOn
  <2>2. CASE n # 0
    <3>1. integral # <<>> /\ n \in DOMAIN integral
      BY <1>3, <2>2
    <3>2. integral[n] = [t |-> intTime, v |-> intValue] /\ IsMean(integral[n].v, integral[n].t)
      BY <3>1 DEF AreaInv
    <3>3. IsMean(intValue, intTime)
      BY <3>2
    <3>4. intTime <= t
      BY <1>1, <1>3
    <3> QED BY <1>3, <1>5, <3>3, <3>4, MeanGoesOn
  <2> QED BY <2>1, <2>2
<1>7. ASSUME clears = 0
      PROVE  w = Area[n + 1]
  <2>1. Area[n + 1] = Area[n] + Rect(time, data, n + 1)
    <3>1. n + 1 \in Nat /\ n + 1 # 0 /\ (n + 1) - 1 = n
      BY <1>3
    <3> QED BY <3>1, AreaIs
  <2>2. CASE n = 0
    <3>1. intTime = 0 /\ intValue = 0 /\ Area[n] = 0
      BY <1>3, <2>2, AreaIs DEF AreaInv
    <3>2. Rect(time, data, n + 1) = v * (t - intTime)
      BY <1>1, <1>3, <2>2, <3>1 DEF Rect
    <3> QED BY <2>1, <3>1, <3>2
  <2>3. CASE n # 0
    <3>1. integral # <<>> /\ n \in DOMAIN integral
      BY <1>3, <2>3
    <3>2. integral[n] = [t |-> intTime, v |-> intValue]
      BY <3>1 DEF AreaInv
    <3>3. integral[n] = [t |-> time[n], v |-> Area[n]]
      BY <1>7, <3>1 DEF AreaInv
    <3>4. intTime = time[n] /\ intValue = Area[n]
      <4>1. integral[n].t = intTime /\ integral[n].v = intValue
        BY ONLY <3>2
      <4>2. integral[n].t = time[n] /\ integral[n].v = Area[n]
        BY ONLY <3>3
      <4> QED BY ONLY <4>1, <4>2
    <3>5. n + 1 # 1 /\ (n + 1) - 1 = n
      BY <1>3, <2>3
    <3>6. Rect(time, data, n + 1) = v * (t - intTime)
      BY <1>1, <1>3, <3>4, <3>5 DEF Rect
    <3> QED BY <2>1, <3>4, <3>6
  <2> QED BY <2>2, <2>3
<1>8. x \in Sample /\ x.t = t /\ x.v = w
  BY <1>4 DEF Sample
<1> HIDE DEF w
<1>9. /\ Len(integral') = n + 1 /\ integral'[n + 1] = x /\ integral' # <<>>
      /\ \A k \in DOMAIN integral' :
            \/ k \in DOMAIN integral /\ integral'[k] = integral[k]
            \/ k = n + 1
  <2> HIDE DEF x
  <2> QED BY <1>3, <1>4, <1>8
<1>10. clears' = 0 => ~Clearing' /\ intPos' <= count'
  BY <1>1, <1>2, <1>3 DEF AreaInv
<1>11. (\A k \in DOMAIN data : data[k] \in Values)'
  BY <1>2 DEF AreaInv
<1>12. (\A k \in DOMAIN integral : clears = 0 => integral[k] = [t |-> time[k], v |-> Area[k]])'
  <2> SUFFICES ASSUME NEW k \in DOMAIN integral', clears = 0
               PROVE  integral'[k] = [t |-> time[k], v |-> Area[k]]
    BY <1>2
  <2>1. CASE k = n + 1
    BY <1>1, <1>3, <1>7, <1>9, <2>1
  <2>2. CASE k # n + 1
    BY <1>9, <2>2 DEF AreaInv
  <2> QED BY <2>1, <2>2
<1>13. (\A k \in DOMAIN integral : IsMean(integral[k].v, integral[k].t))'
  <2>1. ASSUME NEW k \in DOMAIN integral'
        PROVE  IsMean(integral'[k].v, integral'[k].t)
    <3>1. CASE k = n + 1
      BY <1>6, <1>8, <1>9, <3>1
    <3>2. CASE k # n + 1
      BY <1>9, <3>2 DEF AreaInv
    <3> QED BY <3>1, <3>2
  <2> QED BY <2>1 DEF IsMean
<1>14. (integral # <<>> => integral[Len(integral)] = [t |-> intTime, v |-> intValue])'
  BY <1>4, <1>9
<1> QED BY <1>9, <1>10, <1>11, <1>12, <1>13, <1>14 DEF AreaInv

(* What the writer and clear() do leaves the area that was taken alone, or *)
(* counts a clear.                                                         *)
LEMMA TakenStays ==
  ASSUME IInv, AreaInv, clears = 0, NEW k \in DOMAIN integral,
         \A i \in DOMAIN time : time'[i] = time[i],
         \A i \in DOMAIN data : data'[i] = data[i]
  PROVE  integral[k] = [t |-> time'[k], v |-> Area'[k]]
<1>1. /\ count <= Len(time) /\ count <= Len(data) /\ intPos <= count /\ intPos = Len(integral)
      /\ time \in Seq(Nat) /\ data \in Seq(Nat) /\ integral \in Seq(Sample)
      /\ count \in Nat
  <2>1. ~Clearing /\ intPos <= count
    BY DEF AreaInv
  <2> QED BY <2>1 DEF IInv, TypeOK, StoreInv, SlotInv
<1>2. k \in Nat /\ k <= Len(time) /\ k <= Len(data) /\ k \in 1..k
  BY <1>1
<1>3. \A i \in 1..k : i \in DOMAIN time /\ i \in DOMAIN data
  BY <1>1, <1>2
<1>4. Area'[k] = Area[k]
  BY <1>2, <1>3, AreaKept
<1> QED BY <1>2, <1>3, <1>4 DEF AreaInv

LEMMA AreaStep == ~Overlap /\ IInv /\ AreaInv /\ [Next]_vars => AreaInv'
<1> SUFFICES ASSUME ~Overlap, IInv, AreaInv, [Next]_vars PROVE AreaInv'
  OBVIOUS
<1>1. CASE IntegrateSample
  BY <1>1, IntegralGrows
<1>2. ASSUME UNCHANGED <<intPos, intTime, intValue, integral, clears, time, data>>,
             Clearing => Clearing', count <= count', clears = 0 => ~Clearing'
      PROVE  AreaInv'
  <2>1. Area' = Area
    BY <1>2 DEF Area
  <2>2. count \in Nat /\ intPos \in Nat /\ (count' \in Nat)
    <3>1. count' \in Nat
      BY StepIInv DEF IInv, TypeOK
    <3> QED BY <3>1 DEF IInv, TypeOK
  <2> QED BY <1>2, <2>1, <2>2 DEF AreaInv, IsMean
<1>3. CASE PushTime
  <2>1. /\ UNCHANGED <<intPos, intTime, intValue, integral, clears, data, count, gui>>
        /\ time' = Append(time, made + 1) /\ time \in Seq(Nat)
    BY <1>3 DEF PushTime, StoreTime, mathVars, intVars, IInv, TypeOK
  <2>2. \A i \in DOMAIN time : time'[i] = time[i]
    BY <2>1
  <2>3. ASSUME clears = 0, NEW k \in DOMAIN integral
        PROVE  integral[k] = [t |-> time'[k], v |-> Area'[k]]
    BY <2>1, <2>2, <2>3, TakenStays
  <2> QED BY <2>1, <2>3 DEF AreaInv, Clearing, IsMean
<1>4. CASE PushData
  <2>1. PICK v \in Values : data' = Append(data, v)
    BY <1>4 DEF PushData
  <2>2. /\ UNCHANGED <<intPos, intTime, intValue, integral, clears, time, count, gui>>
        /\ data \in Seq(Nat)
    BY <1>4 DEF PushData, mathVars, intVars, IInv, TypeOK
  <2>3. /\ \A i \in DOMAIN data : data'[i] = data[i]
        /\ \A i \in DOMAIN data' : i \in DOMAIN data \/ data'[i] = v
    BY <2>1, <2>2
  <2>4. ASSUME clears = 0, NEW k \in DOMAIN integral
        PROVE  integral[k] = [t |-> time'[k], v |-> Area'[k]]
    BY <2>2, <2>3, <2>4, TakenStays
  <2>5. \A i \in DOMAIN data' : data'[i] \in Values
    BY <2>3 DEF AreaInv
  <2> QED BY <2>2, <2>4, <2>5 DEF AreaInv, Clearing, IsMean
<1>5. CASE ClearTime \/ ClearData \/ ClearCount
  <2>1. /\ UNCHANGED <<intPos, intTime, intValue, integral>>
        /\ clears' # 0
        /\ \A i \in DOMAIN data' : data'[i] \in Values
    <3>1. CASE ClearTime
      BY <3>1 DEF ClearTime, mathVars, intVars, IInv, TypeOK, AreaInv
    <3>2. CASE ClearData
      BY <3>2 DEF ClearData, mathVars, intVars, AreaInv, Clearing
    <3>3. CASE ClearCount
      BY <3>3 DEF ClearCount, mathVars, intVars, AreaInv, Clearing
    <3> QED BY <1>5, <3>1, <3>2, <3>3
  <2> QED BY <2>1 DEF AreaInv, IsMean
<1>6. CASE StartPush \/ PushCount \/ EmitAppended
  <2>1. /\ UNCHANGED <<intPos, intTime, intValue, integral, clears, time, data, gui>>
        /\ count <= count'
    BY <1>6 DEF StartPush, PushCount, CountSample, EmitAppended, mathVars, intVars, IInv, TypeOK
  <2> QED BY <1>2, <2>1 DEF Clearing, AreaInv
<1>7. CASE BeginSlot \/ FollowSample \/ EndSlot \/ BeginIntegrate \/ EndIntegrate
           \/ UNCHANGED vars
  <2>1. /\ UNCHANGED <<intPos, intTime, intValue, integral, clears, time, data, count>>
        /\ Clearing' = Clearing
    BY <1>7 DEF BeginSlot, FollowSample, EndSlot, BeginIntegrate, EndIntegrate, vars, storeVars,
                mathVars, intVars, Clearing
  <2>2. count <= count'
    BY <2>1 DEF IInv, TypeOK
  <2> QED BY <1>2, <2>1, <2>2 DEF AreaInv
<1> QED BY <1>1, <1>3, <1>4, <1>5, <1>6, <1>7 DEF Next, Producer, Gui, Slots

(* The samples of the integral are the areas under the source up to each   *)
(* of its samples as long as nobody clears the source, and a mean of its   *)
(* values over the time since the start whatever is cleared.               *)
THEOREM IntegralOfAll == ~Overlap => (Spec => []IntegralIsArea)
<1> SUFFICES ASSUME ~Overlap PROVE Spec => []IntegralIsArea
  OBVIOUS
<1>1. AreaInv => IntegralIsArea
  BY DEF AreaInv, IntegralIsArea, IsMean
<1>2. IInv /\ AreaInv /\ [Next]_vars => AreaInv'
  BY AreaStep
<1> QED BY <1>1, <1>2, AreaInit, Invariance, PTL DEF Spec
=============================================================================
