--------------------------- MODULE CombineSignals ---------------------------
(***************************************************************************)
(* AnalogTimeSignal::combine_signals(), which merges two signals by time   *)
(* for MultiplySSChannel, DivideChannel and the XY curves: every time      *)
(* stamp of either signal within the range of both gets a pair of values,  *)
(* the missing one interpolated.  It is called again for every event, goes *)
(* on from the positions of the last call, and keeps no lock on the        *)
(* signals.                                                                *)
(*                                                                         *)
(* Time stamps and values are integers; the values are multiples of Scale, *)
(* so that interpolation is exact.  One round of a loop is one step.  What *)
(* is combined is appended to "out" at once: the vectors it is collected   *)
(* in are local to the caller until the call returns.                      *)
(***************************************************************************)
EXTENDS Integers, Sequences, SequencesExt

CONSTANTS
  Times,        (* the time stamps, a finite set of positive integers      *)
  Scale,        (* a multiple of every difference of two time stamps       *)
  Levels,       (* the values are the products of these with Scale         *)
  MaxSamples,   (* bound: samples per signal                               *)
  Strict        (* FALSE: a signal may have two samples of the same time   *)

ASSUME ConstantsOK ==
  /\ Times \subseteq Nat \ {0} /\ Scale \in Nat \ {0} /\ Levels \subseteq Nat
  /\ \A a, b \in Times : a < b => Scale % (b - a) = 0
  /\ MaxSamples \in Nat /\ Strict \in BOOLEAN

VARIABLES
  threads,             (* TRUE: acquisition threads write the signals;     *)
                       (* FALSE: math channels do, in the GUI thread       *)
  time, data, count,   (* time_, data_ and sample_count_ of each signal    *)
  pos,                 (* signal1_pos and signal2_pos                      *)
  queued,              (* sample_appended() events of either signal        *)
  gui,                 (* place of the GUI thread in combine_signals()     *)
  out,                 (* the combined samples so far                      *)
  thrown               (* a vector was read out of range                   *)

signalVars == <<time, data, count>>
vars == <<threads, signalVars, pos, queued, gui, out, thrown>>

Signals  == {1, 2}
Other(i) == 3 - i

Init ==
  /\ threads \in BOOLEAN
  /\ time = [i \in Signals |-> <<>>] /\ data = [i \in Signals |-> <<>>]
  /\ count = [i \in Signals |-> 0]
  /\ pos = [i \in Signals |-> 0]
  /\ queued = 0 /\ gui = "idle" /\ out = <<>> /\ thrown = FALSE

-----------------------------------------------------------------------------
(* Plausible bugs, put in the place of the definitions they are named      *)
(* after.                                                                  *)
UpperOfSample(i, lower) == data[i][lower]
LowerPosOfUpper(i, t)   == SelectInSeq(time[i], LAMBDA x : x >= t)
AdvanceBoth(i)          == pos' = [j \in Signals |-> pos[j] + 1]

-----------------------------------------------------------------------------
(* Writers: push_sample() of signal i, its steps visible to the other      *)
(* thread.  Time stamps of one signal never decrease.                      *)

NextTimes(i) ==
  {t \in Times : time[i] # <<>> => IF Strict THEN t > Last(time[i])
                                             ELSE t >= Last(time[i])}

PushTime(i) ==
  /\ threads /\ Len(time[i]) = count[i] /\ count[i] < MaxSamples
  /\ \E t \in NextTimes(i) : time' = [time EXCEPT ![i] = Append(@, t)]
  /\ UNCHANGED <<threads, data, count, pos, queued, gui, out, thrown>>

PushData(i) ==
  /\ threads /\ Len(data[i]) < Len(time[i])
  /\ \E l \in Levels : data' = [data EXCEPT ![i] = Append(@, l * Scale)]
  /\ UNCHANGED <<threads, time, count, pos, queued, gui, out, thrown>>

PushCount(i) ==
  /\ threads /\ count[i] < Len(data[i])
  /\ count' = [count EXCEPT ![i] = @ + 1]
  /\ queued' = queued + 1
  /\ UNCHANGED <<threads, time, data, pos, gui, out, thrown>>

(* In the GUI thread a push is one step and calls the slot directly.       *)
PushDirect(i) ==
  /\ ~threads /\ gui = "idle" /\ count[i] < MaxSamples
  /\ \E t \in NextTimes(i), l \in Levels :
       /\ time' = [time EXCEPT ![i] = Append(@, t)]
       /\ data' = [data EXCEPT ![i] = Append(@, l * Scale)]
  /\ count' = [count EXCEPT ![i] = @ + 1]
  /\ gui' = "skip"
  /\ UNCHANGED <<threads, pos, queued, out, thrown>>

-----------------------------------------------------------------------------
(* get_value_at_timestamp() of signal i for a time stamp.                  *)

InRange(i, t) == time[i] # <<>> /\ t >= time[i][1] /\ t <= Last(time[i])

LowerBound(i, t) == SelectInSeq(time[i], LAMBDA x : x >= t)

(* The two samples to interpolate between; the second is read last.        *)
LowerPos(i, t) == LET l == LowerBound(i, t) IN IF l > 1 THEN l - 1 ELSE l
Upper(i, lower) == data[i][lower + 1]

Matches(i, t) == time[i][LowerBound(i, t)] = t
OutOfRange(i, t) == ~Matches(i, t) /\ LowerPos(i, t) + 1 > Len(data[i])

(* On an exact match the code returns the time stamp it has found.         *)
ValueAt(i, t) ==
  IF Matches(i, t) THEN time[i][LowerBound(i, t)]
  ELSE LET lo == LowerPos(i, t) IN
       data[i][lo] + ((Upper(i, lo) - data[i][lo]) * (t - time[i][lo]))
                       \div (time[i][lo + 1] - time[i][lo])

-----------------------------------------------------------------------------
(* combine_signals()                                                       *)

StartSlot ==
  /\ gui = "idle" /\ queued > 0 /\ ~thrown
  /\ queued' = queued - 1 /\ gui' = "skip"
  /\ UNCHANGED <<threads, signalVars, pos, out, thrown>>

Available(i) == pos[i] < count[i]

(* get_sample(): zeros for a sample that has not been counted.             *)
TimeOf(i)  == IF pos[i] < count[i] THEN time[i][pos[i] + 1] ELSE 0
ValueOf(i) == IF pos[i] < count[i] THEN data[i][pos[i] + 1] ELSE 0

(* Where the loop over the first samples of signal i stops: at the first   *)
(* sample that is not older than the other signal, or at the last sample.  *)
SkipTo(i) ==
  LET reached == {p \in pos[i]..(count[i] - 1) :
                    time[i][p + 1] >= TimeOf(Other(i)) \/ p = count[i] - 1}
  IN CHOOSE p \in reached : \A q \in reached : p <= q

Skip ==
  /\ gui = "skip"
  /\ IF \E i \in Signals : count[i] = 0
       THEN gui' = "idle" /\ UNCHANGED pos
     ELSE IF \A i \in Signals : pos[i] > 0
       THEN gui' = "merge" /\ UNCHANGED pos
     ELSE IF \E i \in Signals : ~Available(i)
       THEN gui' = "idle" /\ UNCHANGED pos
     ELSE /\ gui' = "merge"
          /\ pos' = [i \in Signals |->
               IF TimeOf(i) < TimeOf(Other(i)) THEN SkipTo(i) ELSE pos[i]]
  /\ UNCHANGED <<threads, signalVars, queued, out, thrown>>

AdvanceOne(i) == pos' = [pos EXCEPT ![i] = @ + 1]

(* Both signals have a sample of the same time.                            *)
MergeEqual ==
  /\ gui = "merge" /\ \A i \in Signals : Available(i)
  /\ TimeOf(1) = TimeOf(2)
  /\ out' = Append(out, [t |-> TimeOf(1),
                         v |-> [i \in Signals |-> ValueOf(i)]])
  /\ pos' = [i \in Signals |-> pos[i] + 1]
  /\ UNCHANGED <<threads, signalVars, queued, gui, thrown>>

(* Signal i has the older sample: the other one is interpolated.           *)
MergeOlder(i) ==
  LET j == Other(i)
      t == TimeOf(i) IN
  /\ gui = "merge" /\ \A k \in Signals : Available(k)
  /\ t < TimeOf(j)
  /\ IF ~InRange(j, t)
       THEN gui' = "idle" /\ UNCHANGED <<pos, out, thrown>>
     ELSE IF OutOfRange(j, t)
       THEN thrown' = TRUE /\ gui' = "idle" /\ UNCHANGED <<pos, out>>
     ELSE /\ out' = Append(out, [t |-> t,
               v |-> [k \in Signals |-> IF k = i THEN ValueOf(i)
                                                 ELSE ValueAt(j, t)]])
          /\ AdvanceOne(i)
          /\ UNCHANGED <<gui, thrown>>
  /\ UNCHANGED <<threads, signalVars, queued>>

MergeEnds ==
  /\ gui = "merge" /\ \E i \in Signals : ~Available(i)
  /\ gui' = "idle"
  /\ UNCHANGED <<threads, signalVars, pos, queued, out, thrown>>

Next ==
  \/ \E i \in Signals : PushTime(i) \/ PushData(i) \/ PushCount(i) \/ PushDirect(i)
  \/ StartSlot \/ Skip \/ MergeEqual \/ MergeEnds
  \/ \E i \in Signals : MergeOlder(i)

Spec == Init /\ [][Next]_vars

-----------------------------------------------------------------------------
(* The definition the header gives by its table: every time stamp of       *)
(* either signal that lies in the range of both, in order, ...             *)
Stamps(i)  == {time[i][k] : k \in 1..count[i]}
InBoth     == {t \in Stamps(1) \cup Stamps(2) : \A i \in Signals : InRange(i, t)}
(* ... and for each signal the value measured then, or the one on the      *)
(* straight line between its neighbours.                                   *)
Measured(i, t) == {data[i][k] : k \in {k \in DOMAIN data[i] : time[i][k] = t}}
OnLine(i, t, v) ==
  \E k \in 1..(Len(data[i]) - 1) :
    /\ time[i][k] < t /\ t < time[i][k + 1]
    /\ (v - data[i][k]) * (time[i][k + 1] - time[i][k])
         = (data[i][k + 1] - data[i][k]) * (t - time[i][k])
RightValue(i, t, v) == v \in Measured(i, t) \/ OnLine(i, t, v)

(* When a call has ended, nothing of the signals' common range is missing, *)
(* whatever the order in which their samples arrived: combining step by    *)
(* step gives the same as combining the two complete signals.  A push that *)
(* is under way in another thread is followed by one more call.            *)
CombinedIsComplete ==
  /\ gui = "idle" /\ queued = 0 /\ (\A i \in Signals : Len(time[i]) = count[i]) =>
       {out[k].t : k \in DOMAIN out} = InBoth
  /\ \A k \in 2..Len(out) : out[k - 1].t < out[k].t

(* Every value combined is the right one for its time stamp; it may have   *)
(* been interpolated with a sample another thread had not counted yet.     *)
CombinedIsRight ==
  \A k \in DOMAIN out : \A i \in Signals : RightValue(i, out[k].t, out[k].v[i])

(* While other threads write, get_value_at_timestamp() never interpolates  *)
(* with a value that is not there yet: time_ may be ahead of data_.        *)
NeverThrows == ~thrown
=============================================================================
