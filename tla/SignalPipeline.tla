--------------------------- MODULE SignalPipeline ---------------------------
(***************************************************************************)
(* One AnalogTimeSignal written by the acquisition thread and followed in  *)
(* the GUI thread by two math channels, an AddSCChannel and an             *)
(* IntegrateChannel (as the Ah channel of a source or sink follows the     *)
(* current its hardware measures).                                         *)
(*                                                                         *)
(* A signal has no lock ("TODO: Mutex?"): push_samples() appends to two    *)
(* vectors and counts, sample by sample, while the GUI thread reads.  The  *)
(* notification sample_appended() is queued across the threads, for every  *)
(* push one event per channel, in the order the channels were connected.   *)
(* Each channel has a slot of its own, with a position of its own, and     *)
(* takes what has been counted when the slot begins.  clear() is called in *)
(* the GUI thread, when the user deletes a signal in the device tree.      *)
(*                                                                         *)
(* A sample is its time stamp, here the number of the sample, and a value: *)
(* time stamps grow (signals whose stamps run back are in SignalSource).   *)
(* Seconds instead of hours integrate; digits and min/max are left out.    *)
(***************************************************************************)
EXTENDS Naturals, Sequences

CONSTANTS
  Values,       (* the values a sample may have                            *)
  Constant,     (* constant_ of the AddSCChannel                           *)
  MaxBatch,     (* bound: samples in one push_samples()                    *)
  MaxSamples,   (* bound: samples pushed in one behaviour                  *)
  MaxClears,    (* bound: clear() calls in one behaviour                   *)
  Overlap       (* TRUE: the user may clear a signal that is being pushed  *)

ASSUME ConstantsOK ==
  /\ Values \subseteq Nat /\ Constant \in Nat
  /\ MaxBatch \in Nat /\ MaxSamples \in Nat /\ MaxClears \in Nat
  /\ Overlap \in BOOLEAN

VARIABLES
  time, data,   (* time_ and data_                                         *)
  count,        (* sample_count_                                           *)
  lastTime,     (* last_timestamp_                                         *)
  pusher,       (* place of the acquisition thread in push_sample(s)()     *)
  left,         (* samples of the batch not yet counted                    *)
  single,       (* the push is push_sample(), not push_samples()           *)
  made,         (* samples made so far                                     *)
  queued,       (* sample_appended() events queued for the AddSCChannel    *)
  intQueued,    (* sample_appended() events queued for the IntegrateChannel*)
  gui,          (* place of the GUI thread in a slot or in clear()         *)
  clears,       (* clear() calls so far                                    *)
  limit,        (* signal_sample_count in either on_sample_appended()      *)
  nextPos,      (* next_signal_pos_ of the AddSCChannel                    *)
  added,        (* samples of the AddSCChannel                             *)
  intPos,       (* next_int_signal_pos_ of the IntegrateChannel            *)
  intTime,      (* last_timestamp_ of the IntegrateChannel                 *)
  intValue,     (* last_value_ of the IntegrateChannel                     *)
  integral,     (* samples of the IntegrateChannel                         *)
  thrown        (* a vector was read out of range: std::out_of_range       *)

storeVars == <<time, data, count, lastTime>>
pushVars  == <<pusher, left, single, made>>
intVars   == <<intPos, intTime, intValue, integral>>
addVars   == <<nextPos, added>>
mathVars  == <<limit, thrown, addVars, intVars>>
vars == <<storeVars, pushVars, queued, intQueued, gui, clears, mathVars>>

Sample == [t : Nat, v : Nat]

(* The GUI thread is in the middle of clear().                             *)
Clearing == gui \in {"clearData", "clearCount"}

Init ==
  /\ time = <<>> /\ data = <<>> /\ count = 0 /\ lastTime = 0
  /\ pusher = "idle" /\ left = 0 /\ single = FALSE /\ made = 0
  /\ queued = 0 /\ intQueued = 0 /\ gui = "idle" /\ clears = 0
  /\ limit = 0 /\ nextPos = 0 /\ added = <<>>
  /\ intPos = 0 /\ intTime = 0 /\ intValue = 0 /\ integral = <<>>
  /\ thrown = FALSE

-----------------------------------------------------------------------------
(* Plausible bugs, put in the place of the definitions they are named      *)
(* after.                                                                  *)
StoreTimeCounted    == time' = Append(time, made + 1) /\ count' = count + 1
NotifyForgotten     == UNCHANGED <<queued, intQueued>>
AdvanceTwice        == nextPos' = nextPos + 2
PassToEnd           == intPos' = limit

-----------------------------------------------------------------------------
(* Acquisition thread: push_sample() and push_samples().                   *)

StartPush ==
  /\ pusher = "idle"
  /\ Overlap \/ ~Clearing
  /\ \E n \in 1..MaxBatch, one \in BOOLEAN :
       /\ made + n <= MaxSamples
       /\ one => n = 1
       /\ left' = n /\ single' = one
       /\ lastTime' = IF one THEN made + 1 ELSE lastTime
  /\ pusher' = "time"
  /\ UNCHANGED <<time, data, count, made, queued, intQueued, gui, clears, mathVars>>

StoreTime == time' = Append(time, made + 1) /\ UNCHANGED count

PushTime ==
  /\ pusher = "time"
  /\ StoreTime
  /\ made' = made + 1
  /\ pusher' = "data"
  /\ UNCHANGED <<data, lastTime, left, single, queued, intQueued, gui, clears,
                 mathVars>>

PushData ==
  /\ pusher = "data"
  /\ \E v \in Values : data' = Append(data, v)
  /\ pusher' = "count"
  /\ UNCHANGED <<time, count, lastTime, left, single, made, queued, intQueued,
                 gui, clears, mathVars>>

(* ++sample_count_, once both vectors hold the sample.                     *)
CountSample ==
  /\ count' = count + 1
  /\ left' = left - 1
  /\ pusher' = IF left = 1 THEN "emit" ELSE "time"

PushCount ==
  /\ pusher = "count"
  /\ CountSample
  /\ UNCHANGED <<time, data, lastTime, single, made, queued, intQueued, gui,
                 clears, mathVars>>

Notify == queued' = queued + 1 /\ intQueued' = intQueued + 1

(* timestamp - time_stride, after the loop of push_samples().              *)
AfterPush == made

EmitAppended ==
  /\ pusher = "emit"
  /\ lastTime' = IF single THEN lastTime ELSE AfterPush
  /\ Notify
  /\ pusher' = "idle"
  /\ UNCHANGED <<time, data, count, left, single, made, gui, clears, mathVars>>

Producer == StartPush \/ PushTime \/ PushData \/ PushCount \/ EmitAppended

-----------------------------------------------------------------------------
(* GUI thread: AddSCChannel::on_sample_appended().                         *)

SlotLimit == count

(* The events of a push are queued one after the other, the AddSCChannel's *)
(* first: the next event is its own unless one of its was taken already.   *)
BeginSlot ==
  /\ gui = "idle" /\ queued > 0 /\ queued = intQueued /\ ~thrown
  /\ queued' = queued - 1
  /\ limit' = SlotLimit
  /\ gui' = "slot"
  /\ UNCHANGED <<storeVars, pushVars, intQueued, clears, thrown, addVars, intVars>>

(* get_sample(): a position that was counted is read with at(), any other  *)
(* gives a pair of zeros.                                                  *)
OutOfRange(pos) == pos < count /\ (pos >= Len(time) \/ pos >= Len(data))
GetSample(pos) ==
  IF pos < count THEN [t |-> time[pos + 1], v |-> data[pos + 1]]
                 ELSE [t |-> 0, v |-> 0]

Plus(s) == [s EXCEPT !.v = @ + Constant]

Advance == nextPos' = nextPos + 1

FollowSample ==
  /\ gui = "slot" /\ nextPos < limit /\ ~thrown
  /\ IF OutOfRange(nextPos)
       THEN thrown' = TRUE /\ UNCHANGED addVars
       ELSE /\ added' = Append(added, Plus(GetSample(nextPos)))
            /\ Advance
            /\ UNCHANGED thrown
  /\ UNCHANGED <<storeVars, pushVars, queued, intQueued, gui, clears, limit, intVars>>

EndSlot ==
  /\ gui = "slot" /\ nextPos >= limit
  /\ gui' = "idle"
  /\ UNCHANGED <<storeVars, pushVars, queued, intQueued, clears, mathVars>>

(* GUI thread: IntegrateChannel::on_sample_appended().                     *)
BeginIntegrate ==
  /\ gui = "idle" /\ intQueued > queued /\ ~thrown
  /\ intQueued' = intQueued - 1
  /\ limit' = SlotLimit
  /\ gui' = "integrate"
  /\ UNCHANGED <<storeVars, pushVars, queued, clears, thrown, addVars, intVars>>

(* The rectangle from the last time stamp taken to this one.               *)
Integrated(s) == intValue + s.v * (s.t - intTime)

Pass == intPos' = intPos + 1

IntegrateSample ==
  /\ gui = "integrate" /\ intPos < limit /\ ~thrown
  /\ IF OutOfRange(intPos)
       THEN thrown' = TRUE /\ UNCHANGED intVars
       ELSE LET s == GetSample(intPos) IN
            /\ integral' = Append(integral, [t |-> s.t, v |-> Integrated(s)])
            /\ intTime' = s.t
            /\ intValue' = Integrated(s)
            /\ Pass
            /\ UNCHANGED thrown
  /\ UNCHANGED <<storeVars, pushVars, queued, intQueued, gui, clears, limit, addVars>>

EndIntegrate ==
  /\ gui = "integrate" /\ intPos >= limit
  /\ gui' = "idle"
  /\ UNCHANGED <<storeVars, pushVars, queued, intQueued, clears, mathVars>>

(* GUI thread: AnalogTimeSignal::clear().                                  *)
ClearTime ==
  /\ gui = "idle" /\ ~thrown /\ clears < MaxClears
  /\ Overlap \/ pusher = "idle"
  /\ time' = <<>> /\ gui' = "clearData" /\ clears' = clears + 1
  /\ UNCHANGED <<data, count, lastTime, pushVars, queued, intQueued, mathVars>>

ClearData ==
  /\ gui = "clearData"
  /\ data' = <<>> /\ gui' = "clearCount"
  /\ UNCHANGED <<time, count, lastTime, pushVars, queued, intQueued, clears, mathVars>>

(* samples_cleared() has no receiver: no position is reset.                *)
ResetCount == count' = 0

ClearCount ==
  /\ gui = "clearCount"
  /\ ResetCount
  /\ gui' = "idle"
  /\ UNCHANGED <<time, data, lastTime, pushVars, queued, intQueued, clears, mathVars>>

Slots == \/ BeginSlot \/ FollowSample \/ EndSlot
         \/ BeginIntegrate \/ IntegrateSample \/ EndIntegrate

Gui == Slots \/ ClearTime \/ ClearData \/ ClearCount

Next == Producer \/ Gui

Spec == Init /\ [][Next]_vars

(* A push that has begun ends, and the event loop of the GUI thread runs   *)
(* the slots of the events queued.  Nobody has to push or clear.           *)
Fairness ==
  /\ WF_vars(PushTime \/ PushData \/ PushCount \/ EmitAppended)
  /\ WF_vars(Slots \/ ClearData \/ ClearCount)

FairSpec == Spec /\ Fairness

-----------------------------------------------------------------------------
TypeOK ==
  /\ time \in Seq(Nat) /\ data \in Seq(Nat) /\ count \in Nat /\ lastTime \in Nat
  /\ pusher \in {"idle", "time", "data", "count", "emit"}
  /\ left \in Nat /\ single \in BOOLEAN /\ made \in Nat
  /\ queued \in Nat /\ intQueued \in Nat /\ clears \in Nat
  /\ gui \in {"idle", "slot", "integrate", "clearData", "clearCount"}
  /\ limit \in Nat /\ nextPos \in Nat /\ intPos \in Nat
  /\ added \in Seq(Sample) /\ integral \in Seq(Sample)
  /\ intTime \in Nat /\ intValue \in Nat
  /\ thrown \in BOOLEAN

(* The order time, data, count of push_samples() makes every sample that   *)
(* is counted readable, in whichever step of a push the reader comes.      *)
CountedIsStored ==
  ~Clearing => count <= Len(data) /\ count <= Len(time)

(* No wakeup is lost: samples a math channel has not seen are announced by *)
(* an event queued for it, by the push under way, or are within the loop   *)
(* of its slot.                                                            *)
BehindIsAnnounced ==
  /\ nextPos < count =>
       \/ queued > 0
       \/ pusher # "idle"
       \/ gui = "slot" /\ count <= limit
  /\ intPos < count =>
       \/ intQueued > 0
       \/ pusher # "idle"
       \/ gui = "integrate" /\ count <= limit

(* The area under the first k samples of the source.                       *)
Area[k \in Nat] ==
  IF k = 0 THEN 0
  ELSE Area[k - 1] + data[k] * (time[k] - (IF k = 1 THEN 0 ELSE time[k - 1]))

(* Whatever has been pushed or announced when the slots run, a sample of   *)
(* the integral is the area under the source up to that sample, none       *)
(* missed and none taken twice.  Once the source has been cleared the      *)
(* samples the channel skips cannot be told any more; but the integral     *)
(* still covers all the time since the start, once: it is what the source  *)
(* would have given at a mean between two of its values.                   *)
IntegralIsArea ==
  \A k \in DOMAIN integral :
    /\ clears = 0 => integral[k] = [t |-> time[k], v |-> Area[k]]
    /\ \E low, high \in Values :
         low * integral[k].t <= integral[k].v /\ integral[k].v <= high * integral[k].t

(* The math channel implements the mirror of its source, also when the     *)
(* source is cleared between two of its slots.                             *)
Source == IF Clearing THEN <<>>
          ELSE [i \in 1..count |-> [t |-> time[i], v |-> data[i]]]
Abstract == INSTANCE Mirror WITH
  Image <- Plus, source <- Source, mirror <- added
ImplementsMirror == Abstract!Spec

(* Every sample counted reaches both math channels, unless the user clears *)
(* the source.                                                             *)
FollowsSource ==
  \A n \in 1..MaxSamples :
    (count >= n) ~> ((Len(added) >= n /\ Len(integral) >= n) \/ clears > 0)
=============================================================================
