--------------------------- MODULE ChannelSignals ---------------------------
(***************************************************************************)
(* How a channel routes samples to its signals, and how a value panel      *)
(* follows the channel.                                                    *)
(*                                                                         *)
(* A channel has one signal per measured quantity (quantity and flags),    *)
(* created when the first sample of that quantity arrives, and remembers   *)
(* the actual one.  The pushing thread (the acquisition thread, or for a   *)
(* UserChannel the script thread) changes it while a ValuePanelView in the *)
(* GUI thread reads it, woken by the queued events signal_added() and      *)
(* signal_changed().  A script may add a further signal of a quantity that *)
(* has one already.                                                        *)
(***************************************************************************)
EXTENDS Naturals, Sequences, SequencesExt

CONSTANTS
  Quantities,   (* the measured quantities                                 *)
  MaxPushes,    (* bound: samples pushed in one behaviour                  *)
  MaxAdded,     (* bound: signals added by a script in one behaviour       *)
  MaxSets       (* bound: set_channel() calls in one behaviour             *)

ASSUME ConstantsOK == MaxPushes \in Nat /\ MaxAdded \in Nat /\ MaxSets \in Nat

VARIABLES
  user,         (* TRUE: a UserChannel, FALSE: a HardwareChannel           *)
  signals,      (* the quantity of each signal, in the order of creation   *)
  actual,       (* actual_signal_: the number of a signal, 0 for nullptr   *)
  pusher,       (* place of the pushing thread in push_...sample(s)()      *)
  pushing,      (* the quantity of the samples it is pushing               *)
  stored,       (* for every push, its quantity and the signal it went to  *)
  scripted,     (* signals added by a script so far                        *)
  events,       (* events queued for on_signal_changed() of the panel      *)
  panel,        (* the panel: "none", "reading", "connected"               *)
  shown,        (* signal_ of the panel                                    *)
  sets,         (* set_channel() calls so far                              *)
  announced     (* a change was announced since the panel was connected    *)

channelVars == <<user, signals, actual, pusher, pushing, stored, scripted>>
panelVars   == <<panel, shown, sets>>
vars == <<channelVars, panelVars, events, announced>>

NoSignal == 0

Init ==
  /\ user \in BOOLEAN
  /\ signals = <<>> /\ actual = NoSignal
  /\ pusher = "idle" /\ pushing \in Quantities
  /\ stored = <<>> /\ scripted = 0
  /\ events = 0 /\ panel = "none" /\ shown = NoSignal /\ sets = 0
  /\ announced = FALSE

-----------------------------------------------------------------------------
(* Plausible bugs, put in the place of the definitions they are named      *)
(* after.                                                                  *)
MatchesIfAny(q)       == actual # NoSignal
EmitDropped           == announced' = (panel = "connected") /\ UNCHANGED events
ReadActualOnce        == IF shown = NoSignal THEN actual ELSE shown

-----------------------------------------------------------------------------
(* Q_EMIT signal_added() or signal_changed(): queued when connected.       *)
Emit ==
  IF panel = "connected"
    THEN events' = events + 1 /\ announced' = TRUE
    ELSE UNCHANGED <<events, announced>>

Exists(q)      == \E i \in DOMAIN signals : signals[i] = q
FirstSignal(q) == SelectInSeq(signals, LAMBDA x : x = q)
Matches(q)     == actual # NoSignal /\ signals[actual] = q

(* push_interleaved_samples() and UserChannel::push_sample() up to the     *)
(* branches; the branch "more than one signal" of both tests the count of  *)
(* a map and is never taken.                                               *)
StartPush ==
  /\ pusher = "idle" /\ Len(stored) < MaxPushes
  /\ pushing' \in Quantities
  /\ pusher' = IF Matches(pushing') THEN "store"
               ELSE IF ~Exists(pushing') THEN "add" ELSE "switch"
  /\ UNCHANGED <<user, signals, actual, stored, scripted, events, panelVars, announced>>

(* add_signal(): the new signal is the actual one before it is announced.  *)
AddSignal ==
  /\ pusher = "add"
  /\ signals' = Append(signals, pushing)
  /\ actual' = Len(signals) + 1
  /\ Emit
  /\ pusher' = "switch"
  /\ UNCHANGED <<user, pushing, stored, scripted, panelVars>>

(* A HardwareChannel takes the first signal of the quantity, a UserChannel *)
(* keeps the actual one: the new signal, or the one of the old quantity.   *)
SwitchSignal ==
  /\ pusher = "switch"
  /\ actual' = IF user THEN actual ELSE FirstSignal(pushing)
  /\ Emit
  /\ pusher' = "store"
  /\ UNCHANGED <<user, signals, pushing, stored, scripted, panelVars>>

PushSamples ==
  /\ pusher = "store"
  /\ stored' = Append(stored, [of |-> pushing, into |-> actual])
  /\ pusher' = "idle"
  /\ UNCHANGED <<user, signals, actual, pushing, scripted, panelVars, events, announced>>

(* A script adds a signal: between its own pushes to a user channel, but   *)
(* at any time to a hardware channel.                                      *)
ScriptAddsSignal ==
  /\ scripted < MaxAdded /\ (user => pusher = "idle")
  /\ \E q \in Quantities : signals' = Append(signals, q)
  /\ actual' = Len(signals) + 1
  /\ Emit
  /\ scripted' = scripted + 1
  /\ UNCHANGED <<user, pusher, pushing, stored, panelVars>>

-----------------------------------------------------------------------------
(* GUI thread: ValuePanelView.                                             *)

(* set_channel() disconnects, reads the actual signal ...                  *)
SetChannel ==
  /\ panel \in {"none", "connected"} /\ sets < MaxSets
  /\ panel' = "reading" /\ sets' = sets + 1
  /\ shown' = actual
  /\ announced' = FALSE
  /\ UNCHANGED <<channelVars, events>>

(* ... sets up the displays, and connects.                                 *)
ConnectChannel ==
  /\ panel = "reading"
  /\ panel' = "connected"
  /\ UNCHANGED <<channelVars, shown, sets, events, announced>>

ReadActual == actual

OnSignalChanged ==
  /\ panel # "reading" /\ events > 0
  /\ events' = events - 1
  /\ shown' = ReadActual
  /\ UNCHANGED <<channelVars, panel, sets, announced>>

Pusher == StartPush \/ AddSignal \/ SwitchSignal \/ PushSamples \/ ScriptAddsSignal
Panel  == SetChannel \/ ConnectChannel \/ OnSignalChanged
Next   == Pusher \/ Panel

-----------------------------------------------------------------------------
(* A hardware channel that no script adds signals to never mixes           *)
(* quantities: whatever order the driver switches them in, a sample goes   *)
(* to a signal of its own quantity.  (With a script it may: the signal is  *)
(* replaced between the test and the push.  A user channel does when it    *)
(* comes back to an earlier quantity.)                                     *)
RoutedByQuantity ==
  ~user /\ scripted = 0 =>
    \A i \in DOMAIN stored : signals[stored[i].into] = stored[i].of

(* A change announced to a connected panel reaches it: when its events are *)
(* handled and nobody is pushing, it shows the actual signal.              *)
PanelCatchesUp ==
  panel = "connected" /\ announced /\ events = 0 /\ pusher \in {"idle", "store"} =>
    shown = actual

(* Once the channel settles on a signal, so does the panel, also when a    *)
(* script adds signals nobody pushes to.                                   *)
PanelSettles ==
  <>[](panel = "connected" /\ announced) =>
    \A s \in 1..(MaxPushes + MaxAdded) : <>[](actual = s) => <>[](shown = s)
=============================================================================
