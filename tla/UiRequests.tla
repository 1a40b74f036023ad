----------------------------- MODULE UiRequests -----------------------------
(***************************************************************************)
(* How a script changes the user interface: every function of UiProxy      *)
(* connects a slot to the reply signal of the UiHelper, emits a request    *)
(* that is queued for the GUI thread, and runs an event loop in the script *)
(* thread until a reply, or a timer, quits it.  A reply carries nothing    *)
(* that says which request it answers; the connection that is there when   *)
(* it is emitted takes it, even if it is delivered when the slot is long   *)
(* disconnected.                                                           *)
(*                                                                         *)
(* The functions of UiProxy differ in the reply they wait for; tab_added,  *)
(* view_added and views_added are one kind.  A dialog that is left open by *)
(* a call that returned early, and the signals of a second script, are     *)
(* left out.                                                               *)
(***************************************************************************)
EXTENDS Integers, Sequences, SequencesExt

CONSTANTS
  Kinds,        (* the calls of the script: "view", "curve", "dialog" and  *)
                (* "channel", the one that waits for no reply              *)
  MaxCalls      (* bound: calls of the script                              *)

ASSUME ConstantsOK ==
  /\ Kinds \subseteq {"view", "curve", "dialog", "channel"}
  /\ MaxCalls \in Nat

Calls   == 1..MaxCalls
Empty   == 0    (* an empty id, or a cancelled dialog                      *)
Garbage == -1   (* a variable that was never assigned                      *)
Running == -2   (* not returned yet                                        *)
Void    == -3   (* of a call that returns nothing                          *)

VARIABLES
  calls,        (* calls made so far; the last one is the current one      *)
  state,        (* of the script thread: "idle", "waiting" in the event    *)
                (* loop, or "quit": quit() was called                      *)
  conns,        (* the connected slots: [call, signal]                     *)
  timer,        (* timer_conn_ would quit the loop                         *)
  result,       (* the variable the slot of the current call assigns       *)
  toGui,        (* queued requests: [call, kind]                           *)
  toScript,     (* queued replies: [call: of the slot, value]              *)
  returned,     (* history: what each call returned                        *)
  added,        (* history: the calls whose request was carried out        *)
  timedOut      (* history: the calls that were given up                   *)

scriptVars == <<calls, state, conns, timer, result>>
histVars   == <<returned, added, timedOut>>
vars == <<scriptVars, toGui, toScript, histVars>>

Init ==
  /\ calls = 0 /\ state = "idle" /\ conns = {} /\ timer = FALSE /\ result = Empty
  /\ toGui = <<>> /\ toScript = <<>>
  /\ returned = [n \in Calls |-> Running] /\ added = {} /\ timedOut = {}

-----------------------------------------------------------------------------
(* Plausible bugs, put in the place of the definitions they are named      *)
(* after.                                                                  *)
DisconnectForgotten  == UNCHANGED conns
TimerNeverQuits      == UNCHANGED state

-----------------------------------------------------------------------------
(* The script thread                                                       *)

(* init_wait_for_*(): only dialogs have no timeout.                        *)
Connect(n, k) == conns' = conns \cup {[call |-> n, signal |-> k]}
StartTimer(k) == timer' = (k # "dialog")

Call(k) ==
  /\ state = "idle" /\ calls < MaxCalls
  /\ calls' = calls + 1
  /\ toGui' = Append(toGui, [call |-> calls', kind |-> k])
  /\ IF k = "channel"
     THEN /\ returned' = [returned EXCEPT ![calls'] = Void]
          /\ UNCHANGED <<state, conns, timer, result>>
     ELSE /\ Connect(calls', k) /\ StartTimer(k)
          /\ state' = "waiting"
          /\ result' = IF k = "dialog" THEN Garbage ELSE Empty
          /\ UNCHANGED returned
  /\ UNCHANGED <<toScript, added, timedOut>>

Quit == state' = "quit"

(* A reply quits the loop, whoever it was for.  The slot of an earlier     *)
(* call assigns a variable that is gone; the one of the current call may   *)
(* have taken its place.  Replies that wait together may be delivered      *)
(* together, before the loop is left.                                      *)
HandleReply ==
  /\ state # "idle" /\ toScript # <<>>
  /\ LET reply == Head(toScript)
     IN IF reply.call = calls THEN result' = reply.value
                              ELSE result' \in {result, reply.value}
  /\ Quit
  /\ toScript' = Tail(toScript)
  /\ UNCHANGED <<calls, conns, timer, toGui, histVars>>

(* The GUI thread may always be later than the timeout.                    *)
TimeOut ==
  /\ state = "waiting" /\ timer
  /\ Quit
  /\ timedOut' = timedOut \cup {calls}
  /\ UNCHANGED <<calls, conns, timer, result, toGui, toScript, returned, added>>

(* finish_wait_for_signal(), and return                                    *)
Disconnect == conns' = {}

Finish ==
  /\ state = "quit"
  /\ state' = "idle"
  /\ Disconnect /\ timer' = FALSE
  /\ returned' = [returned EXCEPT ![calls] = result]
  /\ UNCHANGED <<calls, result, toGui, toScript, added, timedOut>>

-----------------------------------------------------------------------------
(* The GUI thread: a slot of UiHelper.  The tab or view that is named may  *)
(* be there or not; a dialog is accepted or cancelled.  A missing view is  *)
(* reported as a curve, also by the call that waits for no reply.          *)
Signal(kind, ok) == IF kind # "channel" THEN kind ELSE IF ok THEN "none" ELSE "curve"

Emit(signal, value) ==
  LET slots == SetToSeq({c \in conns : c.signal = signal})
  IN toScript' = toScript \o [i \in DOMAIN slots |->
                                [call |-> slots[i].call, value |-> value]]

Answer(ok, r) == IF ok THEN r.call ELSE Empty

Serve(ok) ==
  /\ toGui # <<>>
  /\ LET r == Head(toGui)
     IN /\ Emit(Signal(r.kind, ok), Answer(ok, r))
        /\ added' = IF ok THEN added \cup {r.call} ELSE added
  /\ toGui' = Tail(toGui)
  /\ UNCHANGED <<scriptVars, returned, timedOut>>

Script == (\E k \in Kinds : Call(k)) \/ HandleReply \/ TimeOut \/ Finish
Gui    == \E ok \in BOOLEAN : Serve(ok)
Next   == Script \/ Gui

(* The loop of the script thread runs; nothing is assumed of the GUI.      *)
Spec     == Init /\ [][Next]_vars
FairSpec == Spec /\ WF_vars(TimeOut) /\ WF_vars(Finish)

-----------------------------------------------------------------------------
(* A call can trust its answer if neither it nor one before it was given   *)
(* up, and none before it was the kind whose stray reply nobody awaits.    *)
Trusted(n) == /\ \A m \in timedOut : m > n
              /\ \A m \in 1..(n - 1) : returned[m] # Void

(* bindings.cpp: "The id of the new view or empty if the view couldn't be  *)
(* added.": a trusted answer says what has happened in the window: the id  *)
(* of what was added, and empty only if nothing was nor will be.           *)
AnswersAreTrue ==
  \A n \in Calls :
    Trusted(n) /\ returned[n] \notin {Running, Void} =>
      returned[n] = IF n \in added THEN n ELSE Empty

(* Every call that has a timeout returns, however long the GUI thread is   *)
(* busy and whatever replies arrive.                                       *)
CallReturns == (state # "idle" /\ timer) ~> (state = "idle")
=============================================================================
