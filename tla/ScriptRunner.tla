---------------------------- MODULE ScriptRunner ----------------------------
(***************************************************************************)
(* SmuScripts: the runner of the session, which executes a Python file on  *)
(* a detached thread with an interpreter of its own, the script editors,   *)
(* each a view with a Run/Stop button in a tab that shows the output, and  *)
(* the Run button of the script tree.  The signals of the runner reach the *)
(* views through the event queue of the GUI thread, so a view always knows *)
(* an older state of the runner.                                           *)
(*                                                                         *)
(* What a script does, the text of the editor and the output are left out. *)
(***************************************************************************)
EXTENDS Integers, Sequences, SequencesExt

CONSTANTS
  Editors,      (* script views, each in its tab                           *)
  Tree,         (* the script tree, as a receiver of signals               *)
  None,         (* no editor                                               *)
  Texts,        (* {"saved"} or {"saved", "changed"}: the text when Run is *)
                (* clicked                                                 *)
  Files,        (* {"valid"} or {"valid", "missing"}: the file to run      *)
  MaxRuns,      (* bound: script threads in one behaviour                  *)
  MaxOpens      (* bound: script tabs opened in one behaviour              *)

ASSUME RunnerConstantsOK ==
  /\ Tree \notin Editors /\ None \notin Editors
  /\ "saved" \in Texts /\ Texts \subseteq {"saved", "changed"}
  /\ "valid" \in Files /\ Files \subseteq {"valid", "missing"}
  /\ MaxRuns \in Nat \ {0} /\ MaxOpens \in Nat

Threads == 1..MaxRuns

VARIABLES
  stage,        (* where script_thread_proc() of each thread is            *)
  isRunning,    (* is_running_                                             *)
  interrupt,    (* PyErr_SetInterrupt() was called for the interpreter     *)
  aborted,      (* an exception left a script thread                       *)
  queue,        (* the queued signals of the runner: <<receiver, signal>>  *)
  treeChecked,  (* action_run_script_ of the tree is checked               *)
  open,         (* the tab of the editor is open                           *)
  checked,      (* action_run_ of the editor is checked                    *)
  enabled,      (* ... and enabled                                         *)
  own,          (* started_from_here_                                      *)
  hooked,       (* connections of the output to the tab of the editor      *)
  asking,       (* the editor whose ask_to_save() dialog is open, or None  *)
  missed,       (* history: disabled by a script whose script_finished()   *)
                (* was sent before the editor was opened, or is taken for  *)
                (* the end of a script the editor has started meanwhile    *)
  opens         (* tabs opened so far                                      *)

runnerVars == <<stage, isRunning, interrupt, aborted>>
editorVars == <<open, checked, enabled, own, hooked, missed, opens>>
scriptingVars == <<runnerVars, queue, treeChecked, editorVars, asking>>

Nowhere == [e \in Editors |-> FALSE]

(* A script named on the command line is started with the main window.     *)
InitRunner ==
  /\ stage \in {[t \in Threads |-> "none"],
                [t \in Threads |-> IF t = 1 THEN "created" ELSE "none"]}
  /\ isRunning = FALSE /\ interrupt = FALSE /\ aborted = FALSE
  /\ queue = <<>> /\ treeChecked = FALSE
  /\ open = Nowhere /\ checked = Nowhere /\ enabled = Nowhere /\ own = Nowhere
  /\ hooked = [e \in Editors |-> 0]
  /\ asking = None /\ missed = Nowhere /\ opens = 0

-----------------------------------------------------------------------------
(* Plausible bugs, put in the place of the definitions they are named      *)
(* after.                                                                  *)
ReleaseForgotten(e)  == UNCHANGED own
EnableForgotten(e)   == UNCHANGED enabled

-----------------------------------------------------------------------------
(* The runner                                                              *)

In(t, stages) == stage[t] \in stages
HasInterpreter(t) == In(t, {"executing", "emitted", "stopped"})
Unused == {t \in Threads : stage[t] = "none"}
AllDone == \A t \in Threads : In(t, {"none", "done"})

(* A signal is queued once for every view that is connected to it.         *)
Broadcast(signal) ==
  LET receivers == <<Tree>> \o SetToSeq({e \in Editors : open[e]})
  IN queue' = queue \o [i \in DOMAIN receivers |-> <<receivers[i], signal>>]

(* run(): whatever the runner is doing, a file that exists gets a thread.  *)
Run(file) ==
  IF file = "valid"
  THEN \E t \in Unused : /\ \A u \in Unused : t <= u
                         /\ stage' = [stage EXCEPT ![t] = "created"]
  ELSE UNCHANGED stage

(* stop(): ignored unless is_running_; without an interpreter the          *)
(* interrupt may or may not be kept for the next one.                      *)
Stop ==
  \/ /\ isRunning /\ interrupt' = TRUE
  \/ /\ ~isRunning \/ ~\E t \in Threads : HasInterpreter(t)
     /\ UNCHANGED interrupt

Step(t, from, to) ==
  /\ ~aborted
  /\ stage[t] = from /\ stage' = [stage EXCEPT ![t] = to]
  /\ UNCHANGED <<treeChecked, editorVars, asking>>

ThreadStarts(t) ==
  /\ Step(t, "created", "running")
  /\ isRunning' = TRUE
  /\ Broadcast("started")
  /\ UNCHANGED <<interrupt, aborted>>

(* A second interpreter is refused with an exception nobody catches.       *)
CreateInterpreter(t) ==
  /\ Step(t, "running", "executing")
  /\ aborted' = \E u \in Threads : HasInterpreter(u)
  /\ UNCHANGED <<isRunning, interrupt, queue>>

ScriptEnds(t) ==
  /\ Step(t, "executing", "emitted")
  /\ Broadcast("finished")
  /\ UNCHANGED <<isRunning, interrupt, aborted>>

ClearRunning == isRunning' = FALSE

ThreadStops(t) ==
  /\ Step(t, "emitted", "stopped")
  /\ ClearRunning
  /\ UNCHANGED <<interrupt, aborted, queue>>

DestroyInterpreter(t) ==
  /\ Step(t, "stopped", "done")
  /\ interrupt' = FALSE
  /\ UNCHANGED <<isRunning, aborted, queue>>

-----------------------------------------------------------------------------
(* The user.  The dialog of ask_to_save() is modal, but signals are still  *)
(* delivered while it is open.                                             *)
User == ~aborted /\ asking = None

OpenEditor(e) ==
  /\ User /\ ~open[e] /\ opens < MaxOpens
  /\ open' = [open EXCEPT ![e] = TRUE]
  /\ checked' = [checked EXCEPT ![e] = FALSE]
  /\ enabled' = [enabled EXCEPT ![e] = ~isRunning]
  /\ own' = [own EXCEPT ![e] = FALSE]
  /\ hooked' = [hooked EXCEPT ![e] = 0]
  /\ missed' = [missed EXCEPT ![e] =
       isRunning /\ ~\E t \in Threads : In(t, {"created", "running", "executing"})]
  /\ opens' = opens + 1
  /\ UNCHANGED <<runnerVars, queue, treeChecked, asking>>

(* A closed tab is deleted, with the events that wait for it.              *)
CloseEditor(e) ==
  /\ User /\ open[e]
  /\ open' = [open EXCEPT ![e] = FALSE]
  /\ queue' = SelectSeq(queue, LAMBDA q : q[1] # e)
  /\ UNCHANGED <<runnerVars, treeChecked, checked, enabled, own, hooked, missed, opens, asking>>

StartFromHere(e) ==
  /\ own' = [own EXCEPT ![e] = TRUE]
  /\ missed' = [missed EXCEPT ![e] = @ \/ ~enabled[e]]
  /\ \E f \in Files : Run(f)

ClickRun(e) ==
  /\ User /\ open[e] /\ enabled[e] /\ ~checked[e] /\ Unused # {}
  /\ checked' = [checked EXCEPT ![e] = TRUE]
  /\ \E text \in Texts :
       IF text = "saved" THEN StartFromHere(e) /\ UNCHANGED asking
                         ELSE asking' = e /\ UNCHANGED <<own, missed, stage>>
  /\ UNCHANGED <<isRunning, interrupt, aborted, queue, treeChecked,
                 open, enabled, hooked, opens>>

(* The answer: save or not, and run; or cancel, with the button checked.   *)
AnswerAsk ==
  /\ ~aborted /\ asking # None /\ Unused # {}
  /\ asking' = None
  /\ StartFromHere(asking) \/ UNCHANGED <<own, missed, stage>>
  /\ UNCHANGED <<isRunning, interrupt, aborted, queue, treeChecked,
                 open, checked, enabled, hooked, opens>>

ClickStop(e) ==
  /\ User /\ open[e] /\ enabled[e] /\ checked[e]
  /\ checked' = [checked EXCEPT ![e] = FALSE]
  /\ own' = [own EXCEPT ![e] = FALSE]
  /\ Stop
  /\ UNCHANGED <<stage, isRunning, aborted, queue, treeChecked, asking,
                 open, enabled, hooked, missed, opens>>

ClickTree ==
  /\ User /\ Unused # {}
  /\ treeChecked' = ~treeChecked
  /\ IF treeChecked THEN Stop /\ UNCHANGED stage
                    ELSE (\E f \in Files : Run(f)) /\ UNCHANGED interrupt
  /\ UNCHANGED <<isRunning, aborted, queue, editorVars, asking>>

-----------------------------------------------------------------------------
(* The event queue of the GUI thread                                       *)

Delivered(to, signal) ==
  /\ ~aborted
  /\ queue # <<>> /\ Head(queue) = <<to, signal>>
  /\ queue' = Tail(queue)
  /\ UNCHANGED <<runnerVars, asking, open, opens>>

TreeHears(signal) ==
  /\ Delivered(Tree, signal)
  /\ treeChecked' = (signal = "started")
  /\ UNCHANGED <<checked, enabled, own, hooked, missed>>

(* on_script_started() of the view, and of its tab                         *)
EditorHearsStarted(e) ==
  /\ Delivered(e, "started")
  /\ IF own[e] THEN /\ hooked' = [hooked EXCEPT ![e] = @ + 1]
                    /\ UNCHANGED enabled
               ELSE /\ enabled' = [enabled EXCEPT ![e] = FALSE]
                    /\ UNCHANGED hooked
  /\ UNCHANGED <<treeChecked, checked, own, missed>>

(* on_script_finished() of the view, and of its tab                        *)
Release(e) == own' = [own EXCEPT ![e] = FALSE]
Unhook(e)  == hooked' = [hooked EXCEPT ![e] = 0]
Enable(e)  == enabled' = [enabled EXCEPT ![e] = TRUE]

EditorHearsFinished(e) ==
  /\ Delivered(e, "finished")
  /\ IF own[e] THEN /\ checked' = [checked EXCEPT ![e] = FALSE]
                    /\ Release(e) /\ Unhook(e)
                    /\ UNCHANGED <<enabled, missed>>
               ELSE /\ Enable(e)
                    /\ missed' = [missed EXCEPT ![e] = FALSE]
                    /\ UNCHANGED <<checked, own, hooked>>
  /\ UNCHANGED treeChecked

ScriptThread(t) == \/ ThreadStarts(t) \/ CreateInterpreter(t) \/ ScriptEnds(t)
                   \/ ThreadStops(t) \/ DestroyInterpreter(t)
Deliver ==
  \/ \E s \in {"started", "finished"} : TreeHears(s)
  \/ \E e \in Editors : EditorHearsStarted(e) \/ EditorHearsFinished(e)
Clicks ==
  \/ \E e \in Editors : OpenEditor(e) \/ CloseEditor(e) \/ ClickRun(e) \/ ClickStop(e)
  \/ AnswerAsk \/ ClickTree
RunnerNext == (\E t \in Threads : ScriptThread(t)) \/ Deliver \/ Clicks

(* Threads and the event loop go on; a script need not end by itself, but  *)
(* Python raises KeyboardInterrupt in one that is interrupted.             *)
RunnerSpec     == InitRunner /\ [][RunnerNext]_scriptingVars
FairRunnerSpec ==
  /\ RunnerSpec
  /\ WF_scriptingVars(Deliver)
  /\ \A t \in Threads :
       /\ WF_scriptingVars(ThreadStarts(t) \/ CreateInterpreter(t)
                  \/ ThreadStops(t) \/ DestroyInterpreter(t))
       /\ WF_scriptingVars(interrupt /\ ScriptEnds(t))

-----------------------------------------------------------------------------
(* The editor that believes to have started the script shows Stop: a       *)
(* button that shows Run again has given the script up, in whatever order  *)
(* clicks and signals came.                                                *)
OwnIsChecked == \A e \in Editors : own[e] => checked[e]

(* When a script that runs is stopped, or none is left, every editor that  *)
(* was disabled gets its Run button back, unless it was opened too late to *)
(* hear of the end, or a dialog open all the time has started a script.    *)
Interrupted ==
  interrupt /\ \E t \in Threads : /\ stage[t] = "executing"
                                 /\ \A u \in Threads \ {t} : In(u, {"none", "done"})
EnabledAgain ==
  \A e \in Editors :
    (open[e] /\ (Interrupted \/ AllDone))
      ~> (~open[e] \/ enabled[e] \/ missed[e] \/ aborted)
=============================================================================
