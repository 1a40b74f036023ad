--------------------------- MODULE SequenceOutput ---------------------------
(***************************************************************************)
(* The sequence output view: a table of values and delays that a timer of  *)
(* the GUI thread plays to a property of a device, while the user edits    *)
(* the table.  Every handler runs to its end in the event loop, so every   *)
(* action is atomic; what makes it hard is the order of the handlers: rows *)
(* are inserted, edited and deleted under a running sequence.              *)
(*                                                                         *)
(* The delay of a row is abstracted to whether it is positive; the time    *)
(* between two timeouts, the file dialog and the waveform dialog are left  *)
(* out.                                                                    *)
(***************************************************************************)
EXTENDS Integers, Sequences, SequencesExt, FiniteSetsExt

CONSTANTS
  Outputs,      (* the values of the property                              *)
  Counts,       (* the values of the repeat count box                      *)
  MaxRows,      (* bound: rows of the table                                *)
  MaxEdits      (* bound: edits of the table and boxes in one behaviour    *)

ASSUME SequenceConstantsOK ==
  /\ Counts \subseteq Nat \ {0} /\ Counts # {}
  /\ MaxRows \in Nat /\ MaxEdits \in Nat

VARIABLES
  property,     (* a property_ is assigned                                 *)
  rows,         (* sequence_table_                                         *)
  infinite,     (* repeat_infinite_box_ is checked                         *)
  repeats,      (* repeat_count_box_                                       *)
  edits,        (* edits so far                                            *)
  active,       (* timer_ is active                                        *)
  connections,  (* connections of its timeout to on_timer_update()         *)
  checked,      (* action_run_ is checked                                  *)
  pos,          (* sequence_pos_                                           *)
  cycles,       (* sequence_reperat_count_                                 *)
  hung,         (* on_timer_update() is in a loop that never ends          *)
  fault,        (* "no", or what was dereferenced                          *)
  run,          (* history: "exact" for a finite run nobody edited, "done" *)
                (* when it stopped by itself, else "other"                 *)
  played        (* history: the values played by that run                  *)

tableVars == <<property, rows, infinite, repeats, edits>>
timerVars == <<active, connections, checked, pos, cycles>>
histVars  == <<run, played>>
sequenceVars == <<tableVars, timerVars, hung, fault, histVars>>

Row == [v : Outputs, timed : BOOLEAN]

InitSequence ==
  /\ property \in BOOLEAN /\ rows = <<>>
  /\ infinite = TRUE /\ repeats = 1 /\ edits = 0
  /\ active = FALSE /\ connections = 0 /\ checked = FALSE
  /\ pos = 0 /\ cycles = 0
  /\ hung = FALSE /\ fault = "no"
  /\ run = "other" /\ played = <<>>

-----------------------------------------------------------------------------
(* Plausible bugs, put in the place of the definitions they are named      *)
(* after.                                                                  *)
CycleNotCounted      == cycles
AdvanceSkips(p)      == pos' = p + 1
DisconnectForgotten  == UNCHANGED connections

-----------------------------------------------------------------------------
Running == ~hung /\ fault = "no"

Disconnect == connections' = 0
Reset      == pos' = 0 /\ cycles' = 0

(* stop_timer()                                                            *)
StopTimer ==
  /\ checked' = FALSE
  /\ IF active THEN active' = FALSE /\ Disconnect /\ Reset
               ELSE UNCHANGED <<active, connections, pos, cycles>>

(* start_timer(), of a timer that is not active.  With an empty table it   *)
(* returns with the button still checked.                                  *)
StartTimer ==
  /\ Reset
  /\ checked' = TRUE
  /\ IF rows = <<>> THEN UNCHANGED <<active, connections>>
                    ELSE active' = TRUE /\ connections' = connections + 1

ClickRun ==
  /\ Running
  /\ IF checked THEN StopTimer ELSE StartTimer
  /\ run' = IF ~checked /\ rows # <<>> /\ ~infinite THEN "exact" ELSE "other"
  /\ played' = <<>>
  /\ UNCHANGED <<tableVars, hung, fault>>

SetProperty ==
  /\ Running /\ edits < MaxEdits
  /\ property' = TRUE
  /\ StopTimer
  /\ edits' = edits + 1
  /\ run' = "other" /\ played' = <<>>
  /\ UNCHANGED <<rows, infinite, repeats, hung, fault>>

-----------------------------------------------------------------------------
(* The user edits the table or the boxes.                                  *)
Edit ==
  /\ Running /\ edits < MaxEdits
  /\ edits' = edits + 1
  /\ run' = "other" /\ played' = <<>>
  /\ UNCHANGED <<property, timerVars, hung>>

(* insert_row(): a view without a property warns, inserts the value, and   *)
(* then asks the null property for its decimal places.                     *)
InsertRows(at, new) ==
  /\ Len(rows) + Len(new) <= MaxRows
  /\ rows' = SubSeq(rows, 1, at) \o new \o SubSeq(rows, at + 1, Len(rows))
  /\ fault' = IF property THEN "no" ELSE "nullProperty"
  /\ UNCHANGED <<infinite, repeats>>

AddRow ==
  /\ Edit
  /\ \E at \in 0..Len(rows), v \in Outputs :
       InsertRows(at, <<[v |-> v, timed |-> FALSE]>>)

(* A file or a waveform puts its rows above those of the table.            *)
LoadRows ==
  /\ Edit
  /\ \E n \in 1..MaxRows : \E new \in [1..n -> Row] : InsertRows(0, new)

EditCell ==
  /\ Edit
  /\ \E p \in DOMAIN rows, r \in Row : rows' = [rows EXCEPT ![p] = r]
  /\ UNCHANGED <<infinite, repeats, fault>>

DeleteCell ==
  /\ Edit
  /\ \E p \in DOMAIN rows : rows' = RemoveAt(rows, p)
  /\ UNCHANGED <<infinite, repeats, fault>>

(* on_action_delete_row() with the whole row selected, as on_timer_update()*)
(* selects it: removing the row frees both its items, and the row of the   *)
(* second one is asked for all the same.  That may do nothing, remove some *)
(* other row, or end the program.                                          *)
DeleteSelectedRow ==
  /\ Edit
  /\ \E p \in DOMAIN rows : \E rest \in {RemoveAt(rows, p)} :
       rows' \in {rest} \cup {RemoveAt(rest, q) : q \in DOMAIN rest}
  /\ fault' \in {"no", "freedItem"}
  /\ UNCHANGED <<infinite, repeats>>

DeleteAll ==
  /\ Edit /\ rows # <<>>
  /\ rows' = <<>>
  /\ UNCHANGED <<infinite, repeats, fault>>

ChangeRepeat ==
  /\ Edit
  /\ infinite' \in BOOLEAN /\ repeats' \in Counts
  /\ UNCHANGED <<rows, fault>>

-----------------------------------------------------------------------------
(* on_timer_update()                                                       *)

(* The rows with a delay, from the one after p on.                         *)
TimedAfter(p) == {q \in (p + 1)..Len(rows) : rows[q].timed}

Advance(p) == pos' = p
CountCycle == cycles + 1
LastCycle  == CountCycle >= repeats

(* Bound: the history keeps one value more than any run should play.       *)
MaxPlayed == Len(rows) * repeats

(* change_value() with the value of row p.                                 *)
Play(p) ==
  /\ Advance(p)
  /\ played' = IF run = "exact" /\ Len(played) <= MaxPlayed
                 THEN Append(played, rows[p].v) ELSE played
  /\ UNCHANGED <<active, connections, checked, hung, run>>

Finish ==
  /\ StopTimer
  /\ run' = IF run = "exact" THEN "done" ELSE run
  /\ UNCHANGED <<hung, played>>

TimerUpdate ==
  /\ Running /\ active
  /\ UNCHANGED <<tableVars, fault>>

NothingToPlay ==
  /\ TimerUpdate
  /\ ~property \/ rows = <<>> \/ (pos = 0 /\ TimedAfter(0) = {})
  /\ Finish

NextRow ==
  /\ TimerUpdate
  /\ property /\ TimedAfter(pos) # {}
  /\ Play(Min(TimedAfter(pos)))
  /\ UNCHANGED cycles

(* The end of the table: the next cycle, if there is one.                  *)
EndOfTable == TimerUpdate /\ property /\ rows # <<>> /\ pos > 0 /\ TimedAfter(pos) = {}

NextCycle ==
  /\ EndOfTable /\ TimedAfter(0) # {}
  /\ infinite \/ ~LastCycle
  /\ Play(Min(TimedAfter(0)))
  /\ cycles' = IF infinite THEN cycles ELSE CountCycle

(* Without a timed row the loop counts the remaining cycles at once.       *)
LastCycleEnds ==
  /\ EndOfTable /\ ~infinite
  /\ LastCycle \/ TimedAfter(0) = {}
  /\ Finish

(* ... and never ends when there is no last cycle.                         *)
LoopForever ==
  /\ EndOfTable /\ infinite /\ TimedAfter(0) = {}
  /\ hung' = TRUE
  /\ UNCHANGED <<timerVars, histVars>>

Timeout == \/ NothingToPlay \/ NextRow \/ NextCycle \/ LastCycleEnds \/ LoopForever
User == \/ ClickRun \/ SetProperty \/ AddRow \/ LoadRows \/ EditCell \/ DeleteCell
        \/ DeleteSelectedRow \/ DeleteAll \/ ChangeRepeat
SequenceNext == User \/ Timeout

(* The timer of an event loop fires.                                       *)
SequenceSpec     == InitSequence /\ [][SequenceNext]_sequenceVars
FairSequenceSpec == SequenceSpec /\ WF_sequenceVars(Timeout)

-----------------------------------------------------------------------------
(* The values of the rows that have a delay, among the first k of a table. *)
Timed(table) ==
  LET timed[k \in 0..Len(table)] ==
        IF k = 0 THEN <<>>
        ELSE IF table[k].timed THEN Append(timed[k - 1], table[k].v) ELSE timed[k - 1]
  IN timed

Expected ==
  LET w == Timed(rows)[Len(rows)]
  IN [k \in 1..(Len(w) * repeats) |-> w[((k - 1) % Len(w)) + 1]]

(* A run nobody edits plays the rows that have a delay, in order, as often *)
(* as the repeat count says; when it stops by itself it has played them    *)
(* all.  However often it is started, stopped or given another property,   *)
(* the timer is connected once: a timeout never plays two rows.            *)
PlaysExactly ==
  /\ connections <= 1
  /\ run = "exact" => IsPrefix(played, Expected)
  /\ run = "done"  => played = Expected

(* A finite sequence ends, whatever the user does to it.                   *)
FiniteRunEnds == (active /\ ~infinite) ~> (~active \/ infinite \/ fault # "no")
=============================================================================
