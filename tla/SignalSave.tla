----------------------------- MODULE SignalSave -----------------------------
(***************************************************************************)
(* The dialog that saves signals to a CSV file: each signal with time      *)
(* stamps of its own, or all of them with one time stamp for a line.       *)
(***************************************************************************)
EXTENDS SignalSource

CONSTANT TimeFrames   (* combination time frames, in milliseconds          *)

ASSUME SaveConstantsOK == TimeFrames \subseteq Nat /\ IsFiniteSet(Signals)

VARIABLES
  file,         (* the lines: [t, cells], per checked signal the sample in *)
                (* it, as a sequence of none or one                        *)
  dialog        (* "open", "saved", or "saving" for ever                   *)

saveVars == <<file, dialog>>

InitSignalSave == file = <<>> /\ dialog = "open"

-----------------------------------------------------------------------------
(* get_sample() of a position that is not there.                           *)
NoSample == [t |-> 0, v |-> 0]
Sample(s, pos) == IF pos < Count(s) THEN samples[s][pos + 1] ELSE NoSample

(* Mutant: the check is against the count of the longest signal.           *)
MoreAtAll(s, pos) == pos < Max({Count(o) : o \in Signals})
(* index < sample_count - 1: the last sample of a signal is left out, and  *)
(* an empty signal, whose count is unsigned, has always more.              *)
More(s, pos) == Count(s) = 0 \/ pos < Count(s) - 1

(* save(): one line for an index, each sample with its own time.           *)
Line(checked, pos) ==
  [t |-> 0, cells |-> [s \in checked |-> IF More(s, pos) THEN <<Sample(s, pos)>> ELSE <<>>]]
Save(checked) ==
  file' = [k \in 1 .. Max({Count(s) : s \in checked}) |-> Line(checked, k - 1)]

-----------------------------------------------------------------------------
(* The time frame must be smaller than the distance of any two samples.    *)
Distances(s) == {samples[s][k].t - samples[s][k - 1].t : k \in 2 .. Count(s)}
ValidateCombinedTimeframe(checked, frame) ==
  frame = 0 \/ \A s \in checked : \A d \in Distances(s) : d >= frame

(* A signal that is at its end is passed over without counting the index,  *)
(* so that no signal behind it is asked for its time.                      *)
InOrder(checked) == SetToSeq(checked)
Asked(checked, pos) ==
  LET order == InOrder(checked)
      ended == {i \in DOMAIN order : ~More(order[i], pos[order[i]])}
  IN  {order[i] : i \in 1 .. (IF ended = {} THEN Len(order) ELSE Min(ended) - 1)}

(* One turn of save_combined(): a line with the next time stamp and every  *)
(* sample that is not older by more than the time frame, however much      *)
(* later it is.                                                            *)
WriteLine(checked, frame, state) ==
  LET asked == Asked(checked, state.pos)
      t     == Min({Sample(s, state.pos[s]).t : s \in asked})
      taken == {s \in checked : Sample(s, state.pos[s]).t + frame >= t}
  IN  IF asked = {} THEN state
      ELSE [pos |-> [s \in checked |-> IF s \in taken THEN state.pos[s] + 1 ELSE state.pos[s]],
            lines |-> Append(state.lines,
              [t |-> t, cells |-> [s \in checked |->
                IF s \in taken THEN <<Sample(s, state.pos[s])>> ELSE <<>>]])]

(* Every turn but the last writes a sample of the signal that comes first. *)
SaveCombined(checked, frame) ==
  LET turns[n \in Nat] ==
        IF n = 0 THEN [pos |-> [s \in checked |-> 0], lines |-> <<>>]
        ELSE WriteLine(checked, frame, turns[n - 1])
  IN  file' = turns[pushed + 1].lines

(* With an empty signal that is asked first there is always a next time.   *)
Endless(checked) == Count(InOrder(checked)[1]) = 0

(* accept(); the dialog stays when the time frame is refused.              *)
AcceptSeparate(checked) ==
  /\ Save(checked) /\ dialog' = "saved"
AcceptCombined(checked, frame) ==
  /\ ValidateCombinedTimeframe(checked, frame)
  /\ IF Endless(checked) THEN dialog' = "saving" /\ UNCHANGED file
                         ELSE dialog' = "saved" /\ SaveCombined(checked, frame)

Accept(checked) ==
  /\ dialog = "open" /\ checked # {}
  /\ \/ AcceptSeparate(checked)
     \/ \E frame \in TimeFrames : AcceptCombined(checked, frame)
  /\ UNCHANGED sourceVars

SignalSaveNext == \E checked \in SUBSET Signals : Accept(checked)

-----------------------------------------------------------------------------
Saved(s)    == FlattenSeq([k \in DOMAIN file |-> file[k].cells[s]])
InFile      == IF file = <<>> THEN {} ELSE DOMAIN file[1].cells

(* What a file holds of a signal is the beginning of the signal: combined  *)
(* or not, and however the signals lie in time, no sample is skipped or    *)
(* written twice; and unless a packet came with an older time than its     *)
(* signal had, the lines are in order of time.  (The last sample may be    *)
(* missing; a signal without samples has zeros, and if there is one,       *)
(* others may have zeros behind all of their samples.  Which samples share *)
(* a line is not said here: a line may have later ones than the manual's   *)
(* tables of a time frame.)                                                *)
SavedInOrder ==
  dialog = "saved" =>
    /\ \A s \in InFile : Count(s) > 0 =>
         \/ IsPrefix(Saved(s), samples[s])
         \/ IsPrefix(samples[s], Saved(s)) /\ \E o \in InFile : Count(o) = 0
    /\ InFile \cap backward = {} =>
         \A k \in 2 .. Len(file) : file[k - 1].t <= file[k].t
=============================================================================
