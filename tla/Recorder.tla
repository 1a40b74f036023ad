------------------------------ MODULE Recorder ------------------------------
(***************************************************************************)
(* What a device promises to the channels it feeds, without threads,       *)
(* sigrok sessions or callbacks: samples are recorded while the device is  *)
(* open, nothing is recorded while it is closed, and what was recorded is  *)
(* never changed.  Acquisition implements this.                            *)
(***************************************************************************)
EXTENDS Naturals, Sequences

VARIABLES
  open,   (* TRUE from the moment samples may arrive until none can        *)
  log     (* everything recorded so far, in order                          *)

recorderVars == <<open, log>>

Init == /\ open = FALSE
        /\ log = <<>>

Open == /\ ~open
        /\ open' = TRUE
        /\ UNCHANGED log

Record == /\ open
          /\ Len(log') = Len(log) + 1
          /\ SubSeq(log', 1, Len(log)) = log
          /\ UNCHANGED open

Close == /\ open
         /\ open' = FALSE
         /\ UNCHANGED log

Next == Open \/ Record \/ Close

Spec == Init /\ [][Next]_recorderVars
=============================================================================
