------------------------------- MODULE Mirror -------------------------------
(***************************************************************************)
(* What a one-signal math channel promises: its own signal follows the     *)
(* source sample by sample, so that none is lost, repeated, reordered or   *)
(* made up.  The source may be cleared by the user; the mirror then keeps  *)
(* its samples, and goes on at the position it has reached when the source *)
(* has grown past it.  SignalPipeline implements this.                     *)
(***************************************************************************)
EXTENDS Naturals, Sequences

CONSTANT Image(_)     (* the value computed for a sample of the source      *)

VARIABLES
  source,   (* the samples of the source signal                            *)
  mirror    (* the samples of the math channel                             *)

mirrorVars == <<source, mirror>>

Init == source = <<>> /\ mirror = <<>>

Grow == /\ Len(source') = Len(source) + 1
        /\ SubSeq(source', 1, Len(source)) = source
        /\ UNCHANGED mirror

Follow == /\ Len(mirror) < Len(source)
          /\ mirror' = Append(mirror, Image(source[Len(mirror) + 1]))
          /\ UNCHANGED source

Clear == source' = <<>> /\ UNCHANGED mirror

Next == Grow \/ Follow \/ Clear

Spec == Init /\ [][Next]_mirrorVars
=============================================================================
