------------------------------- MODULE MCPlots -------------------------------
(* Plots with values on both sides of zero and pairs, which a .cfg cannot  *)
(* write.                                                                  *)
EXTENDS Plots, TLC

MCValues == {-10, 20}
MCShifts == {<<10, 10>>}
MCSymmetry == Permutations(Signals) \cup Permutations(Units) \cup Permutations(MarkerIds)
=============================================================================
