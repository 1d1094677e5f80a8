--------------------------------- MODULE MCMps ---------------------------------
(* Instances of MpsWorker for TLC: two cases of one sweep.                   *)
EXTENDS MpsWorker, TLC

CONSTANTS c1, c2

\* Sound for invariants and for action properties: cases differ by name only.
MCSymmetry == Permutations(Cases)
=============================================================================
