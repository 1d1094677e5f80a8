---------------------------- MODULE MCSharedBackend ----------------------------
(* The instances of SharedBackend that TLC checks.                          *)
EXTENDS SharedBackend, TLC

\* Sessions are interchangeable, and so are policies.
Symmetry == Permutations(Session) \cup Permutations(Policy)
=============================================================================
