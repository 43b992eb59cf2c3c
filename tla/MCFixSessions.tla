--------------------------- MODULE MCFixSessions ----------------------------
(***************************************************************************)
(* FixSessions for model checking. Clients are interchangeable: nothing    *)
(* compares or orders comp ids. The symmetry is used for invariants only.  *)
(***************************************************************************)
EXTENDS FixSessions, TLC

ClientSymmetry == Permutations(Clients)
=============================================================================
