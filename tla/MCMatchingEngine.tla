-------------------------- MODULE MCMatchingEngine --------------------------
(* Model checking of MatchingEngine: symmetry. *)
EXTENDS MatchingEngine, TLC

(* Sessions, client ids and symbols are interchangeable. *)
Symmetry == Permutations(Sessions) \cup Permutations(ClientIds) \cup Permutations(Symbols)
=============================================================================
