------------------------------- MODULE MCPool -------------------------------
(* Small instances of Pool for TLC. *)
EXTENDS PoolService, TLC

\* Tasks and connections are interchangeable.
Symmetry == Permutations(Tasks) \cup Permutations(Conns)
=============================================================================
