------------------------------ MODULE MCSession ------------------------------
(* Small instances of Session for TLC. *)
EXTENDS Session, TLC

\* Tasks are interchangeable.
Symmetry == Permutations(Tasks)
=============================================================================
