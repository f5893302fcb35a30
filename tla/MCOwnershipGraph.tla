-------------------------- MODULE MCOwnershipGraph --------------------------
(* Small instances of OwnershipGraph for TLC. *)
EXTENDS OwnershipGraph, TLC

\* Targets and variables of a class are interchangeable.
Symmetry == Permutations(Object) \cup Permutations(StrongVar)
=============================================================================
