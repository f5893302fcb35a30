---------------------------- MODULE MCCpuAllocator ----------------------------
(* Small instances of CpuAllocator, and of the DataPtr it extends, for TLC. *)
EXTENDS CpuAllocator, TLC

\* Handles and pieces of memory are interchangeable.
Symmetry == Permutations(Handle) \cup Permutations(Block)
=============================================================================
