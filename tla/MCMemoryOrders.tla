--------------------------- MODULE MCMemoryOrders ---------------------------
(* Small instances of MemoryOrders for TLC. *)
EXTENDS MemoryOrders, TLC

\* The thread and the handle that come first are told apart from the others.
Symmetry ==
  Permutations(Thread \ {Creator}) \cup Permutations(StrongRef \ {First})
    \cup Permutations(WeakRef)
=============================================================================
