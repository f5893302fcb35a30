--------------------------- MODULE MCIntrusivePtr ---------------------------
(* Small instances of IntrusivePtr for TLC. *)
EXTENDS IntrusivePtrInv, TLC

\* Threads, targets and handles of a class are interchangeable.
Symmetry ==
  Permutations(Thread) \cup Permutations(Object)
    \cup Permutations(StrongHandle) \cup Permutations(WeakHandle)
=============================================================================
