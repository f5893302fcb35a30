----------------------------- MODULE MemoryOrders -----------------------------
(***************************************************************************)
(* The memory orders of include/gradyx/core/intrusive_ptr.h: one target,   *)
(* its control block, and threads that see one another's memory accesses   *)
(* only as far as the C++ memory model says they do.  An access happens    *)
(* before what its own thread does next; a thread that acquires from an    *)
(* atomic comes to see what was released into the value it reads, and      *)
(* read-modify-write operations, relaxed ones too, carry that on.          *)
(*                                                                         *)
(* Read-modify-write operations read the latest value whatever their order *)
(* is, so counts stay exact (IntrusivePtr) and a reference is the last one *)
(* when no other handle has one.  A compare-exchange that fails is retried *)
(* and synchronizes at most as much as one that succeeds.                  *)
(***************************************************************************)
EXTENDS Integers

CONSTANTS
  Thread,
  Creator,     \* the thread that makes the target
  StrongRef,   \* the IntrusivePtr objects
  WeakRef,     \* the WeakIntrusivePtr objects
  First,       \* the IntrusivePtr that make_intrusive returns
  NULL

ASSUME OrdersAssumption ==
  Creator \in Thread /\ First \in StrongRef /\ NULL \notin Thread

\* What is accessed without or besides atomics and is deleted in the end.
Place == {"target", "block"}

Access == Thread \X Place

Atomic == {"strong", "weak", "target"}

VARIABLES
  strong,    \* strong[h]: the thread that has the IntrusivePtr h, if it refers to the target
  weak,      \* weak[w]: the same for the WeakIntrusivePtr w
  base,      \* the target's own reference to its control block is there
  pc,        \* pc[t]: the next step of the member function that t runs
  seen,      \* <<u, p>> \in seen[t]: every access of u to p so far happens before t's next step
  released   \* released[a]: the accesses that acquiring from the latest value of a makes seen

ovars == <<strong, weak, base, pc, seen, released>>

Label == {"idle", "lock_target", "exchange", "destroy", "base", "free"}

OrdersTypeOK ==
  /\ strong \in [StrongRef -> Thread \cup {NULL}]
  /\ weak \in [WeakRef -> Thread \cup {NULL}]
  /\ base \in BOOLEAN
  /\ pc \in [Thread -> Label]
  /\ seen \in [Thread -> SUBSET Access]
  /\ released \in [Atomic -> SUBSET Access]

\* Creator has made the target and its control block; nobody else has done
\* anything that could be missed.  Initializing an atomic releases nothing.
OrdersInit ==
  /\ strong = [h \in StrongRef |-> IF h = First THEN Creator ELSE NULL]
  /\ weak = [w \in WeakRef |-> NULL]
  /\ base = TRUE
  /\ pc = [t \in Thread |-> "idle"]
  /\ seen = [t \in Thread |-> IF t = Creator THEN Access
                               ELSE (Thread \ {Creator}) \X Place]
  /\ released = [a \in Atomic |-> {}]

-----------------------------------------------------------------------------
(* The memory model: t accesses the places P, and then synchronizes. *)

\* Nobody but t has seen the new accesses.
SeenAfter(t, P) ==
  [u \in Thread |-> IF u = t THEN seen[t] \cup ({t} \X P) ELSE seen[u] \ ({t} \X P)]

ReleasedAfter(t, P) == [a \in Atomic |-> released[a] \ ({t} \X P)]

\* memory_order_relaxed: the value carries on what was released into the last.
Relaxed(t, P) == seen' = SeenAfter(t, P) /\ released' = ReleasedAfter(t, P)

\* memory_order_acquire, on the latest value of a
Acquire(t, P, a) ==
  /\ seen' = [SeenAfter(t, P) EXCEPT ![t] = @ \cup ReleasedAfter(t, P)[a]]
  /\ released' = ReleasedAfter(t, P)

\* A load may also read an earlier value, into which less was released.
AcquireLoad(t, P, a) == Acquire(t, P, a) \/ Relaxed(t, P)

\* A read-modify-write with memory_order_acq_rel
AcqRel(t, P, a) ==
  LET all == SeenAfter(t, P)[t] \cup ReleasedAfter(t, P)[a] IN
  /\ seen' = [SeenAfter(t, P) EXCEPT ![t] = all]
  /\ released' = [ReleasedAfter(t, P) EXCEPT ![a] = all]

-----------------------------------------------------------------------------
At(t, label) == pc[t] = label

Goto(t, label) == pc' = [pc EXCEPT ![t] = label]

HasStrong(t) == \E h \in StrongRef : strong[h] = t

HasWeak(t) == \E w \in WeakRef : weak[w] = t

\* t uses the target, in a way that the owners have agreed on among themselves.
Use(t) ==
  /\ At(t, "idle") /\ HasStrong(t)
  /\ Relaxed(t, {"target"})
  /\ UNCHANGED <<strong, weak, base, pc>>

\* The copy constructor: retain_strong_ref(target_->control_)
Copy(t, h) ==
  /\ At(t, "idle") /\ HasStrong(t) /\ strong[h] = NULL
  /\ strong' = [strong EXCEPT ![h] = t]
  /\ Relaxed(t, Place)
  /\ UNCHANGED <<weak, base, pc>>

\* WeakIntrusivePtr{strong}: retain_weak_ref(strong.target_->control_)
Watch(t, w) ==
  /\ At(t, "idle") /\ HasStrong(t) /\ weak[w] = NULL
  /\ weak' = [weak EXCEPT ![w] = t]
  /\ Relaxed(t, Place)
  /\ UNCHANGED <<strong, base, pc>>

WeakCopy(t, w) ==
  /\ At(t, "idle") /\ HasWeak(t) /\ weak[w] = NULL
  /\ weak' = [weak EXCEPT ![w] = t]
  /\ Relaxed(t, {"block"})
  /\ UNCHANGED <<strong, base, pc>>

\* A handle is moved to another thread, by means that synchronize the two.
HandOver(t, u) ==
  /\ At(t, "idle") /\ At(u, "idle") /\ t # u
  /\ \/ \E h \in StrongRef : strong[h] = t /\ strong' = [strong EXCEPT ![h] = u] /\ UNCHANGED weak
     \/ \E w \in WeakRef : weak[w] = t /\ weak' = [weak EXCEPT ![w] = u] /\ UNCHANGED strong
  /\ seen' = [seen EXCEPT ![u] = @ \cup seen[t]]
  /\ UNCHANGED <<base, pc, released>>

\* use_count() and expired()
Ask(t) ==
  /\ At(t, "idle")
  /\ \/ HasStrong(t) /\ AcquireLoad(t, Place, "strong")
     \/ HasWeak(t) /\ AcquireLoad(t, {"block"}, "strong")
  /\ UNCHANGED <<strong, weak, base, pc>>

Unowned == \A h \in StrongRef : strong[h] = NULL

\* lock() finds the count zero.
LockFails(t) ==
  /\ At(t, "idle") /\ HasWeak(t) /\ Unowned
  /\ AcquireLoad(t, {"block"}, "strong")
  /\ UNCHANGED <<strong, weak, base, pc>>

\* Varied: the compare-exchange of try_retain_strong_ref is relaxed as well.
Lock_Relaxed(t, h) ==
  /\ At(t, "idle") /\ HasWeak(t) /\ ~Unowned /\ strong[h] = NULL
  /\ strong' = [strong EXCEPT ![h] = t]
  /\ Relaxed(t, {"block"})
  /\ Goto(t, "lock_target")
  /\ UNCHANGED <<weak, base>>

\* lock(): the compare-exchange of try_retain_strong_ref succeeds.
Lock(t, h) ==
  /\ At(t, "idle") /\ HasWeak(t) /\ ~Unowned /\ strong[h] = NULL
  /\ strong' = [strong EXCEPT ![h] = t]
  /\ AcqRel(t, {"block"}, "strong")
  /\ Goto(t, "lock_target")
  /\ UNCHANGED <<weak, base>>

LockTarget(t) ==
  /\ At(t, "lock_target")
  /\ AcquireLoad(t, {"block"}, "target")
  /\ Goto(t, "idle")
  /\ UNCHANGED <<strong, weak, base>>

\* Varied: the decrement only releases.
ReleaseStrong_NoAcquire(t, h) ==
  /\ At(t, "idle") /\ strong[h] = t
  /\ strong' = [strong EXCEPT ![h] = NULL]
  /\ seen' = SeenAfter(t, Place)
  /\ released' = [ReleasedAfter(t, Place) EXCEPT !["strong"] = @ \cup SeenAfter(t, Place)[t]]
  /\ Goto(t, IF \A g \in StrongRef \ {h} : strong[g] = NULL THEN "exchange" ELSE "idle")
  /\ UNCHANGED <<weak, base>>

\* release_strong_ref(target->control_): fetch_sub
ReleaseStrong(t, h) ==
  /\ At(t, "idle") /\ strong[h] = t
  /\ strong' = [strong EXCEPT ![h] = NULL]
  /\ AcqRel(t, Place, "strong")
  /\ Goto(t, IF \A g \in StrongRef \ {h} : strong[g] = NULL THEN "exchange" ELSE "idle")
  /\ UNCHANGED <<weak, base>>

ExchangeTarget(t) ==
  /\ At(t, "exchange")
  /\ AcqRel(t, {"block"}, "target")
  /\ Goto(t, "destroy")
  /\ UNCHANGED <<strong, weak, base>>

\* delete target
Destroy(t) ==
  /\ At(t, "destroy")
  /\ Relaxed(t, {"target"})
  /\ Goto(t, "base")
  /\ UNCHANGED <<strong, weak, base>>

\* ~IntrusivePtrTarget: release_weak_ref(control_)
ReleaseBase(t) ==
  /\ At(t, "base")
  /\ base' = FALSE
  /\ AcqRel(t, Place, "weak")
  /\ Goto(t, IF \A w \in WeakRef : weak[w] = NULL THEN "free" ELSE "idle")
  /\ UNCHANGED <<strong, weak>>

\* Varied: weak references are given up with a relaxed decrement.
ReleaseWeak_Relaxed(t, w) ==
  /\ At(t, "idle") /\ weak[w] = t
  /\ weak' = [weak EXCEPT ![w] = NULL]
  /\ Relaxed(t, {"block"})
  /\ Goto(t, IF ~base /\ \A v \in WeakRef \ {w} : weak[v] = NULL THEN "free" ELSE "idle")
  /\ UNCHANGED <<strong, base>>

\* WeakIntrusivePtr::reset
ReleaseWeak(t, w) ==
  /\ At(t, "idle") /\ weak[w] = t
  /\ weak' = [weak EXCEPT ![w] = NULL]
  /\ AcqRel(t, {"block"}, "weak")
  /\ Goto(t, IF ~base /\ \A v \in WeakRef \ {w} : weak[v] = NULL THEN "free" ELSE "idle")
  /\ UNCHANGED <<strong, base>>

\* delete control
Free(t) ==
  /\ At(t, "free")
  /\ Relaxed(t, {"block"})
  /\ Goto(t, "idle")
  /\ UNCHANGED <<strong, weak, base>>

OrdersNext ==
  \E t \in Thread :
    \/ Use(t) \/ Ask(t) \/ LockFails(t) \/ LockTarget(t)
    \/ ExchangeTarget(t) \/ Destroy(t) \/ ReleaseBase(t) \/ Free(t)
    \/ \E u \in Thread : HandOver(t, u)
    \/ \E h \in StrongRef : Copy(t, h) \/ Lock(t, h) \/ ReleaseStrong(t, h)
    \/ \E w \in WeakRef : Watch(t, w) \/ WeakCopy(t, w) \/ ReleaseWeak(t, w)

OrdersSpec == OrdersInit /\ [][OrdersNext]_ovars

-----------------------------------------------------------------------------
\* A target is destroyed when nobody refers to it, and every use that any thread
\* ever made of it happens before: increments may be relaxed, decrements not.
DestroyedAfterUse ==
  \A t \in Thread : At(t, "destroy") => Unowned /\ Thread \X {"target"} \subseteq seen[t]

\* The same for the control block: no access to one of its atomics, not even by a
\* thread that asked a weak handle in vain, races with its deletion.
FreedAfterUse ==
  \A t \in Thread : At(t, "free") =>
    /\ Unowned /\ \A w \in WeakRef : weak[w] = NULL
    /\ Thread \X {"block"} \subseteq seen[t]

\* Whoever gets a reference from lock() sees by then all that was done to the target
\* by owners that have given theirs up; the rest has been seen by those who still own it.
LockTakesOver ==
  [][\A t \in Thread :
       At(t, "idle") /\ At(t, "lock_target")' =>
         Thread \X {"target"} \subseteq
           seen'[t] \cup UNION {seen[strong[h]] : h \in {g \in StrongRef : strong[g] # NULL}}]_ovars
=============================================================================
