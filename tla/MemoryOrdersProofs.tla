-------------------------- MODULE MemoryOrdersProofs --------------------------
(***************************************************************************)
(* Proofs about MemoryOrders, for any number of threads and handles.  The  *)
(* invariant says where the accesses are known that a deletion has to be   *)
(* ordered after: who gives up a reference passes on what it has seen, to  *)
(* the count if others are left, and the last one finds everything there.  *)
(***************************************************************************)
EXTENDS MemoryOrders, TLAPS

Owned == \E h \in StrongRef : strong[h] # NULL

Watched == \E w \in WeakRef : weak[w] # NULL

\* The labels of a thread that has released the last strong reference, while the
\* target's own reference to its control block is still there.
Ending == {"exchange", "destroy", "base"}

\* The last strong reference, when it is given up, makes this access seen.
KnownToOwners(a) ==
  \/ a \in released["strong"]
  \/ \E h \in StrongRef : strong[h] # NULL /\ a \in seen[strong[h]]

\* The same for the last reference to the control block.
KnownToHolders(a) ==
  \/ a \in released["weak"]
  \/ \E w \in WeakRef : weak[w] # NULL /\ a \in seen[weak[w]]
  \/ Owned /\ KnownToOwners(a)
  \/ \E t \in Thread : pc[t] \in Ending /\ a \in seen[t]

ControlInv ==
  /\ \A t \in Thread : At(t, "lock_target") => HasStrong(t)
  /\ \A t \in Thread : pc[t] \in Ending => ~Owned /\ base
  /\ \A t \in Thread : At(t, "free") => ~Owned /\ ~base /\ ~Watched
  /\ \A t, u \in Thread : pc[t] \in Ending \cup {"free"} /\ pc[u] \in Ending \cup {"free"} => t = u
  /\ ~base => ~Owned

TargetInv ==
  /\ Owned => \A u \in Thread : KnownToOwners(<<u, "target">>)
  /\ \A t, u \in Thread : pc[t] \in {"exchange", "destroy"} => <<u, "target">> \in seen[t]

BlockInv ==
  /\ base \/ Watched => \A u \in Thread : KnownToHolders(<<u, "block">>)
  /\ \A t, u \in Thread : At(t, "free") => <<u, "block">> \in seen[t]

OrdersInv == OrdersTypeOK /\ ControlInv /\ TargetInv /\ BlockInv

-----------------------------------------------------------------------------
(* What the operations of the memory model keep. *)

\* Accesses that were seen or released stay so, but for the new ones of t to P,
\* which t sees.
Keeps(t, P) ==
  /\ seen' \in [Thread -> SUBSET Access]
  /\ released' \in [Atomic -> SUBSET Access]
  /\ \A v, u \in Thread, p \in Place :
       <<u, p>> \in seen[v] /\ ~(u = t /\ p \in P) => <<u, p>> \in seen'[v]
  /\ \A x \in Atomic, u \in Thread, p \in Place :
       <<u, p>> \in released[x] /\ ~(u = t /\ p \in P) => <<u, p>> \in released'[x]
  /\ \A p \in P : <<t, p>> \in seen'[t]

\* New accesses of t to P are seen by t alone, and nothing else is forgotten.
LEMMA AccessEffect ==
  ASSUME OrdersTypeOK, NEW t \in Thread, NEW P \in SUBSET Place
  PROVE  /\ SeenAfter(t, P) \in [Thread -> SUBSET Access]
         /\ ReleasedAfter(t, P) \in [Atomic -> SUBSET Access]
         /\ \A v, u \in Thread, p \in Place :
              <<u, p>> \in seen[v] /\ ~(u = t /\ p \in P) => <<u, p>> \in SeenAfter(t, P)[v]
         /\ \A x \in Atomic, u \in Thread, p \in Place :
              <<u, p>> \in released[x] /\ ~(u = t /\ p \in P) => <<u, p>> \in ReleasedAfter(t, P)[x]
         /\ \A p \in P : <<t, p>> \in SeenAfter(t, P)[t]
BY DEF OrdersTypeOK, SeenAfter, ReleasedAfter, Access

\* A relaxed operation keeps what was seen and released.
LEMMA RelaxedKeeps ==
  ASSUME OrdersTypeOK, NEW t \in Thread, NEW P \in SUBSET Place, Relaxed(t, P)
  PROVE  Keeps(t, P)
BY AccessEffect DEF Relaxed, Keeps

\* An acquiring load keeps it as well, whichever value it reads.
LEMMA AcquireLoadKeeps ==
  ASSUME OrdersTypeOK, NEW t \in Thread, NEW P \in SUBSET Place, NEW a \in Atomic,
         AcquireLoad(t, P, a)
  PROVE  Keeps(t, P)
<1>1. CASE Relaxed(t, P)
  BY <1>1, RelaxedKeeps
<1>2. CASE Acquire(t, P, a)
  <2>1. \A v \in Thread : SeenAfter(t, P)[v] \subseteq seen'[v]
    BY <1>2, AccessEffect DEF Acquire
  <2>2. seen' \in [Thread -> SUBSET Access] /\ released' = ReleasedAfter(t, P)
    BY <1>2, AccessEffect DEF Acquire
  <2> QED  BY <2>1, <2>2, AccessEffect DEF Keeps
<1> QED  BY <1>1, <1>2 DEF AcquireLoad

\* A read-modify-write also passes on all that its thread has seen, and shows it
\* all that was passed on before.
LEMMA AcqRelKeeps ==
  ASSUME OrdersTypeOK, NEW t \in Thread, NEW P \in SUBSET Place, NEW a \in Atomic,
         AcqRel(t, P, a)
  PROVE  /\ Keeps(t, P)
         /\ released'[a] = seen'[t]
<1>1. \A v \in Thread : SeenAfter(t, P)[v] \subseteq seen'[v]
  BY AccessEffect DEF AcqRel
<1>2. \A x \in Atomic : ReleasedAfter(t, P)[x] \subseteq released'[x]
  BY AccessEffect DEF AcqRel
<1>3. seen' \in [Thread -> SUBSET Access] /\ released' \in [Atomic -> SUBSET Access]
  BY AccessEffect DEF AcqRel
<1>4. released'[a] = seen'[t]
  BY AccessEffect DEF AcqRel
<1> QED  BY <1>1, <1>2, <1>3, <1>4, AccessEffect DEF Keeps

\* Handing a handle over only adds to what the new thread has seen.
LEMMA HandOverKeeps ==
  ASSUME OrdersTypeOK, NEW t \in Thread, NEW u \in Thread, HandOver(t, u)
  PROVE  Keeps(t, {}) /\ seen[t] \subseteq seen'[u]
BY DEF OrdersTypeOK, HandOver, Keeps

-----------------------------------------------------------------------------
(* Steps that take no reference away. *)

\* No strong handle goes without another one whose thread has seen as much.
OwnersStay ==
  \A h \in StrongRef : strong[h] # NULL =>
    \E g \in StrongRef :
      strong'[g] # NULL /\ (strong'[g] = strong[h] \/ seen[strong[h]] \subseteq seen'[strong'[g]])

WatchersStay ==
  \A w \in WeakRef : weak[w] # NULL =>
    \E v \in WeakRef :
      weak'[v] # NULL /\ (weak'[v] = weak[w] \/ seen[weak[w]] \subseteq seen'[weak'[v]])

\* What the owners know they still know, the new accesses of t aside.
LEMMA OwnersKnow ==
  ASSUME OrdersTypeOK, OrdersTypeOK', OwnersStay,
         NEW t \in Thread, NEW P \in SUBSET Place, Keeps(t, P),
         NEW u \in Thread, NEW p \in Place, ~(u = t /\ p \in P), KnownToOwners(<<u, p>>)
  PROVE  KnownToOwners(<<u, p>>)'
<1>1. CASE <<u, p>> \in released["strong"]
  BY <1>1 DEF Keeps, KnownToOwners, Atomic
<1>2. ASSUME NEW h \in StrongRef, strong[h] # NULL, <<u, p>> \in seen[strong[h]]
      PROVE  KnownToOwners(<<u, p>>)'
  <2>1. PICK g \in StrongRef :
          strong'[g] # NULL /\ (strong'[g] = strong[h] \/ seen[strong[h]] \subseteq seen'[strong'[g]])
    BY <1>2 DEF OwnersStay
  <2>2. strong[h] \in Thread
    BY <1>2 DEF OrdersTypeOK
  <2>3. <<u, p>> \in seen'[strong'[g]]
    BY <1>2, <2>1, <2>2 DEF Keeps
  <2> QED  BY <2>1, <2>3 DEF KnownToOwners
<1> QED  BY <1>1, <1>2 DEF KnownToOwners

\* Uses of the target remain known to the owners.
LEMMA TargetKept ==
  ASSUME OrdersTypeOK, OrdersTypeOK', OwnersStay,
         NEW t \in Thread, NEW P \in SUBSET Place, Keeps(t, P),
         Owned' => Owned, "target" \in P /\ Owned => HasStrong(t)',
         Owned => \A u \in Thread : KnownToOwners(<<u, "target">>)
  PROVE  (Owned => \A u \in Thread : KnownToOwners(<<u, "target">>))'
<1> SUFFICES ASSUME Owned', NEW u \in Thread
             PROVE  KnownToOwners(<<u, "target">>)'
  OBVIOUS
<1>1. CASE u = t /\ "target" \in P
  <2>1. PICK h \in StrongRef : strong'[h] = t
    BY <1>1 DEF HasStrong
  <2>2. <<u, "target">> \in seen'[t]
    BY <1>1 DEF Keeps
  <2> QED  BY <2>1, <2>2, OrdersAssumption DEF KnownToOwners
<1>2. CASE ~(u = t /\ "target" \in P)
  BY <1>2, OwnersKnow DEF Place
<1> QED  BY <1>1, <1>2

\* Accesses to the control block remain known to those who hold it.
LEMMA BlockKept ==
  ASSUME OrdersTypeOK, OrdersTypeOK', OwnersStay, WatchersStay, Owned => Owned',
         NEW t \in Thread, NEW P \in SUBSET Place, Keeps(t, P),
         \A v \in Thread : pc[v] \in Ending => pc'[v] \in Ending,
         (base \/ Watched)' => base \/ Watched,
         "block" \in P => HasStrong(t)' \/ HasWeak(t)' \/ pc'[t] \in Ending,
         base \/ Watched => \A u \in Thread : KnownToHolders(<<u, "block">>)
  PROVE  (base \/ Watched => \A u \in Thread : KnownToHolders(<<u, "block">>))'
<1> SUFFICES ASSUME (base \/ Watched)', NEW u \in Thread
             PROVE  KnownToHolders(<<u, "block">>)'
  OBVIOUS
<1> DEFINE a == <<u, "block">>
<1>0. KnownToHolders(a) /\ "block" \in Place /\ "weak" \in Atomic
  BY DEF Place, Atomic
<1>1. CASE u = t /\ "block" \in P
  <2>1. a \in seen'[t]
    BY <1>1 DEF Keeps
  <2>2. CASE HasStrong(t)'
    <3>1. PICK h \in StrongRef : strong'[h] = t /\ strong'[h] # NULL
      BY <2>2, OrdersAssumption DEF HasStrong
    <3> QED  BY <2>1, <3>1 DEF KnownToHolders, KnownToOwners, Owned
  <2>3. CASE HasWeak(t)'
    <3>1. PICK w \in WeakRef : weak'[w] = t /\ weak'[w] # NULL
      BY <2>3, OrdersAssumption DEF HasWeak
    <3> QED  BY <2>1, <3>1 DEF KnownToHolders
  <2>4. CASE pc'[t] \in Ending
    BY <2>1, <2>4 DEF KnownToHolders
  <2> QED  BY <1>1, <2>2, <2>3, <2>4
<1>2. CASE ~(u = t /\ "block" \in P)
  <2>1. CASE a \in released["weak"]
    BY <1>0, <1>2, <2>1 DEF Keeps, KnownToHolders
  <2>2. ASSUME NEW w \in WeakRef, weak[w] # NULL, a \in seen[weak[w]]
        PROVE  KnownToHolders(a)'
    <3>1. PICK v \in WeakRef :
            weak'[v] # NULL /\ (weak'[v] = weak[w] \/ seen[weak[w]] \subseteq seen'[weak'[v]])
      BY <2>2 DEF WatchersStay
    <3>2. weak[w] \in Thread
      BY <2>2 DEF OrdersTypeOK
    <3>3. a \in seen'[weak'[v]]
      BY <1>0, <1>2, <2>2, <3>1, <3>2 DEF Keeps
    <3> QED  BY <3>1, <3>3 DEF KnownToHolders
  <2>3. CASE Owned /\ KnownToOwners(a)
    <3>1. KnownToOwners(a)'
      BY <1>0, <1>2, <2>3, OwnersKnow
    <3> QED  BY <2>3, <3>1 DEF KnownToHolders
  <2>4. ASSUME NEW v \in Thread, pc[v] \in Ending, a \in seen[v]
        PROVE  KnownToHolders(a)'
    <3>1. a \in seen'[v] /\ pc'[v] \in Ending
      BY <1>0, <1>2, <2>4 DEF Keeps
    <3> QED  BY <3>1 DEF KnownToHolders
  <2> QED  BY <1>0, <2>1, <2>2, <2>3, <2>4 DEF KnownToHolders
<1> QED  BY <1>1, <1>2

-----------------------------------------------------------------------------
(* The steps, by what they do to the references. *)

\* A step of t that leaves the references alone.
Quiet(t) ==
  \/ Use(t) \/ Ask(t) \/ LockFails(t) \/ LockTarget(t)
  \/ ExchangeTarget(t) \/ Destroy(t) \/ Free(t)

\* A step of t that makes one more.
Adds(t) ==
  \/ \E h \in StrongRef : Copy(t, h) \/ Lock(t, h)
  \/ \E w \in WeakRef : Watch(t, w) \/ WeakCopy(t, w)

\* The places that a quiet step of t accesses, for whoever may.
LEMMA QuietKeeps ==
  ASSUME OrdersTypeOK, NEW t \in Thread, Quiet(t)
  PROVE  /\ UNCHANGED <<strong, weak>>
         /\ UNCHANGED base
         /\ \E P \in SUBSET Place :
              /\ Keeps(t, P)
              /\ "target" \in P => HasStrong(t) \/ At(t, "destroy")
              /\ "block" \in P => \/ HasStrong(t) \/ HasWeak(t) \/ At(t, "free")
                                  \/ At(t, "lock_target") \/ At(t, "exchange")
<1> USE DEF Place, Atomic
<1>1. UNCHANGED <<strong, weak>> /\ UNCHANGED base
  BY DEF Quiet, Use, Ask, LockFails, LockTarget, ExchangeTarget, Destroy, Free
<1>2. CASE Use(t)
  <2>1. Keeps(t, {"target"}) /\ HasStrong(t)
    BY <1>2, RelaxedKeeps DEF Use
  <2> QED  BY <1>1, <2>1
<1>3. CASE Ask(t)
  <2>1. CASE HasStrong(t) /\ AcquireLoad(t, Place, "strong")
    <3>1. Keeps(t, Place)
      BY <2>1, AcquireLoadKeeps
    <3> QED  BY <1>1, <2>1, <3>1
  <2>2. CASE HasWeak(t) /\ AcquireLoad(t, {"block"}, "strong")
    <3>1. Keeps(t, {"block"})
      BY <2>2, AcquireLoadKeeps
    <3> QED  BY <1>1, <2>2, <3>1
  <2> QED  BY <1>3, <2>1, <2>2 DEF Ask
<1>4. CASE LockFails(t)
  <2>1. Keeps(t, {"block"}) /\ HasWeak(t)
    BY <1>4, AcquireLoadKeeps DEF LockFails
  <2> QED  BY <1>1, <2>1
<1>5. CASE LockTarget(t)
  <2>1. Keeps(t, {"block"}) /\ At(t, "lock_target")
    BY <1>5, AcquireLoadKeeps DEF LockTarget
  <2> QED  BY <1>1, <2>1
<1>6. CASE ExchangeTarget(t)
  <2>1. Keeps(t, {"block"}) /\ At(t, "exchange")
    BY <1>6, AcqRelKeeps DEF ExchangeTarget
  <2> QED  BY <1>1, <2>1
<1>7. CASE Destroy(t)
  <2>1. Keeps(t, {"target"}) /\ At(t, "destroy")
    BY <1>7, RelaxedKeeps DEF Destroy
  <2> QED  BY <1>1, <2>1
<1>8. CASE Free(t)
  <2>1. Keeps(t, {"block"}) /\ At(t, "free")
    BY <1>8, RelaxedKeeps DEF Free
  <2> QED  BY <1>1, <2>1
<1> QED  BY <1>2, <1>3, <1>4, <1>5, <1>6, <1>7, <1>8 DEF Quiet

\* A step that adds a reference keeps the others; its thread has one before and after.
LEMMA AddsKeeps ==
  ASSUME OrdersTypeOK, NEW t \in Thread, Adds(t)
  PROVE  /\ UNCHANGED base
         /\ At(t, "idle") /\ pc'[t] \in {"idle", "lock_target"}
         /\ \A v \in Thread \ {t} : pc'[v] = pc[v]
         /\ \A h \in StrongRef : strong[h] # NULL => strong'[h] = strong[h]
         /\ \A w \in WeakRef : weak[w] # NULL => weak'[w] = weak[w]
         /\ Owned' => Owned
         /\ Watched' => Watched \/ Owned
         /\ At(t, "lock_target")' => HasStrong(t)'
         /\ \E P \in SUBSET Place :
              /\ Keeps(t, P)
              /\ "target" \in P => HasStrong(t)'
              /\ HasStrong(t)' \/ HasWeak(t)'
<1> USE OrdersAssumption DEF Place, Atomic
<1>1. ASSUME NEW h \in StrongRef, Copy(t, h)
      PROVE  Keeps(t, Place)
  BY <1>1, RelaxedKeeps DEF Copy
<1>2. ASSUME NEW h \in StrongRef, Lock(t, h)
      PROVE  Keeps(t, {"block"})
  BY <1>2, AcqRelKeeps DEF Lock
<1>3. ASSUME NEW w \in WeakRef, Watch(t, w)
      PROVE  Keeps(t, Place)
  BY <1>3, RelaxedKeeps DEF Watch
<1>4. ASSUME NEW w \in WeakRef, WeakCopy(t, w)
      PROVE  Keeps(t, {"block"})
  BY <1>4, RelaxedKeeps DEF WeakCopy
<1> USE DEF OrdersTypeOK, Owned, Watched, Unowned, HasStrong, HasWeak, At, Goto
<1>5. CASE \E h \in StrongRef : Copy(t, h)
  BY <1>1, <1>5 DEF Copy
<1>6. CASE \E h \in StrongRef : Lock(t, h)
  BY <1>2, <1>6 DEF Lock
<1>7. CASE \E w \in WeakRef : Watch(t, w)
  BY <1>3, <1>7 DEF Watch
<1>8. CASE \E w \in WeakRef : WeakCopy(t, w)
  BY <1>4, <1>8 DEF WeakCopy
<1> QED  BY <1>5, <1>6, <1>7, <1>8 DEF Adds

-----------------------------------------------------------------------------
(* The invariant, one part after the other. *)

\* OrdersTypeOK is kept by every step.
LEMMA OrdersTypeStep ==
  ASSUME OrdersTypeOK, [OrdersNext]_ovars
  PROVE  OrdersTypeOK'
<1>1. CASE UNCHANGED ovars
  BY <1>1 DEF ovars, OrdersTypeOK
<1>2. ASSUME NEW t \in Thread, Quiet(t)
      PROVE  OrdersTypeOK'
  <2>1. PICK P \in SUBSET Place : Keeps(t, P)
    BY <1>2, QuietKeeps
  <2>2. pc' \in [Thread -> Label]
    BY <1>2 DEF Quiet, Use, Ask, LockFails, LockTarget, ExchangeTarget, Destroy, Free,
                Goto, Label, OrdersTypeOK
  <2> QED  BY <1>2, <2>1, <2>2, QuietKeeps DEF Keeps, OrdersTypeOK
<1>3. ASSUME NEW t \in Thread, Adds(t)
      PROVE  OrdersTypeOK'
  <2>1. PICK P \in SUBSET Place : Keeps(t, P)
    BY <1>3, AddsKeeps
  <2>2. /\ pc' \in [Thread -> Label]
        /\ strong' \in [StrongRef -> Thread \cup {NULL}]
        /\ weak' \in [WeakRef -> Thread \cup {NULL}]
        /\ base' = base
    BY <1>3 DEF Adds, Copy, Lock, Watch, WeakCopy, Goto, Label, OrdersTypeOK
  <2> QED  BY <2>1, <2>2 DEF Keeps, OrdersTypeOK
<1>4. ASSUME NEW t \in Thread, NEW u \in Thread, HandOver(t, u)
      PROVE  OrdersTypeOK'
  BY <1>4, HandOverKeeps DEF Keeps, HandOver, OrdersTypeOK
<1>5. ASSUME NEW t \in Thread, NEW h \in StrongRef, ReleaseStrong(t, h)
      PROVE  OrdersTypeOK'
  <2>1. Keeps(t, Place)
    BY <1>5, AcqRelKeeps DEF ReleaseStrong, Atomic
  <2> QED  BY <1>5, <2>1 DEF Keeps, ReleaseStrong, Goto, Label, OrdersTypeOK
<1>6. ASSUME NEW t \in Thread, ReleaseBase(t)
      PROVE  OrdersTypeOK'
  <2>1. Keeps(t, Place)
    BY <1>6, AcqRelKeeps DEF ReleaseBase, Atomic
  <2> QED  BY <1>6, <2>1 DEF Keeps, ReleaseBase, Goto, Label, OrdersTypeOK
<1>7. ASSUME NEW t \in Thread, NEW w \in WeakRef, ReleaseWeak(t, w)
      PROVE  OrdersTypeOK'
  <2>1. Keeps(t, {"block"})
    BY <1>7, AcqRelKeeps DEF ReleaseWeak, Atomic, Place
  <2> QED  BY <1>7, <2>1 DEF Keeps, ReleaseWeak, Goto, Label, OrdersTypeOK
<1> QED  BY <1>1, <1>2, <1>3, <1>4, <1>5, <1>6, <1>7 DEF OrdersNext, Quiet, Adds

\* One thread at most ends the target, when nobody refers to it any more, and one
\* frees the control block, when nobody refers to that.
LEMMA ControlStep ==
  ASSUME OrdersTypeOK, ControlInv, [OrdersNext]_ovars
  PROVE  ControlInv'
<1>0. OrdersTypeOK'
  BY OrdersTypeStep
<1> USE OrdersAssumption
<1>1. CASE UNCHANGED ovars
  BY <1>1 DEF ovars, ControlInv, At, HasStrong, Owned, Watched
<1>2. ASSUME NEW t \in Thread, Quiet(t)
      PROVE  ControlInv'
  <2>1. UNCHANGED <<strong, weak>> /\ UNCHANGED base
    BY <1>2, QuietKeeps
  <2>2. \/ UNCHANGED pc
        \/ At(t, "lock_target") /\ pc' = [pc EXCEPT ![t] = "idle"]
        \/ At(t, "exchange") /\ pc' = [pc EXCEPT ![t] = "destroy"]
        \/ At(t, "destroy") /\ pc' = [pc EXCEPT ![t] = "base"]
        \/ At(t, "free") /\ pc' = [pc EXCEPT ![t] = "idle"]
    BY <1>2 DEF Quiet, Use, Ask, LockFails, LockTarget, ExchangeTarget, Destroy, Free, Goto
  <2> QED  BY <2>1, <2>2 DEF ControlInv, At, HasStrong, Owned, Watched, Ending, OrdersTypeOK
<1>3. ASSUME NEW t \in Thread, Adds(t)
      PROVE  ControlInv'
  <2>1. /\ UNCHANGED base
        /\ At(t, "idle") /\ pc'[t] \in {"idle", "lock_target"}
        /\ \A v \in Thread \ {t} : pc'[v] = pc[v]
        /\ \A h \in StrongRef : strong[h] # NULL => strong'[h] = strong[h]
        /\ Owned' => Owned
        /\ Watched' => Watched \/ Owned
        /\ At(t, "lock_target")' => HasStrong(t)'
    BY <1>3, AddsKeeps
  <2>2. \A v \in Thread : At(v, "lock_target")' => HasStrong(v)'
    BY <2>1 DEF ControlInv, At, HasStrong
  <2> QED  BY <2>1, <2>2 DEF ControlInv, At, Ending
<1>4. ASSUME NEW t \in Thread, NEW u \in Thread, HandOver(t, u)
      PROVE  ControlInv'
  <2>1. /\ \A v \in Thread : At(v, "lock_target")' => HasStrong(v)'
        /\ Owned' => Owned
        /\ Watched' => Watched
        /\ UNCHANGED <<base, pc>>
    BY <1>4 DEF HandOver, ControlInv, At, HasStrong, Owned, Watched, OrdersTypeOK
  <2> QED  BY <2>1 DEF ControlInv, At, Ending
<1>5. ASSUME NEW t \in Thread, NEW h \in StrongRef, ReleaseStrong(t, h)
      PROVE  ControlInv'
  <2>1. Owned /\ UNCHANGED <<weak, base>> /\ At(t, "idle")
    BY <1>5 DEF ReleaseStrong, Owned
  <2>2. \A v \in Thread : At(v, "lock_target")' => HasStrong(v)'
    BY <1>5 DEF ReleaseStrong, ControlInv, At, HasStrong, Goto, OrdersTypeOK
  <2>3. \A v \in Thread : pc'[v] \in Ending \cup {"free"} => v = t /\ pc'[v] = "exchange" /\ ~Owned'
    BY <1>5, <2>1 DEF ReleaseStrong, ControlInv, At, Goto, Owned, Ending, OrdersTypeOK
  <2> QED  BY <2>1, <2>2, <2>3 DEF ControlInv, At, Ending
<1>6. ASSUME NEW t \in Thread, ReleaseBase(t)
      PROVE  ControlInv'
  <2>1. ~Owned /\ UNCHANGED <<strong, weak>> /\ At(t, "base") /\ ~base'
    BY <1>6 DEF ReleaseBase, ControlInv, At, Ending
  <2>2. ~Owned' /\ Watched' = Watched
    BY <2>1 DEF Owned, Watched
  <2>3. \A v \in Thread : pc'[v] \in Ending \cup {"free"} => v = t /\ pc'[v] = "free" /\ ~Watched
    BY <1>6, <2>1 DEF ReleaseBase, ControlInv, At, Goto, Watched, Ending, OrdersTypeOK
  <2>4. \A v \in Thread : ~At(v, "lock_target")'
    BY <1>6, <2>1 DEF ReleaseBase, ControlInv, At, Goto, Owned, HasStrong, OrdersTypeOK
  <2> QED  BY <2>1, <2>2, <2>3, <2>4 DEF ControlInv, At, Ending
<1>7. ASSUME NEW t \in Thread, NEW w \in WeakRef, ReleaseWeak(t, w)
      PROVE  ControlInv'
  <2>1. Watched /\ UNCHANGED <<strong, base>> /\ At(t, "idle") /\ (Owned' <=> Owned)
    BY <1>7 DEF ReleaseWeak, Watched, Owned
  <2>2. \A v \in Thread : At(v, "lock_target")' => HasStrong(v)'
    BY <1>7 DEF ReleaseWeak, ControlInv, At, HasStrong, Goto, OrdersTypeOK
  <2>3. Watched' => Watched
    BY <2>1
  <2>4. \A v \in Thread \ {t} : pc'[v] = pc[v] /\ ~At(v, "free")
    BY <1>7, <2>1 DEF ReleaseWeak, ControlInv, At, Goto, OrdersTypeOK
  <2>5. pc'[t] \in {"idle", "free"} /\ (At(t, "free")' => ~base /\ ~Watched')
    BY <1>7 DEF ReleaseWeak, At, Goto, Watched, OrdersTypeOK
  <2> QED  BY <2>1, <2>2, <2>3, <2>4, <2>5 DEF ControlInv, At, Ending
<1> QED  BY <1>1, <1>2, <1>3, <1>4, <1>5, <1>6, <1>7 DEF OrdersNext, Quiet, Adds

\* A decrement of the strong count leaves what was known with the owners that
\* remain, or with the thread that was the last.
LEMMA ReleasePasses ==
  ASSUME OrdersTypeOK, OrdersTypeOK', NEW t \in Thread, NEW h \in StrongRef, ReleaseStrong(t, h),
         NEW u \in Thread, NEW p \in Place, u = t \/ KnownToOwners(<<u, p>>)
  PROVE  /\ KnownToOwners(<<u, p>>)'
         /\ ~Owned' => <<u, p>> \in seen'[t]
<1> DEFINE a == <<u, p>>
<1>1. Keeps(t, Place) /\ released'["strong"] = seen'[t]
  BY AcqRelKeeps DEF ReleaseStrong, Atomic
<1>2. strong[h] = t /\ strong' = [strong EXCEPT ![h] = NULL] /\ "strong" \in Atomic
  BY DEF ReleaseStrong, Atomic
<1>3. CASE u = t
  BY <1>1, <1>3 DEF Keeps, KnownToOwners
<1>4. CASE u # t /\ a \in released["strong"]
  BY <1>1, <1>2, <1>4 DEF Keeps, KnownToOwners
<1>5. ASSUME u # t, NEW g \in StrongRef, strong[g] # NULL, a \in seen[strong[g]]
      PROVE  a \in seen'[t] \/ (strong'[g] # NULL /\ a \in seen'[strong'[g]])
  <2>1. strong[g] \in Thread
    BY <1>5 DEF OrdersTypeOK
  <2>2. a \in seen'[strong[g]]
    BY <1>1, <1>5, <2>1 DEF Keeps
  <2>3. g # h => strong'[g] = strong[g]
    BY <1>2 DEF OrdersTypeOK
  <2> QED  BY <1>2, <1>5, <2>2, <2>3
<1>6. CASE u # t /\ \E g \in StrongRef : strong[g] # NULL /\ a \in seen[strong[g]]
  BY <1>1, <1>5, <1>6 DEF KnownToOwners, Owned
<1> QED  BY <1>3, <1>4, <1>6 DEF KnownToOwners

\* Every use of the target is known to its owners, and then to its destroyer.
LEMMA TargetStep ==
  ASSUME OrdersTypeOK, ControlInv, TargetInv, [OrdersNext]_ovars
  PROVE  TargetInv'
<1>0. OrdersTypeOK' /\ "target" \in Place
  BY OrdersTypeStep DEF Place
<1> USE OrdersAssumption
<1>1. CASE UNCHANGED ovars
  BY <1>1 DEF ovars, TargetInv, Owned, KnownToOwners
<1>2. ASSUME NEW t \in Thread, Quiet(t)
      PROVE  TargetInv'
  <2>1. PICK P \in SUBSET Place :
          Keeps(t, P) /\ ("target" \in P => HasStrong(t) \/ At(t, "destroy"))
    BY <1>2, QuietKeeps
  <2>2. UNCHANGED <<strong, weak>>
    BY <1>2, QuietKeeps
  <2>3. (Owned' <=> Owned) /\ (HasStrong(t)' <=> HasStrong(t)) /\ OwnersStay
    BY <2>2 DEF Owned, HasStrong, OwnersStay
  <2>4. "target" \in P /\ Owned => HasStrong(t)'
    BY <2>1, <2>3 DEF ControlInv, At, Ending
  <2>5. (Owned => \A u \in Thread : KnownToOwners(<<u, "target">>))'
    BY <1>0, <2>1, <2>3, <2>4, TargetKept DEF TargetInv
  <2>6. ASSUME NEW v \in Thread, NEW u \in Thread, pc'[v] \in {"exchange", "destroy"}
        PROVE  <<u, "target">> \in seen'[v]
    <3>1. pc[v] \in {"exchange", "destroy"}
      BY <1>2, <2>6 DEF Quiet, Use, Ask, LockFails, LockTarget, ExchangeTarget, Destroy,
                        Free, Goto, OrdersTypeOK, At
    <3>2. v # t => "target" \notin P
      BY <2>1, <3>1 DEF ControlInv, At, Ending, Owned, HasStrong
    <3>3. <<u, "target">> \in seen[v]
      BY <3>1 DEF TargetInv
    <3> QED  BY <1>0, <2>1, <3>2, <3>3 DEF Keeps
  <2> QED  BY <2>5, <2>6 DEF TargetInv
<1>3. ASSUME NEW t \in Thread, Adds(t)
      PROVE  TargetInv'
  <2>1. PICK P \in SUBSET Place : Keeps(t, P) /\ ("target" \in P => HasStrong(t)')
    BY <1>3, AddsKeeps
  <2>2. /\ At(t, "idle") /\ pc'[t] \in {"idle", "lock_target"}
        /\ \A v \in Thread \ {t} : pc'[v] = pc[v]
        /\ \A h \in StrongRef : strong[h] # NULL => strong'[h] = strong[h]
        /\ Owned' => Owned
    BY <1>3, AddsKeeps
  <2>3. OwnersStay
    BY <2>2 DEF OwnersStay
  <2>4. (Owned => \A u \in Thread : KnownToOwners(<<u, "target">>))'
    BY <1>0, <2>1, <2>2, <2>3, TargetKept DEF TargetInv
  <2>5. ASSUME NEW v \in Thread, NEW u \in Thread, pc'[v] \in {"exchange", "destroy"}
        PROVE  <<u, "target">> \in seen'[v]
    <3>1. v # t /\ pc[v] \in {"exchange", "destroy"}
      BY <2>2, <2>5
    <3>2. "target" \notin P
      BY <2>1, <2>2, <3>1 DEF ControlInv, Ending, Owned, HasStrong
    <3>3. <<u, "target">> \in seen[v]
      BY <3>1 DEF TargetInv
    <3> QED  BY <1>0, <2>1, <3>2, <3>3 DEF Keeps
  <2> QED  BY <2>4, <2>5 DEF TargetInv
<1>4. ASSUME NEW t \in Thread, NEW u \in Thread, HandOver(t, u)
      PROVE  TargetInv'
  <2>1. Keeps(t, {}) /\ seen[t] \subseteq seen'[u] /\ UNCHANGED <<base, pc>>
    BY <1>4, HandOverKeeps DEF HandOver
  <2>2. OwnersStay /\ (Owned' => Owned)
    BY <1>4, <2>1 DEF HandOver, OwnersStay, Owned, OrdersTypeOK
  <2>3. (Owned => \A v \in Thread : KnownToOwners(<<v, "target">>))'
    BY <1>0, <2>1, <2>2, TargetKept DEF TargetInv
  <2>4. \A v, w \in Thread : pc'[v] \in {"exchange", "destroy"} => <<w, "target">> \in seen'[v]
    BY <1>0, <2>1 DEF Keeps, TargetInv
  <2> QED  BY <2>3, <2>4 DEF TargetInv
<1>5. ASSUME NEW t \in Thread, NEW h \in StrongRef, ReleaseStrong(t, h)
      PROVE  TargetInv'
  <2>1. Owned /\ \A u \in Thread : KnownToOwners(<<u, "target">>)
    BY <1>5 DEF ReleaseStrong, Owned, TargetInv
  <2>2. \A u \in Thread : KnownToOwners(<<u, "target">>)' /\ (~Owned' => <<u, "target">> \in seen'[t])
    BY <1>0, <1>5, <2>1, ReleasePasses
  <2>3. \A v \in Thread : pc'[v] \in {"exchange", "destroy"} => v = t /\ ~Owned'
    BY <1>5, <2>1 DEF ReleaseStrong, ControlInv, At, Goto, Owned, Ending, OrdersTypeOK
  <2> QED  BY <2>2, <2>3 DEF TargetInv
<1>6. ASSUME NEW t \in Thread, ReleaseBase(t)
      PROVE  TargetInv'
  <2>1. ~Owned /\ At(t, "base") /\ UNCHANGED strong
    BY <1>6 DEF ReleaseBase, ControlInv, At, Ending
  <2>2. ~Owned'
    BY <2>1 DEF Owned
  <2>3. \A v \in Thread : pc'[v] \notin {"exchange", "destroy"}
    BY <1>6, <2>1 DEF ReleaseBase, ControlInv, At, Goto, Ending, OrdersTypeOK
  <2> QED  BY <2>2, <2>3 DEF TargetInv
<1>7. ASSUME NEW t \in Thread, NEW w \in WeakRef, ReleaseWeak(t, w)
      PROVE  TargetInv'
  <2>1. Keeps(t, {"block"}) /\ UNCHANGED strong
    BY <1>7, AcqRelKeeps DEF ReleaseWeak, Place, Atomic
  <2>2. OwnersStay /\ (Owned' => Owned)
    BY <2>1 DEF OwnersStay, Owned
  <2>3. (Owned => \A u \in Thread : KnownToOwners(<<u, "target">>))'
    BY <1>0, <2>1, <2>2, TargetKept DEF TargetInv, Place
  <2>4. ASSUME NEW v \in Thread, NEW u \in Thread, pc'[v] \in {"exchange", "destroy"}
        PROVE  <<u, "target">> \in seen'[v]
    <3>1. pc[v] \in {"exchange", "destroy"}
      BY <1>7, <2>4 DEF ReleaseWeak, Goto, OrdersTypeOK
    <3> QED  BY <1>0, <2>1, <3>1 DEF TargetInv, Keeps
  <2> QED  BY <2>3, <2>4 DEF TargetInv
<1> QED  BY <1>1, <1>2, <1>3, <1>4, <1>5, <1>6, <1>7 DEF OrdersNext, Quiet, Adds

\* Every access to the control block is known to its holders, and then to the one
\* that frees it.
LEMMA BlockStep ==
  ASSUME OrdersTypeOK, ControlInv, BlockInv, [OrdersNext]_ovars
  PROVE  BlockInv'
<1>0. OrdersTypeOK' /\ ControlInv' /\ "block" \in Place
  BY OrdersTypeStep, ControlStep DEF Place
<1> USE OrdersAssumption
<1>1. CASE UNCHANGED ovars
  BY <1>1 DEF ovars, BlockInv, Owned, Watched, KnownToOwners, KnownToHolders, At
<1>2. ASSUME NEW t \in Thread, Quiet(t)
      PROVE  BlockInv'
  <2>1. PICK P \in SUBSET Place :
          /\ Keeps(t, P)
          /\ "block" \in P => \/ HasStrong(t) \/ HasWeak(t) \/ At(t, "free")
                              \/ At(t, "lock_target") \/ At(t, "exchange")
    BY <1>2, QuietKeeps
  <2>2. UNCHANGED <<strong, weak>> /\ UNCHANGED base
    BY <1>2, QuietKeeps
  <2>3. /\ (Owned' <=> Owned) /\ (Watched' <=> Watched) /\ OwnersStay /\ WatchersStay
        /\ (HasStrong(t)' <=> HasStrong(t)) /\ (HasWeak(t)' <=> HasWeak(t))
    BY <2>2 DEF Owned, Watched, HasStrong, HasWeak, OwnersStay, WatchersStay
  <2>4. /\ \A v \in Thread : pc[v] \in Ending => pc'[v] \in Ending
        /\ \A v \in Thread : At(v, "free")' => At(v, "free") /\ v # t
        /\ At(t, "exchange") => pc'[t] \in Ending
    BY <1>2 DEF Quiet, Use, Ask, LockFails, LockTarget, ExchangeTarget, Destroy, Free,
                Goto, At, Ending, OrdersTypeOK
  <2>5. CASE At(t, "free")
    <3>1. ~base /\ ~Watched
      BY <2>5 DEF ControlInv
    <3>2. \A v \in Thread : ~At(v, "free")'
      BY <2>4, <2>5 DEF ControlInv, At
    <3> QED  BY <2>2, <2>3, <3>1, <3>2 DEF BlockInv
  <2>6. CASE ~At(t, "free")
    <3>1. "block" \in P => HasStrong(t)' \/ HasWeak(t)' \/ pc'[t] \in Ending
      BY <2>1, <2>3, <2>4, <2>6 DEF ControlInv
    <3>2. (base \/ Watched => \A u \in Thread : KnownToHolders(<<u, "block">>))'
      BY <1>0, <2>1, <2>2, <2>3, <2>4, <3>1, BlockKept DEF BlockInv
    <3>3. ASSUME NEW v \in Thread, NEW u \in Thread, At(v, "free")'
          PROVE  <<u, "block">> \in seen'[v]
      <4>1. At(v, "free") /\ v # t
        BY <2>4, <3>3
      <4>2. ~Owned /\ ~Watched
        BY <4>1 DEF ControlInv
      <4>3. "block" \notin P
        BY <2>1, <2>6, <4>1, <4>2 DEF ControlInv, At, Ending, Owned, Watched, HasStrong, HasWeak
      <4>4. <<u, "block">> \in seen[v]
        BY <4>1 DEF BlockInv
      <4> QED  BY <1>0, <2>1, <4>3, <4>4 DEF Keeps
    <3> QED  BY <3>2, <3>3 DEF BlockInv
  <2> QED  BY <2>5, <2>6
<1>3. ASSUME NEW t \in Thread, Adds(t)
      PROVE  BlockInv'
  <2>1. PICK P \in SUBSET Place : Keeps(t, P) /\ (HasStrong(t)' \/ HasWeak(t)')
    BY <1>3, AddsKeeps
  <2>2. /\ UNCHANGED base
        /\ At(t, "idle") /\ pc'[t] \in {"idle", "lock_target"}
        /\ \A v \in Thread \ {t} : pc'[v] = pc[v]
        /\ \A h \in StrongRef : strong[h] # NULL => strong'[h] = strong[h]
        /\ \A w \in WeakRef : weak[w] # NULL => weak'[w] = weak[w]
        /\ Watched' => Watched \/ Owned
    BY <1>3, AddsKeeps
  <2>3. OwnersStay /\ WatchersStay /\ (Owned => Owned') /\ (Watched => Watched')
    BY <2>2 DEF OwnersStay, WatchersStay, Owned, Watched
  <2>4. /\ \A v \in Thread : pc[v] \in Ending => pc'[v] \in Ending
        /\ (base \/ Watched)' => base \/ Watched
    BY <2>2 DEF At, Ending, ControlInv
  <2>5. (base \/ Watched => \A u \in Thread : KnownToHolders(<<u, "block">>))'
    BY <1>0, <2>1, <2>3, <2>4, BlockKept DEF BlockInv
  <2>6. \A v \in Thread : ~At(v, "free")'
    BY <1>0, <2>1 DEF ControlInv, HasStrong, HasWeak, Owned, Watched
  <2> QED  BY <2>5, <2>6 DEF BlockInv
<1>4. ASSUME NEW t \in Thread, NEW u \in Thread, HandOver(t, u)
      PROVE  BlockInv'
  <2>1. Keeps(t, {}) /\ seen[t] \subseteq seen'[u] /\ UNCHANGED <<base, pc>>
    BY <1>4, HandOverKeeps DEF HandOver
  <2>2. OwnersStay /\ (Owned => Owned')
    BY <1>4, <2>1 DEF HandOver, OwnersStay, Owned, OrdersTypeOK
  <2>3. WatchersStay /\ (Watched' => Watched)
    BY <1>4, <2>1 DEF HandOver, WatchersStay, Watched, OrdersTypeOK
  <2>4. (base \/ Watched => \A v \in Thread : KnownToHolders(<<v, "block">>))'
    BY <1>0, <2>1, <2>2, <2>3, BlockKept DEF BlockInv
  <2>5. \A v, w \in Thread : At(v, "free")' => <<w, "block">> \in seen'[v]
    BY <1>0, <2>1 DEF Keeps, BlockInv, At
  <2> QED  BY <2>4, <2>5 DEF BlockInv
<1>5. ASSUME NEW t \in Thread, NEW h \in StrongRef, ReleaseStrong(t, h)
      PROVE  BlockInv'
  <2>1. Owned /\ base /\ UNCHANGED <<weak, base>>
    BY <1>5 DEF ReleaseStrong, Owned, ControlInv
  <2>2. Keeps(t, Place)
    BY <1>5, AcqRelKeeps DEF ReleaseStrong, Atomic
  <2>3. \A v \in Thread : ~At(v, "free")' /\ pc[v] \notin Ending
    BY <1>5, <2>1 DEF ReleaseStrong, ControlInv, At, Goto, Ending, OrdersTypeOK
  <2>4. ~Owned' => pc'[t] = "exchange"
    BY <1>5 DEF ReleaseStrong, Goto, Owned, OrdersTypeOK
  <2>5. ASSUME NEW u \in Thread
        PROVE  KnownToHolders(<<u, "block">>)'
    <3>1. CASE u = t \/ KnownToOwners(<<u, "block">>)
      <4>1. KnownToOwners(<<u, "block">>)' /\ (~Owned' => <<u, "block">> \in seen'[t])
        BY <1>0, <1>5, <3>1, ReleasePasses
      <4> QED  BY <2>4, <4>1 DEF KnownToHolders, Ending
    <3>2. CASE u # t /\ <<u, "block">> \in released["weak"]
      BY <1>0, <2>2, <3>2 DEF Keeps, KnownToHolders, Atomic
    <3>3. ASSUME u # t, NEW w \in WeakRef, weak[w] # NULL, <<u, "block">> \in seen[weak[w]]
          PROVE  KnownToHolders(<<u, "block">>)'
      <4>1. weak[w] \in Thread
        BY <3>3 DEF OrdersTypeOK
      <4>2. <<u, "block">> \in seen'[weak'[w]] /\ weak'[w] # NULL
        BY <1>0, <2>1, <2>2, <3>3, <4>1 DEF Keeps
      <4> QED  BY <4>2 DEF KnownToHolders
    <3>4. KnownToHolders(<<u, "block">>)
      BY <2>1 DEF BlockInv
    <3> QED  BY <2>3, <3>1, <3>2, <3>3, <3>4 DEF KnownToHolders
  <2> QED  BY <2>3, <2>5 DEF BlockInv
<1>6. ASSUME NEW t \in Thread, ReleaseBase(t)
      PROVE  BlockInv'
  <2>1. ~Owned /\ base /\ UNCHANGED <<strong, weak>> /\ At(t, "base") /\ ~base'
    BY <1>6 DEF ReleaseBase, ControlInv, At, Ending
  <2>2. Keeps(t, Place) /\ released'["weak"] = seen'[t]
    BY <1>6, AcqRelKeeps DEF ReleaseBase, Atomic
  <2>3. \A v \in Thread : pc[v] \in Ending => v = t
    BY <2>1 DEF ControlInv, At, Ending
  <2>4. ASSUME NEW u \in Thread
        PROVE  KnownToHolders(<<u, "block">>)' /\ (~Watched' => <<u, "block">> \in seen'[t])
    <3>1. CASE u = t
      BY <1>0, <2>2, <3>1 DEF Keeps, KnownToHolders
    <3>2. CASE u # t /\ (<<u, "block">> \in released["weak"] \/ <<u, "block">> \in seen[t])
      BY <1>0, <2>2, <3>2 DEF Keeps, KnownToHolders, Atomic
    <3>3. ASSUME u # t, NEW w \in WeakRef, weak[w] # NULL, <<u, "block">> \in seen[weak[w]]
          PROVE  KnownToHolders(<<u, "block">>)' /\ Watched'
      <4>1. weak[w] \in Thread
        BY <3>3 DEF OrdersTypeOK
      <4>2. <<u, "block">> \in seen'[weak'[w]] /\ weak'[w] # NULL
        BY <1>0, <2>1, <2>2, <3>3, <4>1 DEF Keeps
      <4> QED  BY <4>2 DEF KnownToHolders, Watched
    <3>4. KnownToHolders(<<u, "block">>)
      BY <2>1 DEF BlockInv
    <3> QED  BY <2>1, <2>3, <3>1, <3>2, <3>3, <3>4 DEF KnownToHolders
  <2>5. \A v \in Thread : At(v, "free")' => v = t /\ ~Watched'
    BY <1>6, <2>1 DEF ReleaseBase, ControlInv, At, Goto, Watched, Ending, OrdersTypeOK
  <2> QED  BY <2>4, <2>5 DEF BlockInv
<1>7. ASSUME NEW t \in Thread, NEW w \in WeakRef, ReleaseWeak(t, w)
      PROVE  BlockInv'
  <2>1. Watched /\ UNCHANGED <<strong, base>> /\ weak[w] = t /\ weak' = [weak EXCEPT ![w] = NULL]
    BY <1>7 DEF ReleaseWeak, Watched
  <2>2. Keeps(t, {"block"}) /\ released'["weak"] = seen'[t]
    BY <1>7, AcqRelKeeps DEF ReleaseWeak, Atomic, Place
  <2>3. \A v \in Thread : pc[v] \in Ending => pc'[v] = pc[v]
    BY <1>7 DEF ReleaseWeak, Goto, At, Ending, OrdersTypeOK
  <2>4. ASSUME NEW u \in Thread
        PROVE  KnownToHolders(<<u, "block">>)' /\ (~base /\ ~Watched' => <<u, "block">> \in seen'[t])
    <3>1. CASE u = t
      BY <1>0, <2>2, <3>1 DEF Keeps, KnownToHolders
    <3>2. CASE u # t /\ (<<u, "block">> \in released["weak"] \/ <<u, "block">> \in seen[t])
      BY <1>0, <2>2, <3>2 DEF Keeps, KnownToHolders, Atomic
    <3>3. ASSUME u # t, NEW v \in WeakRef, weak[v] # NULL, <<u, "block">> \in seen[weak[v]], v # w
          PROVE  KnownToHolders(<<u, "block">>)' /\ Watched'
      <4>1. weak[v] \in Thread /\ weak'[v] = weak[v]
        BY <2>1, <3>3 DEF OrdersTypeOK
      <4>2. <<u, "block">> \in seen'[weak'[v]]
        BY <1>0, <2>2, <3>3, <4>1 DEF Keeps
      <4> QED  BY <3>3, <4>1, <4>2 DEF KnownToHolders, Watched
    <3>4. CASE u # t /\ Owned /\ KnownToOwners(<<u, "block">>)
      <4>1. OwnersStay /\ Owned'
        BY <2>1, <3>4 DEF OwnersStay, Owned
      <4>2. KnownToOwners(<<u, "block">>)'
        BY <1>0, <2>2, <3>4, <4>1, OwnersKnow DEF Place
      <4>3. base
        BY <3>4 DEF ControlInv
      <4> QED  BY <4>1, <4>2, <4>3 DEF KnownToHolders
    <3>5. ASSUME u # t, NEW v \in Thread, pc[v] \in Ending, <<u, "block">> \in seen[v]
          PROVE  KnownToHolders(<<u, "block">>)' /\ base
      <4>1. <<u, "block">> \in seen'[v] /\ pc'[v] \in Ending
        BY <1>0, <2>2, <2>3, <3>5 DEF Keeps
      <4> QED  BY <3>5, <4>1 DEF KnownToHolders, ControlInv
    <3>6. KnownToHolders(<<u, "block">>)
      BY <2>1 DEF BlockInv
    <3> QED  BY <2>1, <3>1, <3>2, <3>3, <3>4, <3>5, <3>6 DEF KnownToHolders
  <2>5. \A v \in Thread : At(v, "free")' => v = t /\ ~base /\ ~Watched'
    BY <1>7, <2>1 DEF ReleaseWeak, ControlInv, At, Goto, Watched, OrdersTypeOK
  <2> QED  BY <2>4, <2>5 DEF BlockInv
<1> QED  BY <1>1, <1>2, <1>3, <1>4, <1>5, <1>6, <1>7 DEF OrdersNext, Quiet, Adds

-----------------------------------------------------------------------------
(* The theorems. *)

\* The invariant holds when the target has been made.
LEMMA OrdersInitially == OrdersInit => OrdersInv
<1> SUFFICES ASSUME OrdersInit PROVE OrdersInv
  OBVIOUS
<1> USE OrdersAssumption DEF OrdersInit
<1>1. OrdersTypeOK
  BY DEF OrdersTypeOK, Label, Access
<1>2. ControlInv
  BY DEF ControlInv, At, Ending
<1>3. \A u \in Thread, p \in Place : <<u, p>> \in seen[Creator]
  BY DEF Access
<1>4. strong[First] = Creator /\ strong[First] # NULL
  OBVIOUS
<1>5. \A u \in Thread, p \in Place : KnownToOwners(<<u, p>>)
  BY <1>3, <1>4 DEF KnownToOwners
<1>6. TargetInv
  BY <1>5 DEF TargetInv, Place
<1>7. BlockInv
  BY <1>4, <1>5 DEF BlockInv, KnownToHolders, Owned, Place, At
<1> QED  BY <1>1, <1>2, <1>6, <1>7 DEF OrdersInv

\* Its four parts are kept together.
LEMMA OrdersStep == OrdersInv /\ [OrdersNext]_ovars => OrdersInv'
BY OrdersTypeStep, ControlStep, TargetStep, BlockStep DEF OrdersInv

\* All reachable states satisfy the invariant, OrdersTypeOK included.
THEOREM OrdersInvariant == OrdersSpec => []OrdersInv
BY OrdersInitially, OrdersStep, PTL DEF OrdersSpec

\* Destroying a target never races with a use of it (release_strong_ref).
THEOREM DestroysAfterUse == OrdersSpec => []DestroyedAfterUse
<1>1. OrdersInv => DestroyedAfterUse
  BY DEF OrdersInv, ControlInv, TargetInv, DestroyedAfterUse, At, Ending, Owned, Unowned
<1> QED  BY <1>1, OrdersInvariant, PTL

\* Deleting a control block never races with an access to it (release_weak_ref).
THEOREM FreesAfterUse == OrdersSpec => []FreedAfterUse
<1>1. OrdersInv => FreedAfterUse
  BY DEF OrdersInv, ControlInv, BlockInv, FreedAfterUse, At, Owned, Watched, Unowned
<1> QED  BY <1>1, OrdersInvariant, PTL

\* Whoever locks a weak handle sees what earlier owners did (try_retain_strong_ref).
THEOREM LocksTakeOver == OrdersSpec => LockTakesOver
<1>1. ASSUME OrdersInv, [OrdersNext]_ovars,
             NEW t \in Thread, At(t, "idle"), At(t, "lock_target")'
      PROVE  Thread \X {"target"} \subseteq
               seen'[t] \cup UNION {seen[strong[h]] : h \in {g \in StrongRef : strong[g] # NULL}}
  <2>1. PICK h \in StrongRef : Lock(t, h)
    BY <1>1 DEF OrdersNext, ovars, OrdersInv, OrdersTypeOK, At, Goto, Use, Ask, LockFails,
                LockTarget, ExchangeTarget, Destroy, ReleaseBase, Free, HandOver, Copy, Lock,
                ReleaseStrong, Watch, WeakCopy, ReleaseWeak
  <2>2. ASSUME NEW u \in Thread, <<u, "target">> \in released["strong"]
        PROVE  <<u, "target">> \in seen'[t]
    BY <1>1, <2>1, <2>2 DEF Lock, AcqRel, OrdersInv, OrdersTypeOK, SeenAfter, ReleasedAfter, Atomic
  <2>3. \A u \in Thread : KnownToOwners(<<u, "target">>)
    BY <1>1, <2>1 DEF Lock, OrdersInv, TargetInv, Unowned, Owned
  <2> QED  BY <2>2, <2>3 DEF KnownToOwners
<1>2. OrdersInv /\ [OrdersNext]_ovars =>
        [\A t \in Thread :
           At(t, "idle") /\ At(t, "lock_target")' =>
             Thread \X {"target"} \subseteq
               seen'[t] \cup UNION {seen[strong[h]] : h \in {g \in StrongRef : strong[g] # NULL}}]_ovars
  BY <1>1
<1> QED  BY <1>2, OrdersInvariant, PTL DEF OrdersSpec, LockTakesOver
=============================================================================
