---------------------------- MODULE IntrusivePtr ----------------------------
(***************************************************************************)
(* The reference counting of include/gradyx/core/intrusive_ptr.h: the two  *)
(* handle classes IntrusivePtr and WeakIntrusivePtr, the control block     *)
(* they share and the construction and destruction of the target, run by   *)
(* several threads.  Every atomic access is a step of its own; what a      *)
(* thread does to its handles between two of them is part of a step.       *)
(*                                                                         *)
(* A reference always sits in a *holder*: a handle, the control_ member of *)
(* a live target (the implicit weak reference), or a local of a running    *)
(* member function (the temporary `copy`, the pointer reset() exchanged    *)
(* out, the value lock() is about to return).                              *)
(***************************************************************************)
EXTENDS Integers, FiniteSets

CONSTANTS
  Thread,        \* the threads that run member functions
  Object,        \* the targets; each one has its own control block
  StrongHandle,  \* the IntrusivePtr variables
  WeakHandle,    \* the WeakIntrusivePtr variables
  MaxRefs,       \* std::numeric_limits<std::size_t>::max()
  NULL           \* nullptr

Kind == {"strong", "weak"}

Handle(k) == IF k = "strong" THEN StrongHandle ELSE WeakHandle

\* The local of thread t that carries a reference of kind k.
Local(k, t) == <<k, t>>

Locals(k) == {Local(k, t) : t \in Thread}

StrongHolder == StrongHandle \cup Locals("strong")

WeakHolder == WeakHandle \cup Locals("weak") \cup Object

Holder(k) == IF k = "strong" THEN StrongHolder ELSE WeakHolder

ASSUME ConstantsAssumption ==
  /\ IsFiniteSet(Thread) /\ IsFiniteSet(Object)
  /\ IsFiniteSet(StrongHandle) /\ IsFiniteSet(WeakHandle)
  /\ MaxRefs \in Nat \ {0}
  /\ StrongHandle \cap WeakHandle = {}
  /\ Object \cap (StrongHandle \cup WeakHandle) = {}
  /\ \A k \in Kind, t \in Thread :
       Local(k, t) \notin StrongHandle \cup WeakHandle \cup Object
  /\ NULL \notin Object \cup StrongHandle \cup WeakHandle

\* A process has fewer strong references at once than a size_t can count:
\* each sits in a pointer of its own.  Stated where it is needed.
EnoughRefs == Cardinality(StrongHolder) <= MaxRefs

VARIABLES
  refs,        \* refs[k][o]: strong_refs and weak_refs of o's control block
  target,      \* target[o]: the control block's pointer to its target
  block,       \* block[o]: whether o's control block is allocated
  life,        \* life[o]: what has happened to the target itself
  ptr,         \* ptr[x]: what holder x refers to
  call,        \* call[t]: the member function t is running
  terminated   \* std::terminate has been called

vars == <<refs, target, block, life, ptr, call, terminated>>

Label == {"idle", "ctor", "load", "cas", "lock_load", "lock_cas", "lock_target",
          "install", "release", "exchange", "destroy", "free", "take"}

\* A running member function: where it is, the control block it was given, the
\* kind of reference it handles, the count it last read (`current`, `count`),
\* the handle it writes, the handle it reads, and whether it is a move
\* assignment, which empties the handle it reads.
Frame == [pc : Label, kind : Kind, cb : Object \cup {NULL}, seen : 0..MaxRefs,
          dst : StrongHandle \cup WeakHandle \cup {NULL},
          src : StrongHandle \cup WeakHandle \cup {NULL}, moving : BOOLEAN]

Idle == [pc |-> "idle", kind |-> "strong", cb |-> NULL, seen |-> 0,
         dst |-> NULL, src |-> NULL, moving |-> FALSE]

TypeOK ==
  /\ refs \in [Kind -> [Object -> 0..MaxRefs]]
  /\ target \in [Object -> Object \cup {NULL}]
  /\ block \in [Object -> {"unused", "live", "freed"}]
  /\ life \in [Object -> {"none", "constructing", "alive", "destroying",
                          "destroyed", "aborted"}]
  /\ ptr \in [StrongHolder \cup WeakHolder -> Object \cup {NULL}]
  /\ call \in [Thread -> Frame]
  /\ terminated \in BOOLEAN

Init ==
  /\ refs = [k \in Kind |-> [o \in Object |-> 0]]
  /\ target = [o \in Object |-> NULL]
  /\ block = [o \in Object |-> "unused"]
  /\ life = [o \in Object |-> "none"]
  /\ ptr = [x \in StrongHolder \cup WeakHolder |-> NULL]
  /\ call = [t \in Thread |-> Idle]
  /\ terminated = FALSE

-----------------------------------------------------------------------------
(* What the steps are built from. *)

At(t, label) == call[t].pc = label

\* Thread t takes its next step from there: the process has not been terminated.
Runs(t, label) == At(t, label) /\ ~terminated

\* The callers' side of the contract: a handle is not an atomic object, so no
\* thread runs a member function that writes x while another one uses x.
Exclusive(x) == \A u \in Thread : x # call[u].dst /\ x # call[u].src

Shared(x) ==
  \A u \in Thread : x # call[u].dst /\ (call[u].moving => x # call[u].src)

Begin(t, frame) ==
  /\ Runs(t, "idle")
  /\ call' = [call EXCEPT ![t] = frame]

Goto(t, label) == call' = [call EXCEPT ![t].pc = label]

\* A release has returned: a move assignment goes on, the rest is done.
Return(t) ==
  call' = [call EXCEPT ![t] = IF call[t].moving THEN [call[t] EXCEPT !.pc = "take"]
                              ELSE Idle]

\* std::swap, and std::exchange with nullptr when y is empty.
Swapped(x, y) == [ptr EXCEPT ![x] = ptr[y], ![y] = ptr[x]]

\* The arithmetic of std::size_t wraps.
Plus1(n) == IF n = MaxRefs THEN 0 ELSE n + 1

Minus1(n) == IF n = 0 THEN MaxRefs ELSE n - 1

\* IntrusivePtr::use_count and WeakIntrusivePtr::expired
UseCount(x) == IF ptr[x] = NULL THEN 0 ELSE refs["strong"][ptr[x]]

Expired(x) == ptr[x] = NULL \/ refs["strong"][ptr[x]] = 0

-----------------------------------------------------------------------------
(* make_intrusive *)

\* `new T` has run the base constructor: the control block is {1, 1, this}, and
\* the derived constructor is about to run.  The result will go to x.
BeginConstruct(t, x, o) ==
  /\ Exclusive(x) /\ ptr[x] = NULL
  /\ block[o] = "unused"
  /\ Begin(t, [Idle EXCEPT !.pc = "ctor", !.cb = o, !.dst = x])
  /\ block' = [block EXCEPT ![o] = "live"]
  /\ life' = [life EXCEPT ![o] = "constructing"]
  /\ refs' = [refs EXCEPT !["strong"][o] = 1, !["weak"][o] = 1]
  /\ target' = [target EXCEPT ![o] = o]
  /\ ptr' = [ptr EXCEPT ![o] = o, ![Local("strong", t)] = o]
  /\ UNCHANGED terminated

\* The derived constructor returns: the new handle adopts the first reference.
FinishConstruct(t) ==
  /\ Runs(t, "ctor")
  /\ life' = [life EXCEPT ![call[t].cb] = "alive"]
  /\ Goto(t, "install")
  /\ UNCHANGED <<refs, target, block, ptr, terminated>>

\* Varied: nothing is released for a constructor that throws.
ConstructThrows_Leaks(t) ==
  /\ Runs(t, "ctor")
  /\ life' = [life EXCEPT ![call[t].cb] = "aborted"]
  /\ ptr' = [ptr EXCEPT ![Local("strong", t)] = NULL, ![call[t].cb] = NULL]
  /\ call' = [call EXCEPT ![t] = Idle]
  /\ UNCHANGED <<refs, target, block, terminated>>

\* The derived constructor throws: unwinding runs the base destructor alone.
\* strong_refs stays at 1, and no handle was ever made.
ConstructThrows(t) ==
  LET o == call[t].cb IN
  /\ Runs(t, "ctor")
  /\ life' = [life EXCEPT ![o] = "aborted"]
  /\ ptr' = [ptr EXCEPT ![Local("strong", t)] = NULL,
                        ![o] = NULL, ![Local("weak", t)] = o]
  /\ call' = [call EXCEPT ![t] = [Idle EXCEPT !.pc = "release", !.kind = "weak", !.cb = o]]
  /\ UNCHANGED <<refs, target, block, terminated>>

-----------------------------------------------------------------------------
(* Taking a reference: retain_strong_ref and retain_weak_ref *)

\* y is copied into x: `IntrusivePtr copy{other}; swap(copy)`, or the copy
\* constructor when x is empty.  x = x is the assignment's early return.
Copy(t, k, x, y) ==
  /\ x # y /\ Exclusive(x) /\ Shared(y)
  /\ Begin(t, [Idle EXCEPT !.pc = IF ptr[y] = NULL THEN "install" ELSE "load",
                           !.kind = k, !.cb = ptr[y], !.dst = x, !.src = y])
  /\ UNCHANGED <<refs, target, block, life, ptr, terminated>>

StrongCopy(t, x, y) == Copy(t, "strong", x, y)

WeakCopy(t, x, y) == Copy(t, "weak", x, y)

\* Varied: the new weak handle is made without retain_weak_ref.
WeakFromStrong_NoRetain(t, x, y) ==
  /\ ptr[x] = NULL /\ ptr[y] # NULL
  /\ Exclusive(x) /\ Shared(y) /\ Runs(t, "idle")
  /\ ptr' = [ptr EXCEPT ![x] = ptr[y]]
  /\ UNCHANGED <<refs, target, block, life, call, terminated>>

\* WeakIntrusivePtr{strong}: the control block comes from the live target.
WeakFromStrong(t, x, y) ==
  /\ ptr[x] = NULL /\ ptr[y] # NULL
  /\ Exclusive(x) /\ Shared(y)
  /\ Begin(t, [Idle EXCEPT !.pc = "load", !.kind = "weak",
                           !.cb = ptr[y], !.dst = x, !.src = y])
  /\ UNCHANGED <<refs, target, block, life, ptr, terminated>>

Load(t) ==
  LET f == call[t] IN
  /\ Runs(t, "load")
  /\ call' = [call EXCEPT ![t].pc = "cas", ![t].seen = refs[f.kind][f.cb]]
  /\ UNCHANGED <<refs, target, block, life, ptr, terminated>>

Terminate(t) ==
  /\ Runs(t, "cas") /\ call[t].seen = MaxRefs
  /\ terminated' = TRUE
  /\ UNCHANGED <<refs, target, block, life, ptr, call>>

\* Varied: a plain store in place of the compare-exchange.
CasSucceeds_Stores(t) ==
  LET f == call[t] IN
  /\ Runs(t, "cas") /\ f.seen # MaxRefs
  /\ refs' = [refs EXCEPT ![f.kind][f.cb] = f.seen + 1]
  /\ ptr' = [ptr EXCEPT ![Local(f.kind, t)] = f.cb]
  /\ Goto(t, "install")
  /\ UNCHANGED <<target, block, life, terminated>>

\* Varied: the limit is tested for strong counts only, on a count that wraps.
CasSucceeds_Wraps(t) ==
  LET f == call[t] IN
  /\ Runs(t, "cas") /\ (f.kind = "strong" => f.seen # MaxRefs)
  /\ refs[f.kind][f.cb] = f.seen
  /\ refs' = [refs EXCEPT ![f.kind][f.cb] = Plus1(f.seen)]
  /\ ptr' = [ptr EXCEPT ![Local(f.kind, t)] = f.cb]
  /\ Goto(t, "install")
  /\ UNCHANGED <<target, block, life, terminated>>

CasSucceeds(t) ==
  LET f == call[t] IN
  /\ Runs(t, "cas") /\ f.seen # MaxRefs
  /\ refs[f.kind][f.cb] = f.seen
  /\ refs' = [refs EXCEPT ![f.kind][f.cb] = f.seen + 1]
  /\ ptr' = [ptr EXCEPT ![Local(f.kind, t)] = f.cb]
  /\ Goto(t, "install")
  /\ UNCHANGED <<target, block, life, terminated>>

\* Varied: the failed exchange leaves `current` as it was.
CasFails_KeepsCurrent(t) ==
  /\ Runs(t, "cas") /\ UNCHANGED vars

\* The failed exchange reloads `current`.  A spurious failure reloads the value
\* it already had and is a stuttering step.
CasFails(t) ==
  LET f == call[t] IN
  /\ Runs(t, "cas") /\ f.seen # MaxRefs
  /\ refs[f.kind][f.cb] # f.seen
  /\ call' = [call EXCEPT ![t].seen = refs[f.kind][f.cb]]
  /\ UNCHANGED <<refs, target, block, life, ptr, terminated>>

\* The new value goes into the destination, whose old one is then released.
Install(t) ==
  LET f == call[t]
      old == ptr[f.dst] IN
  /\ Runs(t, "install")
  /\ ptr' = Swapped(f.dst, Local(f.kind, t))
  /\ IF old = NULL THEN Return(t)
     ELSE call' = [call EXCEPT ![t].pc = "release", ![t].cb = old]
  /\ UNCHANGED <<refs, target, block, life, terminated>>

-----------------------------------------------------------------------------
(* WeakIntrusivePtr::lock: try_retain_strong_ref, then the target *)

\* An empty weak handle answers {} and changes nothing.
Lock(t, x, y) ==
  /\ ptr[x] = NULL /\ ptr[y] # NULL
  /\ Exclusive(x) /\ Shared(y)
  /\ Begin(t, [Idle EXCEPT !.pc = "lock_load", !.cb = ptr[y], !.dst = x, !.src = y])
  /\ UNCHANGED <<refs, target, block, life, ptr, terminated>>

\* Varied: the loop runs at least once.
LockSees_NoTest(t, count) ==
  call' = [call EXCEPT ![t].pc = "lock_cas", ![t].seen = count]

\* The loop's test: no strong reference is left, lock() answers {}.
LockSees(t, count) ==
  call' = [call EXCEPT ![t] = IF count = 0 THEN Idle
                              ELSE [call[t] EXCEPT !.pc = "lock_cas", !.seen = count]]

LockLoad(t) ==
  /\ Runs(t, "lock_load")
  /\ LockSees(t, refs["strong"][call[t].cb])
  /\ UNCHANGED <<refs, target, block, life, ptr, terminated>>

\* Varied: the count is incremented whatever it has become since it was read.
LockCasSucceeds_Adds(t) ==
  LET o == call[t].cb IN
  /\ Runs(t, "lock_cas")
  /\ refs' = [refs EXCEPT !["strong"][o] = Plus1(@)]
  /\ ptr' = [ptr EXCEPT ![Local("strong", t)] = o]
  /\ Goto(t, "lock_target")
  /\ UNCHANGED <<target, block, life, terminated>>

LockCasSucceeds(t) ==
  LET f == call[t] IN
  /\ Runs(t, "lock_cas")
  /\ refs["strong"][f.cb] = f.seen
  /\ refs' = [refs EXCEPT !["strong"][f.cb] = Plus1(f.seen)]
  /\ ptr' = [ptr EXCEPT ![Local("strong", t)] = f.cb]
  /\ Goto(t, "lock_target")
  /\ UNCHANGED <<target, block, life, terminated>>

LockCasFails(t) ==
  LET f == call[t] IN
  /\ Runs(t, "lock_cas")
  /\ refs["strong"][f.cb] # f.seen
  /\ LockSees(t, refs["strong"][f.cb])
  /\ UNCHANGED <<refs, target, block, life, ptr, terminated>>

\* The returned handle adopts the reference and holds what target says.
LockTarget(t) ==
  /\ Runs(t, "lock_target")
  /\ ptr' = [ptr EXCEPT ![Local("strong", t)] = target[call[t].cb]]
  /\ Goto(t, "install")
  /\ UNCHANGED <<refs, target, block, life, terminated>>

-----------------------------------------------------------------------------
(* Giving up a reference *)

\* reset() and the destructor of a handle that is not empty.
Reset(t, k, x) ==
  /\ ptr[x] # NULL /\ Exclusive(x)
  /\ ptr' = Swapped(x, Local(k, t))
  /\ Begin(t, [Idle EXCEPT !.pc = "release", !.kind = k, !.cb = ptr[x], !.dst = x])
  /\ UNCHANGED <<refs, target, block, life, terminated>>

StrongReset(t, x) == Reset(t, "strong", x)

WeakReset(t, x) == Reset(t, "weak", x)

Release(t) ==
  LET f == call[t]
      last == IF f.kind = "strong" THEN "exchange" ELSE "free" IN
  /\ Runs(t, "release")
  /\ refs' = [refs EXCEPT ![f.kind][f.cb] = Minus1(@)]
  /\ ptr' = [ptr EXCEPT ![Local(f.kind, t)] = NULL]
  /\ IF refs[f.kind][f.cb] = 1 THEN Goto(t, last) ELSE Return(t)
  /\ UNCHANGED <<target, block, life, terminated>>

\* `delete target` starts the derived destructor; deleting nullptr does nothing.
ExchangeTarget(t) ==
  LET o == call[t].cb IN
  /\ Runs(t, "exchange")
  /\ target' = [target EXCEPT ![o] = NULL]
  /\ IF target[o] = NULL THEN Return(t) /\ UNCHANGED life
     ELSE Goto(t, "destroy") /\ life' = [life EXCEPT ![target[o]] = "destroying"]
  /\ UNCHANGED <<refs, block, ptr, terminated>>

\* The derived destructor is done, and ~IntrusivePtrTarget releases the
\* implicit weak reference.
DestroyBase(t) ==
  LET o == call[t].cb IN
  /\ Runs(t, "destroy")
  /\ life' = [life EXCEPT ![o] = "destroyed"]
  /\ ptr' = Swapped(o, Local("weak", t))
  /\ call' = [call EXCEPT ![t].pc = "release", ![t].kind = "weak"]
  /\ UNCHANGED <<refs, target, block, terminated>>

FreeBlock(t) ==
  /\ Runs(t, "free")
  /\ block' = [block EXCEPT ![call[t].cb] = "freed"]
  /\ Return(t)
  /\ UNCHANGED <<refs, target, life, ptr, terminated>>

-----------------------------------------------------------------------------
(* Moving references between handles: no count changes *)

\* The move constructor: x is new.
MoveConstruct(t, x, y) ==
  /\ x # y /\ ptr[x] = NULL /\ Exclusive(x) /\ Exclusive(y) /\ Runs(t, "idle")
  /\ ptr' = Swapped(x, y)
  /\ UNCHANGED <<refs, target, block, life, call, terminated>>

StrongMoveConstruct(t, x, y) == MoveConstruct(t, x, y)

WeakMoveConstruct(t, x, y) == MoveConstruct(t, x, y)

Swap(t, x, y) ==
  /\ Exclusive(x) /\ Exclusive(y) /\ Runs(t, "idle")
  /\ ptr' = Swapped(x, y)
  /\ UNCHANGED <<refs, target, block, life, call, terminated>>

StrongSwap(t, x, y) == Swap(t, x, y)

WeakSwap(t, x, y) == Swap(t, x, y)

\* x = std::move(y): reset(), then take y's reference.
MoveAssign(t, k, x, y) ==
  /\ x # y /\ Exclusive(x) /\ Exclusive(y)
  /\ ptr' = Swapped(x, Local(k, t))
  /\ Begin(t, [Idle EXCEPT !.pc = IF ptr[x] = NULL THEN "take" ELSE "release",
                           !.kind = k, !.cb = ptr[x], !.dst = x, !.src = y,
                           !.moving = TRUE])
  /\ UNCHANGED <<refs, target, block, life, terminated>>

StrongMoveAssign(t, x, y) == MoveAssign(t, "strong", x, y)

WeakMoveAssign(t, x, y) == MoveAssign(t, "weak", x, y)

\* Varied: the source of the move keeps its reference.
Take_Copies(t) ==
  LET f == call[t] IN
  /\ Runs(t, "take")
  /\ ptr' = [ptr EXCEPT ![f.dst] = ptr[f.src]]
  /\ call' = [call EXCEPT ![t] = Idle]
  /\ UNCHANGED <<refs, target, block, life, terminated>>

Take(t) ==
  LET f == call[t] IN
  /\ Runs(t, "take")
  /\ ptr' = [ptr EXCEPT ![f.dst] = ptr[f.src], ![f.src] = NULL]
  /\ call' = [call EXCEPT ![t] = Idle]
  /\ UNCHANGED <<refs, target, block, life, terminated>>

-----------------------------------------------------------------------------
\* A thread calls a member function ...
Call(t) ==
  \/ \E x \in StrongHandle, o \in Object : BeginConstruct(t, x, o)
  \/ \E x, y \in StrongHandle :
       \/ StrongCopy(t, x, y) \/ StrongMoveConstruct(t, x, y)
       \/ StrongSwap(t, x, y) \/ StrongMoveAssign(t, x, y)
  \/ \E x, y \in WeakHandle :
       \/ WeakCopy(t, x, y) \/ WeakMoveConstruct(t, x, y)
       \/ WeakSwap(t, x, y) \/ WeakMoveAssign(t, x, y)
  \/ \E x \in WeakHandle, y \in StrongHandle : WeakFromStrong(t, x, y) \/ Lock(t, y, x)
  \/ \E x \in StrongHandle : StrongReset(t, x)
  \/ \E x \in WeakHandle : WeakReset(t, x)

\* ... and takes the next step of the one it is running.
Step(t) ==
  \/ FinishConstruct(t) \/ ConstructThrows(t)
  \/ Load(t) \/ Terminate(t) \/ CasSucceeds(t) \/ CasFails(t) \/ Install(t)
  \/ LockLoad(t) \/ LockCasSucceeds(t) \/ LockCasFails(t) \/ LockTarget(t)
  \/ Release(t) \/ ExchangeTarget(t) \/ DestroyBase(t) \/ FreeBlock(t) \/ Take(t)

Next == \E t \in Thread : Call(t) \/ Step(t)

Spec == Init /\ [][Next]_vars

\* A thread inside a member function is scheduled again.  Nothing obliges a
\* thread to call one.
FairSpec == Spec /\ \A t \in Thread : WF_vars(Step(t))
-----------------------------------------------------------------------------
(* What the reference counting promises. *)

Quiescent == \A t \in Thread : At(t, "idle")

Owners(k, o) == {x \in Holder(k) : ptr[x] = o}

\* A non-null IntrusivePtr can always be dereferenced: its target is neither
\* destroyed nor being destroyed, whatever the other threads are doing.
NoDanglingHandle ==
  \A x \in StrongHandle : ptr[x] # NULL =>
    /\ life[ptr[x]] = "alive"
    /\ target[ptr[x]] = ptr[x]
    /\ block[ptr[x]] = "live"

\* No step of a member function touches a control block that has been deleted,
\* and every weak handle still has its control block to ask.
NoUseAfterFree ==
  /\ \A t \in Thread :
       call[t].pc \in Label \ {"idle", "install", "take"} => block[call[t].cb] = "live"
  /\ \A w \in WeakHandle : ptr[w] # NULL => block[ptr[w]] = "live"

\* use_count() through a handle is the number of references there are, those
\* that running calls hold included, and expired() says there are none.
UseCountExact ==
  /\ \A x \in StrongHandle :
       ptr[x] # NULL => UseCount(x) = Cardinality(Owners("strong", ptr[x]))
  /\ \A w \in WeakHandle :
       ptr[w] # NULL /\ life[ptr[w]] # "aborted" =>
         (Expired(w) <=> Owners("strong", ptr[w]) = {})

\* When no call is running, a target is alive exactly while a strong handle
\* refers to it and its control block allocated exactly while any handle does:
\* nothing is leaked, not by a constructor that throws either.
NoLeak ==
  Quiescent => \A o \in Object : block[o] # "unused" =>
    /\ life[o] = "alive" <=> \E x \in StrongHandle : ptr[x] = o
    /\ block[o] = "live" <=> \E x \in StrongHandle \cup WeakHandle : ptr[x] = o

\* lock() hands out a reference only to a target that is there: the pointer it
\* reads after taking the reference is not the null that destruction leaves.
LockFindsTarget ==
  \A t \in Thread : At(t, "lock_target") =>
    target[call[t].cb] # NULL /\ life[call[t].cb] = "alive"

\* The destructor of a target starts once, and only when no strong handle and
\* no running call refers to the target.
DestructorRunsOnce ==
  [][\A o \in Object : life'[o] = "destroying" /\ life[o] # "destroying" =>
       life[o] = "alive" /\ Owners("strong", o) = {}]_vars

\* Expired is final: no call brings a target's strong count back from zero.
NoResurrection ==
  [][\A o \in Object : block[o] # "unused" /\ refs["strong"][o] = 0 =>
       refs'["strong"][o] = 0]_vars

\* A reference count never wraps: std::terminate comes first.
NoWrap ==
  [][\A k \in Kind, o \in Object :
        refs'[k][o] \in {refs[k][o] - 1, refs[k][o], refs[k][o] + 1}]_vars

\* The retry loops are lock-free: a thread stays in one for ever only if other
\* threads keep changing the counts.
Looping(t) == call[t].pc \in {"load", "cas", "lock_load", "lock_cas"}

LockFree ==
  \A t \in Thread : []<>~Looping(t) \/ []<><<TRUE>>_refs \/ <>terminated

\* The handles implement shared ownership, destruction and reclamation included.
\* A target is not there for its users before its constructor has returned.
Built(o) == life[o] \notin {"none", "constructing", "aborted"}

Visible(x) == IF ptr[x] # NULL /\ Built(ptr[x]) THEN ptr[x] ELSE NULL

StageOf(o) ==
  IF ~Built(o) THEN "none"
  ELSE IF block[o] = "freed" THEN "reclaimed"
  ELSE IF life[o] = "destroyed" THEN "dead" ELSE "live"

Shared_ == INSTANCE SharedOwnership WITH
  Owner <- StrongHolder,
  Watcher <- WeakHandle \cup Locals("weak"),
  own <- [x \in StrongHolder |-> Visible(x)],
  watch <- [w \in WeakHandle \cup Locals("weak") |-> Visible(w)],
  stage <- [o \in Object |-> StageOf(o)]

ImplementsSharedOwnership == Shared_!SharedFairSpec
=============================================================================
