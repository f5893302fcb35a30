-------------------------- MODULE IntrusivePtrInv ---------------------------
(***************************************************************************)
(* The inductive invariant of IntrusivePtr, in named parts: what makes the *)
(* reference counts exact and every access safe, stated so that each step  *)
(* of the code preserves it.                                               *)
(***************************************************************************)
EXTENDS IntrusivePtr

\* What a running member function was given, wherever it is.
FrameShape(f) ==
  /\ f.pc = "idle" => f = Idle
  /\ f.pc \notin {"idle", "install", "take"} => f.cb \in Object
  /\ f.pc \in {"ctor", "load", "cas", "lock_load", "lock_cas", "lock_target", "install"} =>
       f.dst \in Handle(f.kind) /\ ~f.moving
  /\ f.pc \in {"load", "cas"} =>
       f.src \in StrongHandle \cup (IF f.kind = "weak" THEN WeakHandle ELSE {})
  /\ f.pc \in {"ctor", "lock_load", "lock_cas", "lock_target", "exchange", "destroy"} =>
       f.kind = "strong"
  /\ f.pc \in {"lock_load", "lock_cas", "lock_target"} => f.src \in WeakHandle
  /\ f.pc = "lock_cas" => f.seen # 0
  /\ f.pc = "take" => f.moving
  /\ f.moving =>
       /\ \E k \in Kind : f.dst \in Handle(k) /\ f.src \in Handle(k)
       /\ f.pc # "idle"
  /\ f.dst # NULL => f.dst # f.src

ShapeInv == \A t \in Thread : FrameShape(call[t])

\* Every count is the number of holders.  A target whose constructor threw
\* keeps a strong count of 1 that nobody owns.
CountInv ==
  \A o \in Object :
    /\ refs["weak"][o] = Cardinality(Owners("weak", o))
    /\ life[o] # "aborted" => refs["strong"][o] = Cardinality(Owners("strong", o))

\* What it takes to be referred to: by a strong holder, by a handle, by a call
\* that constructs, and by a weak one.
StrongOwnerInv ==
  \A x \in StrongHolder : ptr[x] # NULL =>
    \/ life[ptr[x]] = "alive"
    \/ /\ life[ptr[x]] = "constructing"
       /\ \E t \in Thread : x = Local("strong", t) /\ At(t, "ctor") /\ call[t].cb = ptr[x]

WeakOwnerInv ==
  /\ \A x \in WeakHolder : ptr[x] # NULL => block[ptr[x]] = "live"
  /\ \A x \in WeakHandle : ptr[x] # NULL =>
       life[ptr[x]] \in {"alive", "destroying", "destroyed"}

\* What each stage of a target's life says of its control block.
ObjectInv ==
  \A o \in Object :
    /\ ptr[o] = IF life[o] \in {"constructing", "alive", "destroying"} THEN o ELSE NULL
    /\ target[o] = IF life[o] \in {"constructing", "alive", "aborted"} THEN o ELSE NULL
    /\ block[o] = "unused" <=> life[o] = "none"
    /\ block[o] = "freed" => life[o] \in {"destroyed", "aborted"}

\* The references a call's locals carry.
NoLocals(t) == \A k \in Kind : ptr[Local(k, t)] = NULL

OnlyLocal(t, k, o) ==
  /\ ptr[Local(k, t)] = o
  /\ \A j \in Kind \ {k} : ptr[Local(j, t)] = NULL

Carries(t) ==
  LET f == call[t] IN
  IF f.pc \in {"ctor", "lock_target", "release"} THEN OnlyLocal(t, f.kind, f.cb)
  ELSE IF f.pc = "install" THEN OnlyLocal(t, f.kind, ptr[Local(f.kind, t)])
  ELSE NoLocals(t)

LocalInv == \A t \in Thread : Carries(t)

\* What a call may rely on about the handle it reads and the handle it moves to.
SourceInv ==
  \A t \in Thread :
    /\ call[t].pc \in {"load", "cas", "lock_load", "lock_cas", "lock_target"} =>
         ptr[call[t].src] = call[t].cb
    /\ call[t].moving => ptr[call[t].dst] = NULL

\* What a call may rely on about its control block and target.
StageInv ==
  \A t \in Thread :
    LET f == call[t] IN
    /\ At(t, "ctor") => life[f.cb] = "constructing"
    /\ At(t, "install") /\ f.kind = "weak" /\ ptr[Local("weak", t)] # NULL =>
         life[ptr[Local("weak", t)]] \in {"alive", "destroying", "destroyed"}
    /\ At(t, "exchange") => life[f.cb] = "alive" /\ refs["strong"][f.cb] = 0
    /\ At(t, "destroy") => life[f.cb] = "destroying"
    /\ At(t, "free") => block[f.cb] = "live" /\ refs["weak"][f.cb] = 0

\* No two calls conflict over a handle.
RaceInv ==
  \A t, u \in Thread : t # u =>
    /\ call[t].dst # NULL => call[t].dst # call[u].dst /\ call[t].dst # call[u].src
    /\ call[t].moving => call[t].src # call[u].src

\* At most one call constructs, destroys or deletes a given object or block.
UniqueInv ==
  \A t, u \in Thread : t # u /\ call[t].cb = call[u].cb =>
    /\ ~(At(t, "ctor") /\ At(u, "ctor"))
    /\ ~(call[t].pc \in {"exchange", "destroy"} /\ call[u].pc \in {"exchange", "destroy"})
    /\ ~(At(t, "free") /\ At(u, "free"))

\* What a count of zero or an unfinished stage obliges is being done.
DrainInv ==
  \A o \in Object :
    /\ life[o] = "constructing" => \E t \in Thread : At(t, "ctor") /\ call[t].cb = o
    /\ life[o] = "alive" /\ refs["strong"][o] = 0 =>
         \E t \in Thread : At(t, "exchange") /\ call[t].cb = o
    /\ life[o] = "destroying" => \E t \in Thread : At(t, "destroy") /\ call[t].cb = o
    /\ block[o] = "live" /\ refs["weak"][o] = 0 =>
         \E t \in Thread : At(t, "free") /\ call[t].cb = o

IInv ==
  /\ TypeOK /\ ShapeInv
  /\ CountInv /\ StrongOwnerInv /\ WeakOwnerInv /\ ObjectInv
  /\ LocalInv /\ SourceInv /\ StageInv
  /\ RaceInv /\ UniqueInv /\ DrainInv
=============================================================================
