--------------------------- MODULE RuntimeRegistry ---------------------------
(***************************************************************************)
(* runtime/registry.cc: a table from device types to runtimes behind a     *)
(* std::shared_mutex, used by several threads.  Taking the mutex, looking  *)
(* the type up and changing the hash table are steps of their own; a       *)
(* reader that runs while the table is being changed would be a data race. *)
(***************************************************************************)
EXTENDS Naturals

CONSTANTS
  Thread,
  Runtime,      \* the runtimes somebody may register
  DeviceType,   \* the valid device types
  InvalidType,  \* static_cast<DeviceType>(255)
  TypeOf,       \* TypeOf[r]: what r's device_type() reports
  NULL          \* nullptr, and no answer yet

Code == {"ok", "InvalidArgument", "AlreadyExists", "Unavailable", "bad_alloc"}

ASSUME RegistryAssumption ==
  /\ TypeOf \in [Runtime -> DeviceType \cup {InvalidType}]
  /\ InvalidType \notin DeviceType
  /\ NULL \notin Runtime \cup DeviceType \cup Code \cup {InvalidType}
  /\ Runtime \cap Code = {}
  /\ NULL \notin [op : {"register", "get"},
                 arg : Runtime \cup DeviceType \cup {InvalidType, NULL}]

VARIABLES
  runtimes,   \* runtimes[d]: the entry for device type d
  holds,      \* holds[t]: how t holds mutex_
  call        \* call[t]: the member function t is running

rvars == <<runtimes, holds, call>>

Label == {"idle", "validate", "lock", "contains", "emplace", "find", "return"}

Frame == [pc : Label, op : {"register", "get"},
          arg : Runtime \cup DeviceType \cup {InvalidType, NULL},
          reply : Code \cup Runtime \cup {NULL}]

Idle == [pc |-> "idle", op |-> "get", arg |-> NULL, reply |-> NULL]

TypeOK ==
  /\ runtimes \in [DeviceType -> Runtime \cup {NULL}]
  /\ holds \in [Thread -> {"none", "shared", "exclusive"}]
  /\ call \in [Thread -> Frame]

Init ==
  /\ runtimes = [d \in DeviceType |-> NULL]
  /\ holds = [t \in Thread |-> "none"]
  /\ call = [t \in Thread |-> Idle]

-----------------------------------------------------------------------------
At(t, label) == call[t].pc = label

Goto(t, label) == call' = [call EXCEPT ![t].pc = label]

\* The device type a call is about, none for a null runtime.
TypeIn(f) ==
  IF f.op = "get" THEN f.arg ELSE IF f.arg = NULL THEN NULL ELSE TypeOf[f.arg]

\* The function returns, or throws, and its lock guard lets go of mutex_.
Returns(t, r) ==
  /\ call' = [call EXCEPT ![t].pc = "return", ![t].reply = r]
  /\ holds' = [holds EXCEPT ![t] = "none"]

BeginRegister(t, r) ==
  /\ At(t, "idle")
  /\ call' = [call EXCEPT ![t] = [Idle EXCEPT !.pc = "validate", !.op = "register", !.arg = r]]
  /\ UNCHANGED <<runtimes, holds>>

BeginGet(t, d) ==
  /\ At(t, "idle")
  /\ call' = [call EXCEPT ![t] = [Idle EXCEPT !.pc = "validate", !.op = "get", !.arg = d]]
  /\ UNCHANGED <<runtimes, holds>>

\* The checks that need no lock.
Validate(t) ==
  /\ At(t, "validate")
  /\ IF TypeIn(call[t]) \in DeviceType THEN Goto(t, "lock") /\ UNCHANGED holds
     ELSE Returns(t, "InvalidArgument")
  /\ UNCHANGED runtimes

\* Varied: registration takes the mutex as a reader does.
LockExclusive_Shared(t) ==
  /\ At(t, "lock") /\ call[t].op = "register"
  /\ \A u \in Thread : holds[u] # "exclusive"
  /\ holds' = [holds EXCEPT ![t] = "shared"]
  /\ Goto(t, "contains")
  /\ UNCHANGED runtimes

\* std::unique_lock
LockExclusive(t) ==
  /\ At(t, "lock") /\ call[t].op = "register"
  /\ \A u \in Thread : holds[u] = "none"
  /\ holds' = [holds EXCEPT ![t] = "exclusive"]
  /\ Goto(t, "contains")
  /\ UNCHANGED runtimes

\* Varied: lookups do not take the mutex.
LockShared_None(t) ==
  /\ At(t, "lock") /\ call[t].op = "get"
  /\ Goto(t, "find")
  /\ UNCHANGED <<runtimes, holds>>

\* std::shared_lock
LockShared(t) ==
  /\ At(t, "lock") /\ call[t].op = "get"
  /\ \A u \in Thread : holds[u] # "exclusive"
  /\ holds' = [holds EXCEPT ![t] = "shared"]
  /\ Goto(t, "find")
  /\ UNCHANGED runtimes

\* Varied: the early return keeps the mutex locked.
Contains_KeepsLock(t) ==
  /\ At(t, "contains")
  /\ IF runtimes[TypeIn(call[t])] # NULL
     THEN /\ call' = [call EXCEPT ![t].pc = "return", ![t].reply = "AlreadyExists"]
          /\ UNCHANGED holds
     ELSE Goto(t, "emplace") /\ UNCHANGED holds
  /\ UNCHANGED runtimes

Contains(t) ==
  /\ At(t, "contains")
  /\ IF runtimes[TypeIn(call[t])] # NULL THEN Returns(t, "AlreadyExists")
     ELSE Goto(t, "emplace") /\ UNCHANGED holds
  /\ UNCHANGED runtimes

\* The table has been changed, and was in pieces until now.
Emplace(t) ==
  /\ At(t, "emplace")
  /\ runtimes' = [runtimes EXCEPT ![TypeIn(call[t])] = call[t].arg]
  /\ Returns(t, "ok")

\* Memory runs out for a node, for the table or for an error's message: emplace
\* undoes what it did, and the lock guard's destructor runs.
Throws(t) ==
  LET d == TypeIn(call[t]) IN
  /\ \/ At(t, "validate") /\ d \notin DeviceType
     \/ At(t, "contains") /\ runtimes[d] # NULL
     \/ At(t, "emplace")
     \/ At(t, "find") /\ runtimes[d] = NULL
  /\ Returns(t, "bad_alloc")
  /\ UNCHANGED runtimes

\* The entry, as a copy of the shared_ptr made under the lock.
Find(t) ==
  LET found == runtimes[call[t].arg] IN
  /\ At(t, "find")
  /\ Returns(t, IF found = NULL THEN "Unavailable" ELSE found)
  /\ UNCHANGED runtimes

\* The caller has its answer.
Return(t) ==
  /\ At(t, "return")
  /\ call' = [call EXCEPT ![t] = Idle]
  /\ UNCHANGED <<runtimes, holds>>

-----------------------------------------------------------------------------
Call(t) ==
  \/ \E r \in Runtime \cup {NULL} : BeginRegister(t, r)
  \/ \E d \in DeviceType \cup {InvalidType} : BeginGet(t, d)

Step(t) ==
  \/ Validate(t) \/ LockExclusive(t) \/ LockShared(t) \/ Contains(t)
  \/ Emplace(t) \/ Throws(t) \/ Find(t) \/ Return(t)

Next == \E t \in Thread : Call(t) \/ Step(t)

Spec == Init /\ [][Next]_rvars

\* A thread inside a member function goes on whenever it can.  The standard
\* promises nothing about the order in which waiting threads get a shared_mutex.
FairSpec == Spec /\ \A t \in Thread : WF_rvars(Step(t))

-----------------------------------------------------------------------------
(* The inductive invariant. *)

\* What a running call was given and has answered.
FrameInv ==
  \A t \in Thread :
    LET f == call[t] IN
    /\ f.pc = "idle" => f = Idle
    /\ f.reply # NULL <=> f.pc = "return"
    /\ f.pc # "idle" =>
         f.arg \in IF f.op = "get" THEN DeviceType \cup {InvalidType} ELSE Runtime \cup {NULL}
    /\ f.pc \in {"lock", "contains", "emplace", "find"} => TypeIn(f) \in DeviceType
    /\ f.pc \in {"contains", "emplace"} => f.op = "register"
    /\ f.pc = "find" => f.op = "get"

\* Who holds mutex_, and that a writer holds it alone.
LockInv ==
  /\ \A t \in Thread :
       holds[t] = CASE call[t].pc \in {"contains", "emplace"} -> "exclusive"
                    [] call[t].pc = "find" -> "shared"
                    [] OTHER -> "none"
  /\ \A t, u \in Thread : t # u /\ holds[t] = "exclusive" => holds[u] = "none"

\* The lookup that found no entry is still right when the entry is made.
AbsentInv == \A t \in Thread : At(t, "emplace") => runtimes[TypeIn(call[t])] = NULL

IInv == TypeOK /\ FrameInv /\ LockInv /\ AbsentInv

-----------------------------------------------------------------------------
\* Nobody reads the table, or looks it up to change it, while it is being changed:
\* the hash table has no synchronization but mutex_.
NoTornRead ==
  \A t, u \in Thread :
    t # u /\ At(t, "emplace") => call[u].pc \notin {"contains", "emplace", "find"}

\* A registration is final: the runtime that get() hands out for a device type
\* is never replaced or removed.
StableRegistration ==
  [][\A d \in DeviceType : runtimes[d] # NULL => runtimes'[d] = runtimes[d]]_rvars

\* mutex_ is never left locked: a call that has begun is answered, unless other
\* calls keep being answered instead.
SomeCallReturns ==
  (\E t \in Thread : ~At(t, "idle")) ~> (\E t \in Thread : At(t, "return"))

\* Concurrent calls look as if they ran one after the other.
Atomic == INSTANCE AtomicRegistry WITH
  registered <- runtimes,
  request <- [t \in Thread |-> IF At(t, "idle") THEN NULL
                               ELSE [op |-> call[t].op, arg |-> call[t].arg]],
  reply <- [t \in Thread |-> call[t].reply]

ImplementsAtomicRegistry == Atomic!AtomicSpec
=============================================================================
