--------------------------- MODULE DefaultRegistry ---------------------------
(***************************************************************************)
(* default_runtime_registry() of backend/cpu/runtime.cc: the registry of   *)
(* RuntimeRegistry as a function-local static that the first caller fills  *)
(* with the CPU runtime, under the guard the compiler puts around a static *)
(* initialization.  A thread reaches the registry only through it.         *)
(***************************************************************************)
EXTENDS RuntimeRegistry

CONSTANTS
  Builtin,  \* the CpuRuntime that register_cpu_runtime makes
  Cpu       \* DeviceType::kCPU

ASSUME BuiltinAssumption ==
  /\ Builtin \in Runtime /\ Cpu \in DeviceType /\ TypeOf[Builtin] = Cpu
  /\ Thread \cap {"unset", "set"} = {}

VARIABLES
  guard,           \* the guard of `initialization`, or the thread that has it
  initialization,  \* the Status that is kept, and never looked at
  entry            \* entry[t]: how far t has got in default_runtime_registry()

ivars == <<guard, initialization, entry>>

Entry == {"out", "waiting", "make", "registering", "in"}

DefaultTypeOK ==
  /\ TypeOK
  /\ guard \in {"unset", "set"} \cup Thread
  /\ initialization \in Code \cup Runtime \cup {NULL}
  /\ entry \in [Thread -> Entry]

DefaultInit ==
  /\ Init
  /\ guard = "unset" /\ initialization = NULL
  /\ entry = [t \in Thread |-> "out"]

-----------------------------------------------------------------------------
Goes(t, where) == entry' = [entry EXCEPT ![t] = where]

Enter(t) ==
  /\ entry[t] = "out"
  /\ Goes(t, "waiting")
  /\ UNCHANGED <<rvars, guard, initialization>>

\* Varied: who comes while another thread initializes goes on.
PassGuard_Unsafe(t) ==
  /\ entry[t] = "waiting"
  /\ IF guard = "unset" THEN guard' = t /\ Goes(t, "make")
     ELSE Goes(t, "in") /\ UNCHANGED guard
  /\ UNCHANGED <<rvars, initialization>>

\* One thread initializes, and the others wait for it.
PassGuard(t) ==
  /\ entry[t] = "waiting" /\ guard \in {"unset", "set"}
  /\ IF guard = "unset" THEN guard' = t /\ Goes(t, "make")
     ELSE Goes(t, "in") /\ UNCHANGED guard
  /\ UNCHANGED <<rvars, initialization>>

\* std::make_shared<CpuRuntime>(), whose result register_runtime is given.
MakeRuntime(t) ==
  /\ entry[t] = "make"
  /\ BeginRegister(t, Builtin)
  /\ Goes(t, "registering")
  /\ UNCHANGED <<guard, initialization>>

\* Varied: the guard is not given back ...
GivesUp_KeepsGuard(t) == Goes(t, "out") /\ UNCHANGED <<guard, initialization>>

\* ... or the attempt that failed counts.
GivesUp_Sets(t) == guard' = "set" /\ Goes(t, "out") /\ UNCHANGED initialization

\* An exception leaves the initialization undone, for the next caller to retry.
GivesUp(t) == guard' = "unset" /\ Goes(t, "out") /\ UNCHANGED initialization

MakeThrows(t) == entry[t] = "make" /\ GivesUp(t) /\ UNCHANGED rvars

RegisterThrows(t) ==
  /\ entry[t] = "registering" /\ call[t].reply = "bad_alloc"
  /\ Return(t) /\ GivesUp(t)

\* The Status initializes the static, whatever it says.
Initialized(t) ==
  /\ entry[t] = "registering" /\ call[t].reply # "bad_alloc"
  /\ Return(t)
  /\ initialization' = call[t].reply
  /\ guard' = "set" /\ Goes(t, "in")

-----------------------------------------------------------------------------
\* The steps of the registry's member functions, for whoever calls them.
Registering(t) ==
  /\ entry[t] = "registering" /\ ~At(t, "return")
  /\ Step(t) /\ UNCHANGED ivars

Use(t) == entry[t] = "in" /\ Step(t) /\ UNCHANGED ivars

\* What a program does with the registry it has been given.
UserCall(t) ==
  /\ entry[t] = "in"
  /\ \/ \E r \in Runtime \ {Builtin} : BeginRegister(t, r)
     \/ \E d \in DeviceType : BeginGet(t, d)
  /\ UNCHANGED ivars

DefaultStep(t) ==
  \/ PassGuard(t) \/ MakeRuntime(t) \/ MakeThrows(t) \/ Registering(t)
  \/ RegisterThrows(t) \/ Initialized(t) \/ Use(t)

DefaultNext == \E t \in Thread : Enter(t) \/ UserCall(t) \/ DefaultStep(t)

DefaultSpec == DefaultInit /\ [][DefaultNext]_<<rvars, ivars>>

\* A thread inside a function goes on whenever it can.
DefaultFairSpec == DefaultSpec /\ \A t \in Thread : WF_<<rvars, ivars>>(DefaultStep(t))

-----------------------------------------------------------------------------
(* The inductive invariant. *)

\* Only a thread that has the guard, or the registry, is inside the registry.
EntryInv ==
  /\ \A t \in Thread : entry[t] \notin {"registering", "in"} => call[t] = Idle
  /\ \A t \in Thread : entry[t] \in {"make", "registering"} <=> guard = t
  /\ \A t \in Thread : entry[t] = "in" => guard = "set"

\* The built-in runtime is there once the guard is set, and nothing is before.
BuiltinInv ==
  /\ guard = "set" => runtimes[Cpu] = Builtin
  /\ guard = "unset" => runtimes[Cpu] = NULL
  /\ \A t \in Thread : entry[t] = "make" => runtimes[Cpu] = NULL
  /\ \A t \in Thread : entry[t] = "registering" =>
       LET f == call[t] IN
       /\ ~At(t, "idle") /\ f.op = "register" /\ f.arg = Builtin
       /\ At(t, "return") => f.reply \in {"ok", "bad_alloc"}
       /\ runtimes[Cpu] = IF At(t, "return") /\ f.reply = "ok" THEN Builtin ELSE NULL

DefaultInv == DefaultTypeOK /\ IInv /\ EntryInv /\ BuiltinInv

-----------------------------------------------------------------------------
\* The Status that is discarded is never an error, however often initialization
\* was retried and whatever waits to register runtimes of its own.
NothingDiscarded == initialization \in {NULL, "ok"}

\* Who has the default registry finds the built-in CPU runtime in it, and nobody
\* can put another in its place.
CpuAlwaysThere ==
  \A t \in Thread :
    entry[t] = "in" /\ At(t, "return") =>
      LET f == call[t] IN
      /\ f.op = "get" /\ f.arg = Cpu => f.reply = Builtin
      /\ f.op = "register" /\ TypeIn(f) = Cpu => f.reply \in {"AlreadyExists", "bad_alloc"}

\* No thread initializes for ever: the guard is given back, in success or in
\* failure.
InitializationEnds == \A t \in Thread : guard = t ~> guard # t
=============================================================================
