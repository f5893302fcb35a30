--------------------------- MODULE RegistryProofs ---------------------------
(***************************************************************************)
(* RuntimeRegistry's calls are atomic and its registrations final, and     *)
(* default_runtime_registry() never discards an error and never hands out  *)
(* a registry without the built-in CPU runtime, for any number of threads, *)
(* runtimes and device types.  What is about RuntimeRegistry alone uses    *)
(* nothing of DefaultRegistry.                                             *)
(***************************************************************************)
EXTENDS DefaultRegistry, TLAPS

-----------------------------------------------------------------------------
(* The invariant. *)

\* The idle frame is well-formed, and so are the frames that calls begin with.
LEMMA FrameFacts ==
  /\ Idle \in Frame
  /\ \A r \in Runtime \cup {NULL} :
       [Idle EXCEPT !.pc = "validate", !.op = "register", !.arg = r] \in Frame
  /\ \A d \in DeviceType \cup {InvalidType} :
       [Idle EXCEPT !.pc = "validate", !.op = "get", !.arg = d] \in Frame
  BY DEF Idle, Frame, Label

\* The registry starts empty and unlocked.
LEMMA InitIInv == Init => IInv
<1> SUFFICES ASSUME Init PROVE IInv
  OBVIOUS
<1>1. TypeOK
  BY FrameFacts DEF Init, TypeOK
<1>2. FrameInv /\ LockInv /\ AbsentInv
  BY DEF Init, FrameInv, LockInv, AbsentInv, At, Idle
<1> QED
  BY <1>1, <1>2 DEF IInv

\* What a step of thread t may do to its own frame and hold, seen from the others:
\* nothing, unless it takes the mutex or changes an entry.
LEMMA FrameStep ==
  ASSUME IInv, NEW t \in Thread, NEW g \in Frame, NEW h \in {"none", "shared", "exclusive"},
         call' = [call EXCEPT ![t] = g], holds' = [holds EXCEPT ![t] = h],
         runtimes' \in [DeviceType -> Runtime \cup {NULL}],
         g.pc = "idle" => g = Idle,
         g.reply # NULL <=> g.pc = "return",
         g.pc # "idle" =>
           g.arg \in IF g.op = "get" THEN DeviceType \cup {InvalidType} ELSE Runtime \cup {NULL},
         g.pc \in {"lock", "contains", "emplace", "find"} => TypeIn(g) \in DeviceType,
         g.pc \in {"contains", "emplace"} => g.op = "register",
         g.pc = "find" => g.op = "get",
         h = CASE g.pc \in {"contains", "emplace"} -> "exclusive"
               [] g.pc = "find" -> "shared" [] OTHER -> "none",
         \A u \in Thread \ {t} :
           /\ h = "exclusive" => holds[u] = "none"
           /\ holds[u] = "exclusive" => h = "none",
         g.pc = "emplace" => runtimes'[TypeIn(g)] = NULL,
         \/ UNCHANGED runtimes
         \/ \A u \in Thread \ {t} : ~At(u, "emplace")
  PROVE  IInv'
<1>1. /\ call'[t] = g /\ \A u \in Thread \ {t} : call'[u] = call[u]
      /\ holds'[t] = h /\ \A u \in Thread \ {t} : holds'[u] = holds[u]
  BY DEF IInv, TypeOK
<1>2. TypeOK'
  BY DEF IInv, TypeOK
<1>3. FrameInv'
  BY <1>1 DEF IInv, FrameInv
<1>4. LockInv'
  BY <1>1 DEF IInv, LockInv
<1>5. AbsentInv'
  BY <1>1 DEF IInv, AbsentInv, At
<1> QED
  BY <1>2, <1>3, <1>4, <1>5 DEF IInv

\* A call that answers holds the mutex no more.
LEMMA ReturnsStep ==
  ASSUME IInv, NEW t \in Thread, NEW r \in Code \cup Runtime, Returns(t, r),
         call[t].pc \notin {"idle", "return"},
         runtimes' \in [DeviceType -> Runtime \cup {NULL}],
         \/ UNCHANGED runtimes
         \/ \A u \in Thread \ {t} : ~At(u, "emplace")
  PROVE  IInv'
<1> DEFINE g == [call[t] EXCEPT !.pc = "return", !.reply = r]
<1>1. /\ call[t] \in Frame
      /\ call[t].arg \in IF call[t].op = "get" THEN DeviceType \cup {InvalidType}
                         ELSE Runtime \cup {NULL}
  BY DEF IInv, TypeOK, FrameInv
<1>2. g \in Frame /\ g.pc = "return" /\ g.reply = r /\ g.arg = call[t].arg /\ g.op = call[t].op
  BY <1>1 DEF Frame, Label
<1>3. call' = [call EXCEPT ![t] = g] /\ holds' = [holds EXCEPT ![t] = "none"]
  BY DEF Returns, IInv, TypeOK
<1>4. r # NULL
  BY RegistryAssumption
<1> HIDE DEF g
<1> QED
  BY <1>1, <1>2, <1>3, <1>4, FrameStep

\* Every call that begins keeps the invariant ...
LEMMA CallIInv ==
  ASSUME IInv, NEW t \in Thread, Call(t)
  PROVE  IInv'
<1>0. holds[t] = "none" /\ holds' = [holds EXCEPT ![t] = "none"] /\ UNCHANGED runtimes
  BY DEF Call, BeginRegister, BeginGet, At, IInv, LockInv, TypeOK
<1>1. ASSUME NEW r \in Runtime \cup {NULL}, BeginRegister(t, r) PROVE IInv'
  <2> DEFINE g == [Idle EXCEPT !.pc = "validate", !.op = "register", !.arg = r]
  <2>1. /\ g \in Frame /\ g.pc = "validate" /\ g.op = "register" /\ g.arg = r
        /\ g.reply = NULL
    BY FrameFacts DEF Idle
  <2>2. call' = [call EXCEPT ![t] = g] /\ runtimes' \in [DeviceType -> Runtime \cup {NULL}]
    BY <1>0, <1>1 DEF BeginRegister, IInv, TypeOK
  <2> HIDE DEF g
  <2> QED
    BY <1>0, <2>1, <2>2, FrameStep
<1>2. ASSUME NEW d \in DeviceType \cup {InvalidType}, BeginGet(t, d) PROVE IInv'
  <2> DEFINE g == [Idle EXCEPT !.pc = "validate", !.op = "get", !.arg = d]
  <2>1. /\ g \in Frame /\ g.pc = "validate" /\ g.op = "get" /\ g.arg = d /\ g.reply = NULL
    BY FrameFacts DEF Idle
  <2>2. call' = [call EXCEPT ![t] = g] /\ runtimes' \in [DeviceType -> Runtime \cup {NULL}]
    BY <1>0, <1>2 DEF BeginGet, IInv, TypeOK
  <2> HIDE DEF g
  <2> QED
    BY <1>0, <2>1, <2>2, FrameStep
<1> QED
  BY <1>1, <1>2 DEF Call

\* ... and so does every step that goes on to another label of the function.
LEMMA GotoIInv ==
  ASSUME IInv, NEW t \in Thread, NEW l \in {"lock", "contains", "emplace", "find"}, Goto(t, l),
         call[t].pc \in {"validate", "lock", "contains"},
         NEW h \in {"none", "shared", "exclusive"}, holds' = [holds EXCEPT ![t] = h],
         h = CASE l \in {"contains", "emplace"} -> "exclusive"
               [] l = "find" -> "shared" [] OTHER -> "none",
         TypeIn(call[t]) \in DeviceType,
         l \in {"contains", "emplace"} => call[t].op = "register",
         l = "find" => call[t].op = "get",
         l = "emplace" => runtimes[TypeIn(call[t])] = NULL,
         \A u \in Thread \ {t} :
           /\ h = "exclusive" => holds[u] = "none"
           /\ holds[u] = "exclusive" => h = "none",
         UNCHANGED runtimes
  PROVE  IInv'
<1> DEFINE g == [call[t] EXCEPT !.pc = l]
<1>1. /\ call[t] \in Frame /\ call[t].reply = NULL
      /\ call[t].arg \in IF call[t].op = "get" THEN DeviceType \cup {InvalidType}
                         ELSE Runtime \cup {NULL}
  BY DEF IInv, TypeOK, FrameInv
<1>2. /\ g \in Frame /\ g.pc = l /\ g.reply = NULL /\ g.arg = call[t].arg
      /\ g.op = call[t].op /\ TypeIn(g) = TypeIn(call[t])
  BY <1>1 DEF Frame, Label, TypeIn
<1>3. call' = [call EXCEPT ![t] = g] /\ runtimes' \in [DeviceType -> Runtime \cup {NULL}]
  BY DEF Goto, IInv, TypeOK
<1> HIDE DEF g
<1> QED
  BY <1>1, <1>2, <1>3, FrameStep

\* Only the thread that emplaces has found no entry, and nobody else looks.
LEMMA EmplacesAlone ==
  ASSUME IInv, NEW t \in Thread, NEW u \in Thread \ {t}, At(t, "emplace")
  PROVE  call[u].pc \notin {"contains", "emplace", "find"}
  BY DEF IInv, LockInv, At

\* A step of a running member function keeps the invariant.
LEMMA StepIInv ==
  ASSUME IInv, NEW t \in Thread, Step(t)
  PROVE  IInv'
<1> DEFINE f == call[t]
<1>i. TypeOK /\ FrameInv /\ LockInv /\ AbsentInv
  BY DEF IInv
<1>r. runtimes \in [DeviceType -> Runtime \cup {NULL}]
  BY <1>i DEF TypeOK
<1>1. CASE Validate(t)
  <2>1. CASE TypeIn(f) \in DeviceType
    <3>1. Goto(t, "lock") /\ holds' = [holds EXCEPT ![t] = "none"] /\ UNCHANGED runtimes
      BY <1>1, <1>i, <2>1 DEF Validate, At, LockInv, TypeOK
    <3> QED
      BY <1>1, <2>1, <3>1, GotoIInv DEF Validate, At
  <2>2. CASE TypeIn(f) \notin DeviceType
    BY <1>1, <1>r, <2>2, ReturnsStep DEF Validate, At, Code
  <2> QED
    BY <2>1, <2>2
<1>2. CASE LockExclusive(t)
  <2>1. TypeIn(f) \in DeviceType
    BY <1>2, <1>i DEF LockExclusive, At, FrameInv
  <2> QED
    BY <1>2, <2>1, GotoIInv DEF LockExclusive, At
<1>3. CASE LockShared(t)
  <2>1. TypeIn(f) \in DeviceType
    BY <1>3, <1>i DEF LockShared, At, FrameInv
  <2> QED
    BY <1>3, <2>1, GotoIInv DEF LockShared, At
<1>4. CASE Contains(t)
  <2>1. CASE runtimes[TypeIn(f)] # NULL
    BY <1>4, <1>r, <2>1, ReturnsStep DEF Contains, At, Code
  <2>2. CASE runtimes[TypeIn(f)] = NULL
    <3>1. /\ TypeIn(f) \in DeviceType /\ f.op = "register" /\ holds[t] = "exclusive"
          /\ \A u \in Thread \ {t} : holds[u] = "none"
      BY <1>4, <1>i DEF Contains, At, FrameInv, LockInv
    <3>2. Goto(t, "emplace") /\ holds' = [holds EXCEPT ![t] = "exclusive"] /\ UNCHANGED runtimes
      BY <1>4, <1>i, <2>2, <3>1 DEF Contains, TypeOK
    <3> QED
      BY <1>4, <2>2, <3>1, <3>2, GotoIInv DEF Contains, At
  <2> QED
    BY <2>1, <2>2
<1>5. CASE Emplace(t)
  <2>1. f.op = "register" /\ TypeIn(f) \in DeviceType /\ f.arg \in Runtime \cup {NULL}
    BY <1>5, <1>i DEF Emplace, At, FrameInv
  <2>2. runtimes' \in [DeviceType -> Runtime \cup {NULL}]
    BY <1>5, <1>r, <2>1 DEF Emplace
  <2>3. \A u \in Thread \ {t} : ~At(u, "emplace")
    BY <1>5, EmplacesAlone DEF Emplace, At
  <2> QED
    BY <1>5, <2>2, <2>3, ReturnsStep DEF Emplace, At, Code
<1>6. CASE Throws(t)
  BY <1>6, <1>r, ReturnsStep DEF Throws, At, Code
<1>7. CASE Find(t)
  <2>1. f.arg \in DeviceType
    BY <1>7, <1>i DEF Find, At, FrameInv, TypeIn
  <2>2. runtimes[f.arg] # NULL => runtimes[f.arg] \in Runtime
    BY <1>r, <2>1
  <2> QED
    BY <1>7, <1>r, <2>2, ReturnsStep DEF Find, At, Code
<1>8. CASE Return(t)
  <2>1. holds' = [holds EXCEPT ![t] = "none"] /\ UNCHANGED runtimes
    BY <1>8, <1>i DEF Return, At, LockInv, TypeOK
  <2>2. call' = [call EXCEPT ![t] = Idle] /\ Idle.pc = "idle" /\ Idle.reply = NULL
    BY <1>8 DEF Return, Idle
  <2> QED
    BY <1>r, <2>1, <2>2, FrameFacts, FrameStep
<1> QED
  BY <1>1, <1>2, <1>3, <1>4, <1>5, <1>6, <1>7, <1>8 DEF Step

\* Every step keeps the invariant.
LEMMA NextIInv == ASSUME IInv, [Next]_rvars PROVE IInv'
<1>1. CASE Next
  BY <1>1, CallIInv, StepIInv DEF Next
<1>2. CASE UNCHANGED rvars
  BY <1>2 DEF rvars, IInv, TypeOK, FrameInv, LockInv, AbsentInv, At
<1> QED
  BY <1>1, <1>2

\* The mutex is held as the code's lock guards say, and an entry found absent
\* under the exclusive lock stays absent until it is made.
THEOREM RegistryInvariance == Spec => []IInv
<1>1. IInv /\ [Next]_rvars => IInv'
  BY NextIInv
<1> QED
  BY InitIInv, <1>1, PTL DEF Spec

-----------------------------------------------------------------------------
(* The properties. *)

\* The hash table is never read, by get() or by register_runtime(), while a
\* registration changes it.
THEOREM TableIsNeverTorn == Spec => []NoTornRead
<1>1. IInv => NoTornRead
  BY EmplacesAlone DEF NoTornRead
<1> QED
  BY RegistryInvariance, <1>1, PTL

\* register_runtime never replaces an entry, whatever registrations compete: each
\* one looks the type up under the lock it inserts under.
THEOREM RegistrationIsFinal == Spec => StableRegistration
<1>1. IInv /\ [Next]_rvars =>
        [\A d \in DeviceType : runtimes[d] # NULL => runtimes'[d] = runtimes[d]]_rvars
  <2> SUFFICES ASSUME IInv, Next, NEW d \in DeviceType, runtimes[d] # NULL
               PROVE  runtimes'[d] = runtimes[d]
    OBVIOUS
  <2>1. PICK t \in Thread : Call(t) \/ Step(t)
    BY DEF Next
  <2>2. UNCHANGED runtimes \/ Emplace(t)
    BY <2>1 DEF Call, BeginRegister, BeginGet, Step, Validate, LockExclusive, LockShared,
       Contains, Throws, Find, Return
  <2>3. ASSUME Emplace(t) PROVE runtimes'[d] = runtimes[d]
    <3>1. runtimes[TypeIn(call[t])] = NULL
      BY <2>3 DEF Emplace, IInv, AbsentInv
    <3> QED
      BY <2>3, <3>1 DEF Emplace, IInv, TypeOK
  <2> QED
    BY <2>2, <2>3
<1> QED
  BY RegistryInvariance, <1>1, PTL DEF Spec, StableRegistration

-----------------------------------------------------------------------------
(* The refinement. *)

\* What the abstract registry sees of the calls.
RequestBar == [t \in Thread |-> IF At(t, "idle") THEN NULL
                                ELSE [op |-> call[t].op, arg |-> call[t].arg]]

ReplyBar == [t \in Thread |-> call[t].reply]

\* A step of one thread changes what is seen of that thread only.
LEMMA BarStep ==
  ASSUME TypeOK, NEW t \in Thread, NEW g \in Frame, call' = [call EXCEPT ![t] = g]
  PROVE  /\ RequestBar' = [RequestBar EXCEPT ![t] =
              IF g.pc = "idle" THEN NULL ELSE [op |-> g.op, arg |-> g.arg]]
         /\ ReplyBar' = [ReplyBar EXCEPT ![t] = g.reply]
<1>1. /\ call'[t] = g
      /\ \A u \in Thread \ {t} : call'[u] = call[u]
  BY DEF TypeOK
<1>2. /\ ReplyBar' = [u \in Thread |-> ReplyBar'[u]] /\ ReplyBar = [u \in Thread |-> ReplyBar[u]]
      /\ \A u \in Thread : ReplyBar'[u] = call'[u].reply /\ ReplyBar[u] = call[u].reply
  BY DEF ReplyBar
<1>3. \A u \in Thread : RequestBar'[u] =
        IF call'[u].pc = "idle" THEN NULL ELSE [op |-> call'[u].op, arg |-> call'[u].arg]
  BY DEF RequestBar, At
<1>4. RequestBar' = [u \in Thread |-> RequestBar'[u]]
  BY DEF RequestBar
<1>5. \A u \in Thread \ {t} : RequestBar'[u] = RequestBar[u]
  BY <1>1, <1>3 DEF RequestBar, At
<1>6. RequestBar'[t] = IF g.pc = "idle" THEN NULL ELSE [op |-> g.op, arg |-> g.arg]
  BY <1>1, <1>3
<1>7. RequestBar = [u \in Thread |-> RequestBar[u]]
  BY DEF RequestBar
<1>8. RequestBar' = [RequestBar EXCEPT ![t] = IF g.pc = "idle" THEN NULL
                                            ELSE [op |-> g.op, arg |-> g.arg]]
  BY <1>4, <1>5, <1>6, <1>7
<1>9. ReplyBar' = [ReplyBar EXCEPT ![t] = g.reply]
  BY <1>1, <1>2
<1> QED
  BY <1>8, <1>9

\* An answer, as the abstract registry sees it.
LEMMA ReturnsBar ==
  ASSUME IInv, NEW t \in Thread, NEW r \in Code \cup Runtime, Returns(t, r),
         call[t].pc \notin {"idle", "return"}
  PROVE  /\ RequestBar' = RequestBar
         /\ ReplyBar' = [ReplyBar EXCEPT ![t] = r]
         /\ RequestBar[t] = [op |-> call[t].op, arg |-> call[t].arg]
         /\ RequestBar[t] # NULL /\ ReplyBar[t] = NULL
<1> DEFINE g == [call[t] EXCEPT !.pc = "return", !.reply = r]
<1>1. call[t] \in Frame /\ call[t].reply = NULL /\ TypeOK
  BY DEF IInv, TypeOK, FrameInv
<1>2. /\ g \in Frame /\ g.pc = "return" /\ g.reply = r /\ g.arg = call[t].arg
      /\ g.op = call[t].op
  BY <1>1 DEF Frame, Label
<1>3. call' = [call EXCEPT ![t] = g]
  BY <1>1 DEF Returns, TypeOK
<1>4. RequestBar[t] = [op |-> call[t].op, arg |-> call[t].arg] /\ ReplyBar[t] = NULL
  BY <1>1 DEF RequestBar, ReplyBar, At
<1>5. RequestBar[t] # NULL
  BY <1>1, <1>4, RegistryAssumption DEF Frame
<1> HIDE DEF g
<1>6. /\ RequestBar' = [RequestBar EXCEPT ![t] = [op |-> g.op, arg |-> g.arg]]
      /\ ReplyBar' = [ReplyBar EXCEPT ![t] = r]
  BY <1>1, <1>2, <1>3, BarStep
<1>7. [RequestBar EXCEPT ![t] = RequestBar[t]] = RequestBar
  BY DEF RequestBar
<1> QED
  BY <1>2, <1>4, <1>5, <1>6, <1>7

\* A step inside a function that does not answer is not seen.
LEMMA GotoBar ==
  ASSUME IInv, NEW t \in Thread, NEW l \in Label \ {"idle"}, Goto(t, l),
         call[t].pc # "idle"
  PROVE  RequestBar' = RequestBar /\ ReplyBar' = ReplyBar
<1> DEFINE g == [call[t] EXCEPT !.pc = l]
<1>1. call[t] \in Frame /\ TypeOK
  BY DEF IInv, TypeOK
<1>2. /\ g \in Frame /\ g.pc = l /\ g.reply = call[t].reply /\ g.arg = call[t].arg
      /\ g.op = call[t].op
  BY <1>1 DEF Frame
<1>3. call' = [call EXCEPT ![t] = g]
  BY <1>1 DEF Goto, TypeOK
<1>4. RequestBar[t] = [op |-> call[t].op, arg |-> call[t].arg] /\ ReplyBar[t] = call[t].reply
  BY DEF RequestBar, ReplyBar, At
<1> HIDE DEF g
<1>5. /\ RequestBar' = [RequestBar EXCEPT ![t] = [op |-> g.op, arg |-> g.arg]]
      /\ ReplyBar' = [ReplyBar EXCEPT ![t] = g.reply]
  BY <1>1, <1>2, <1>3, BarStep
<1>6. /\ [RequestBar EXCEPT ![t] = RequestBar[t]] = RequestBar
      /\ [ReplyBar EXCEPT ![t] = ReplyBar[t]] = ReplyBar
  BY DEF RequestBar, ReplyBar
<1> QED
  BY <1>2, <1>4, <1>5, <1>6

\* A call begins as an invocation.
LEMMA CallBar ==
  ASSUME IInv, NEW t \in Thread, Call(t)
  PROVE  \E q \in Atomic!Requests :
           /\ RequestBar[t] = NULL
           /\ RequestBar' = [RequestBar EXCEPT ![t] = q]
           /\ UNCHANGED <<runtimes, ReplyBar>>
<1>1. /\ RequestBar[t] = NULL /\ ReplyBar[t] = NULL /\ TypeOK /\ UNCHANGED runtimes
      /\ Idle.reply = NULL
  BY DEF RequestBar, ReplyBar, Call, BeginRegister, BeginGet, At, IInv, FrameInv, Idle
<1>2. [ReplyBar EXCEPT ![t] = NULL] = ReplyBar
  BY <1>1 DEF ReplyBar
<1>3. ASSUME NEW r \in Runtime \cup {NULL}, BeginRegister(t, r)
      PROVE  \E q \in Atomic!Requests :
               RequestBar' = [RequestBar EXCEPT ![t] = q] /\ ReplyBar' = ReplyBar
  <2> DEFINE g == [Idle EXCEPT !.pc = "validate", !.op = "register", !.arg = r]
  <2>1. /\ g \in Frame /\ g.pc = "validate" /\ g.op = "register" /\ g.arg = r
        /\ g.reply = NULL
    BY FrameFacts DEF Idle
  <2>2. call' = [call EXCEPT ![t] = g]
    BY <1>3 DEF BeginRegister
  <2>3. [op |-> "register", arg |-> r] \in Atomic!Requests
    BY DEF Atomic!Requests
  <2> HIDE DEF g
  <2>4. /\ RequestBar' = [RequestBar EXCEPT ![t] = IF g.pc = "idle" THEN NULL
                                                  ELSE [op |-> g.op, arg |-> g.arg]]
        /\ ReplyBar' = [ReplyBar EXCEPT ![t] = g.reply]
    BY <1>1, <2>1, <2>2, BarStep
  <2> QED
    BY <1>2, <2>1, <2>3, <2>4
<1>4. ASSUME NEW d \in DeviceType \cup {InvalidType}, BeginGet(t, d)
      PROVE  \E q \in Atomic!Requests :
               RequestBar' = [RequestBar EXCEPT ![t] = q] /\ ReplyBar' = ReplyBar
  <2> DEFINE g == [Idle EXCEPT !.pc = "validate", !.op = "get", !.arg = d]
  <2>1. g \in Frame /\ g.pc = "validate" /\ g.op = "get" /\ g.arg = d /\ g.reply = NULL
    BY FrameFacts DEF Idle
  <2>2. call' = [call EXCEPT ![t] = g]
    BY <1>4 DEF BeginGet
  <2>3. [op |-> "get", arg |-> d] \in Atomic!Requests
    BY DEF Atomic!Requests
  <2> HIDE DEF g
  <2>4. /\ RequestBar' = [RequestBar EXCEPT ![t] = IF g.pc = "idle" THEN NULL
                                                  ELSE [op |-> g.op, arg |-> g.arg]]
        /\ ReplyBar' = [ReplyBar EXCEPT ![t] = g.reply]
    BY <1>1, <2>1, <2>2, BarStep
  <2> QED
    BY <1>2, <2>1, <2>3, <2>4
<1> QED
  BY <1>1, <1>3, <1>4 DEF Call

\* An answer that changes no entry, and one that registers.
LEMMA AnswersBar ==
  ASSUME IInv, NEW t \in Thread, NEW r \in Code \cup Runtime, Returns(t, r),
         call[t].pc \notin {"idle", "return"}
  PROVE  /\ Atomic!Answers(t, r)
         /\ RequestBar[t] = [op |-> call[t].op, arg |-> call[t].arg]
         /\ RequestBar[t] # NULL
         /\ Atomic!TypeIn(RequestBar[t]) = TypeIn(call[t])
<1>1. /\ RequestBar' = RequestBar
      /\ ReplyBar' = [ReplyBar EXCEPT ![t] = r]
      /\ RequestBar[t] = [op |-> call[t].op, arg |-> call[t].arg]
      /\ RequestBar[t] # NULL /\ ReplyBar[t] = NULL
  BY ReturnsBar
<1>2. Atomic!Answers(t, r)
  BY <1>1 DEF Atomic!Answers, RequestBar, ReplyBar
<1>3. Atomic!TypeIn(RequestBar[t]) = TypeIn(call[t])
  BY <1>1 DEF Atomic!TypeIn, TypeIn
<1> QED
  BY <1>1, <1>2, <1>3

\* Each step is an answer of the abstract registry, a return, or not seen at all.
LEMMA StepBar ==
  ASSUME IInv, NEW t \in Thread, Step(t)
  PROVE  \/ UNCHANGED <<runtimes, RequestBar, ReplyBar>>
         \/ RequestBar[t] # NULL
              /\ (Atomic!Reject(t) \/ Atomic!Throw(t) \/ Atomic!Register(t) \/ Atomic!Get(t))
         \/ Atomic!Leave(t)
<1> DEFINE f == call[t]
<1>i. TypeOK /\ FrameInv /\ AbsentInv
  BY DEF IInv
<1>q. ASSUME RequestBar[t] = [op |-> f.op, arg |-> f.arg]
      PROVE  RequestBar[t].op = f.op /\ RequestBar[t].arg = f.arg
  BY <1>q
<1>1. CASE \E l \in Label \ {"idle"} : Goto(t, l) /\ f.pc # "idle" /\ UNCHANGED runtimes
  BY <1>1, GotoBar
<1>2. CASE Validate(t)
  <2>1. CASE TypeIn(f) \in DeviceType
    BY <1>1, <1>2, <2>1 DEF Validate, At, Label
  <2>2. CASE TypeIn(f) \notin DeviceType
    <3>1. Returns(t, "InvalidArgument") /\ UNCHANGED runtimes /\ f.pc \notin {"idle", "return"}
      BY <1>2, <2>2 DEF Validate, At
    <3>2. Atomic!Answers(t, "InvalidArgument") /\ Atomic!TypeIn(RequestBar[t]) \notin DeviceType
          /\ RequestBar[t] # NULL
      BY <2>2, <3>1, AnswersBar DEF Code
    <3> QED
      BY <3>1, <3>2 DEF Atomic!Reject, RequestBar
  <2> QED
    BY <2>1, <2>2
<1>3. CASE LockExclusive(t) \/ LockShared(t)
  BY <1>1, <1>3 DEF LockExclusive, LockShared, At, Label
<1>4. CASE Contains(t)
  <2>1. CASE runtimes[TypeIn(f)] = NULL
    BY <1>1, <1>4, <2>1 DEF Contains, At, Label
  <2>2. CASE runtimes[TypeIn(f)] # NULL
    <3>1. Returns(t, "AlreadyExists") /\ UNCHANGED runtimes /\ f.pc \notin {"idle", "return"}
      BY <1>4, <2>2 DEF Contains, At
    <3>2. f.op = "register" /\ TypeIn(f) \in DeviceType
      BY <1>4, <1>i DEF Contains, At, FrameInv
    <3>3. /\ Atomic!Answers(t, "AlreadyExists") /\ RequestBar[t] # NULL
          /\ Atomic!TypeIn(RequestBar[t]) = TypeIn(f) /\ RequestBar[t].op = "register"
      BY <1>q, <3>1, <3>2, AnswersBar DEF Code
    <3> QED
      BY <2>2, <3>1, <3>2, <3>3 DEF Atomic!Register, RequestBar
  <2> QED
    BY <2>1, <2>2
<1>5. CASE Emplace(t)
  <2>1. Returns(t, "ok") /\ f.pc \notin {"idle", "return"} /\ runtimes[TypeIn(f)] = NULL
    BY <1>5, <1>i DEF Emplace, At, AbsentInv
  <2>2. f.op = "register" /\ TypeIn(f) \in DeviceType
    BY <1>5, <1>i DEF Emplace, At, FrameInv
  <2>3. /\ Atomic!Answers(t, "ok") /\ RequestBar[t] # NULL
        /\ Atomic!TypeIn(RequestBar[t]) = TypeIn(f) /\ RequestBar[t].op = "register"
        /\ RequestBar[t].arg = f.arg
    BY <1>q, <2>1, <2>2, AnswersBar DEF Code
  <2>4. runtimes' = [runtimes EXCEPT ![TypeIn(f)] = f.arg]
    BY <1>5 DEF Emplace
  <2> QED
    BY <2>1, <2>2, <2>3, <2>4 DEF Atomic!Register, RequestBar
<1>6. CASE Throws(t)
  <2>1. Returns(t, "bad_alloc") /\ UNCHANGED runtimes /\ f.pc \notin {"idle", "return"}
    BY <1>6 DEF Throws, At
  <2>2. Atomic!Answers(t, "bad_alloc") /\ RequestBar[t] # NULL
    BY <2>1, AnswersBar DEF Code
  <2> QED
    BY <2>1, <2>2 DEF Atomic!Throw
<1>7. CASE Find(t)
  <2>1. f.op = "get" /\ f.arg \in DeviceType /\ TypeIn(f) = f.arg
    BY <1>7, <1>i DEF Find, At, FrameInv, TypeIn
  <2>2. PICK r \in Code \cup Runtime :
          r = IF runtimes[f.arg] = NULL THEN "Unavailable" ELSE runtimes[f.arg]
    BY <1>i, <2>1 DEF TypeOK, Code
  <2>3. Returns(t, r) /\ UNCHANGED runtimes /\ f.pc \notin {"idle", "return"}
    BY <1>7, <2>2 DEF Find, At
  <2>4. /\ Atomic!Answers(t, r) /\ RequestBar[t] # NULL
        /\ RequestBar[t] = [op |-> f.op, arg |-> f.arg]
        /\ Atomic!TypeIn(RequestBar[t]) = TypeIn(f)
    BY <2>3, AnswersBar
  <2>5. Atomic!TypeIn(RequestBar[t]) = f.arg /\ RequestBar[t].op = "get"
    BY <1>q, <2>1, <2>4
  <2>6. Atomic!Get(t)
    BY <2>1, <2>2, <2>3, <2>4, <2>5 DEF Atomic!Get, Atomic!Answers, RequestBar
  <2> QED
    BY <2>4, <2>6
<1>8. CASE Return(t)
  <2>1. /\ call' = [call EXCEPT ![t] = Idle] /\ Idle.pc = "idle" /\ Idle.reply = NULL
        /\ UNCHANGED runtimes /\ f.reply # NULL
    BY <1>8, <1>i DEF Return, Idle, At, FrameInv
  <2>2. /\ RequestBar' = [RequestBar EXCEPT ![t] = NULL]
        /\ ReplyBar' = [ReplyBar EXCEPT ![t] = NULL] /\ ReplyBar[t] # NULL
    BY <1>i, <2>1, FrameFacts, BarStep DEF ReplyBar
  <2> QED
    BY <2>1, <2>2 DEF Atomic!Leave, RequestBar, ReplyBar
<1> QED
  BY <1>2, <1>3, <1>4, <1>5, <1>6, <1>7, <1>8 DEF Step

\* Every call on a registry that threads share takes effect at one instant, so one
\* registration for a type succeeds and everybody gets what it registered.
THEOREM RegistryIsAtomic == Spec => ImplementsAtomicRegistry
<1>1. Init => Atomic!AtomicInit
  BY DEF Init, Atomic!AtomicInit, At, Idle
<1>2. IInv /\ [Next]_rvars => [Atomic!AtomicNext]_(Atomic!avars)
  <2> SUFFICES ASSUME IInv, [Next]_rvars PROVE [Atomic!AtomicNext]_(Atomic!avars)
    OBVIOUS
  <2>1. CASE UNCHANGED rvars
    BY <2>1 DEF rvars, Atomic!avars, At
  <2>2. ASSUME NEW t \in Thread, Call(t) PROVE Atomic!AtomicNext
    BY <2>2, CallBar DEF Atomic!AtomicNext, Atomic!Invoke, RequestBar, ReplyBar
  <2>3. ASSUME NEW t \in Thread, Step(t) PROVE [Atomic!AtomicNext]_(Atomic!avars)
    BY <2>3, StepBar DEF Atomic!AtomicNext, Atomic!avars, RequestBar, ReplyBar
  <2> QED
    BY <2>1, <2>2, <2>3 DEF Next
<1> QED
  BY RegistryInvariance, <1>1, <1>2, PTL DEF Spec, ImplementsAtomicRegistry, Atomic!AtomicSpec

-----------------------------------------------------------------------------
(* The default registry. *)

\* The invariant with the two properties that are part of the induction.
DInv == DefaultInv /\ NothingDiscarded /\ CpuAlwaysThere

\* What a step of a member function does before it leaves: it goes on, it answers
\* from what the table says, or it makes an entry that was not there.
LEMMA StepEffect ==
  ASSUME IInv, NEW t \in Thread, Step(t), ~At(t, "return")
  PROVE  LET f == call[t]
             g == call'[t]
             d == TypeIn(call[t]) IN
         /\ \A u \in Thread \ {t} : call'[u] = call[u]
         /\ f.pc # "idle" /\ g.pc # "idle" /\ g.op = f.op /\ g.arg = f.arg
         /\ \/ UNCHANGED runtimes /\ g.pc # "return"
            \/ UNCHANGED runtimes /\ g.pc = "return" /\ d \notin DeviceType
            \/ UNCHANGED runtimes /\ g.pc = "return" /\ g.reply = "bad_alloc"
                 /\ (f.op = "get" => runtimes[d] = NULL)
            \/ UNCHANGED runtimes /\ g.pc = "return" /\ f.op = "register"
                 /\ g.reply = "AlreadyExists" /\ runtimes[d] # NULL
            \/ UNCHANGED runtimes /\ g.pc = "return" /\ f.op = "get"
                 /\ (runtimes[d] # NULL => g.reply = runtimes[d])
            \/ /\ runtimes' = [runtimes EXCEPT ![d] = f.arg] /\ g.pc = "return"
               /\ f.op = "register" /\ g.reply = "ok" /\ runtimes[d] = NULL
<1> DEFINE f == call[t]
<1>i. TypeOK /\ FrameInv /\ AbsentInv
  BY DEF IInv
<1>f. f \in Frame /\ call \in [Thread -> Frame]
  BY <1>i DEF TypeOK
<1>g. ASSUME NEW l \in Label, Goto(t, l)
      PROVE  /\ \A u \in Thread \ {t} : call'[u] = call[u]
             /\ call'[t].pc = l /\ call'[t].op = f.op /\ call'[t].arg = f.arg
  BY <1>f, <1>g DEF Goto, Frame
<1>r. ASSUME NEW r \in Code \cup Runtime, Returns(t, r)
      PROVE  /\ \A u \in Thread \ {t} : call'[u] = call[u]
             /\ call'[t].pc = "return" /\ call'[t].op = f.op /\ call'[t].arg = f.arg
             /\ call'[t].reply = r
  BY <1>f, <1>r DEF Returns, Frame
<1>1. CASE Validate(t)
  <2>1. CASE TypeIn(f) \in DeviceType
    BY <1>1, <1>g, <2>1 DEF Validate, At, Label
  <2>2. CASE TypeIn(f) \notin DeviceType
    BY <1>1, <1>r, <2>2 DEF Validate, At, Code
  <2> QED
    BY <2>1, <2>2
<1>2. CASE LockExclusive(t)
  BY <1>2, <1>g DEF LockExclusive, At, Label
<1>3. CASE LockShared(t)
  BY <1>3, <1>g DEF LockShared, At, Label
<1>4. CASE Contains(t)
  <2>1. f.op = "register"
    BY <1>4, <1>i DEF Contains, At, FrameInv
  <2>2. CASE runtimes[TypeIn(f)] # NULL
    BY <1>4, <1>r, <2>1, <2>2 DEF Contains, At, Code
  <2>3. CASE runtimes[TypeIn(f)] = NULL
    BY <1>4, <1>g, <2>3 DEF Contains, At, Label
  <2> QED
    BY <2>2, <2>3
<1>5. CASE Emplace(t)
  <2>1. f.op = "register" /\ runtimes[TypeIn(f)] = NULL
    BY <1>5, <1>i DEF Emplace, At, FrameInv, AbsentInv
  <2> QED
    BY <1>5, <1>r, <2>1 DEF Emplace, At, Code
<1>6. CASE Throws(t)
  <2>1. Returns(t, "bad_alloc") /\ UNCHANGED runtimes /\ f.pc # "idle"
    BY <1>6 DEF Throws, At
  <2>2. f.op = "get" => TypeIn(f) \notin DeviceType \/ runtimes[TypeIn(f)] = NULL
    BY <1>6, <1>i DEF Throws, At, FrameInv
  <2> QED
    BY <1>r, <2>1, <2>2 DEF Code
<1>7. CASE Find(t)
  <2>1. f.op = "get" /\ f.arg \in DeviceType /\ TypeIn(f) = f.arg
    BY <1>7, <1>i DEF Find, At, FrameInv, TypeIn
  <2>2. PICK r \in Code \cup Runtime :
          r = IF runtimes[f.arg] = NULL THEN "Unavailable" ELSE runtimes[f.arg]
    BY <1>i, <2>1 DEF TypeOK, Code
  <2>3. Returns(t, r) /\ UNCHANGED runtimes /\ f.pc # "idle"
    BY <1>7, <2>2 DEF Find, At
  <2> QED
    BY <1>r, <2>1, <2>2, <2>3
<1> QED
  BY <1>1, <1>2, <1>3, <1>4, <1>5, <1>6, <1>7 DEF Step, Return

\* A thread that leaves a member function is idle, and nothing else changes.
LEMMA ReturnEffect ==
  ASSUME IInv, NEW t \in Thread, Return(t)
  PROVE  /\ \A u \in Thread \ {t} : call'[u] = call[u]
         /\ call'[t] = Idle /\ UNCHANGED runtimes
  BY DEF Return, IInv, TypeOK

\* Every thread's place in default_runtime_registry() has a type.
LEMMA GoesType ==
  ASSUME DefaultTypeOK, NEW t \in Thread, NEW where \in Entry, Goes(t, where)
  PROVE  /\ entry' \in [Thread -> Entry] /\ entry'[t] = where
         /\ \A u \in Thread \ {t} : entry'[u] = entry[u]
  BY DEF DefaultTypeOK, Goes

-----------------------------------------------------------------------------
(* The invariant. *)

\* Nobody has reached the registry at first.
LEMMA DefaultInitDInv == DefaultInit => DInv
<1> SUFFICES ASSUME DefaultInit PROVE DInv
  OBVIOUS
<1>1. IInv
  BY InitIInv DEF DefaultInit
<1>2. DefaultTypeOK
  BY <1>1 DEF DefaultInit, DefaultTypeOK, IInv, Entry
<1>3. EntryInv /\ BuiltinInv
  BY BuiltinAssumption DEF DefaultInit, Init, EntryInv, BuiltinInv
<1>4. NothingDiscarded /\ CpuAlwaysThere
  BY DEF DefaultInit, NothingDiscarded, CpuAlwaysThere
<1> QED
  BY <1>1, <1>2, <1>3, <1>4 DEF DInv, DefaultInv

\* Every step of the whole is a step of the registry, or leaves it alone.
LEMMA DefaultNextIInv ==
  ASSUME DInv, DefaultNext
  PROVE  IInv'
<1>1. [Next]_rvars
  BY BuiltinAssumption DEF DefaultNext, Enter, UserCall, DefaultStep, PassGuard, MakeRuntime,
     MakeThrows, Registering, RegisterThrows, Initialized, Use, Next, Call, Step
<1> QED
  BY <1>1, NextIInv DEF DInv, DefaultInv

\* Coming to the guard, passing it, and failing before registration begins.
LEMMA GuardStep ==
  ASSUME DInv, IInv', NEW t \in Thread, Enter(t) \/ PassGuard(t) \/ MakeThrows(t)
  PROVE  DInv'
<1> USE DEF DInv, DefaultInv
<1>1. UNCHANGED rvars /\ UNCHANGED initialization
  BY DEF Enter, PassGuard, MakeThrows, GivesUp
<1>2. PICK where \in Entry : Goes(t, where) /\ entry'[t] = where
  BY GoesType DEF Enter, PassGuard, MakeThrows, GivesUp, Entry
<1>3. /\ entry' \in [Thread -> Entry] /\ guard' \in {"unset", "set"} \cup Thread
      /\ \A u \in Thread \ {t} : entry'[u] = entry[u]
  BY <1>2, GoesType DEF Enter, PassGuard, MakeThrows, GivesUp, DefaultTypeOK
<1>4. DefaultTypeOK'
  BY <1>1, <1>3 DEF DefaultTypeOK, IInv
<1>5. EntryInv'
  BY <1>1, <1>2, <1>3, BuiltinAssumption DEF rvars, EntryInv, Enter, PassGuard, MakeThrows,
     GivesUp, Goes, DefaultTypeOK
<1>6. BuiltinInv'
  BY <1>1, <1>2, <1>3, BuiltinAssumption DEF rvars, EntryInv, BuiltinInv, Enter, PassGuard,
     MakeThrows, GivesUp, Goes, DefaultTypeOK, At
<1>7. NothingDiscarded'
  BY <1>1 DEF NothingDiscarded
<1>8. CpuAlwaysThere'
  <2>1. call[t] = Idle /\ Idle.pc = "idle"
    BY DEF EntryInv, Enter, PassGuard, MakeThrows, Idle
  <2> QED
    BY <1>1, <1>3, <2>1 DEF rvars, CpuAlwaysThere, At, TypeIn
<1> QED
  BY <1>4, <1>5, <1>6, <1>7, <1>8

\* Registration of the built-in runtime begins.
LEMMA MakeRuntimeStep ==
  ASSUME DInv, IInv', NEW t \in Thread, MakeRuntime(t)
  PROVE  DInv'
<1> USE DEF DInv, DefaultInv
<1>1. /\ UNCHANGED <<runtimes, guard, initialization>> /\ entry[t] = "make" /\ guard = t
      /\ runtimes[Cpu] = NULL
  BY DEF MakeRuntime, BeginRegister, EntryInv, BuiltinInv
<1>2. /\ entry' \in [Thread -> Entry] /\ entry'[t] = "registering"
      /\ \A u \in Thread \ {t} : entry'[u] = entry[u]
  BY GoesType DEF MakeRuntime, Entry
<1>3. /\ call'[t].pc = "validate" /\ call'[t].op = "register" /\ call'[t].arg = Builtin
      /\ \A u \in Thread \ {t} : call'[u] = call[u]
  BY DEF MakeRuntime, BeginRegister, Idle, IInv, TypeOK
<1>4. DefaultTypeOK'
  BY <1>1, <1>2 DEF DefaultTypeOK, IInv
<1>5. EntryInv'
  BY <1>1, <1>2, <1>3 DEF EntryInv
<1>6. BuiltinInv'
  BY <1>1, <1>2, <1>3, BuiltinAssumption DEF EntryInv, BuiltinInv, At
<1>7. NothingDiscarded' /\ CpuAlwaysThere'
  BY <1>1, <1>2, <1>3 DEF NothingDiscarded, CpuAlwaysThere, At, TypeIn
<1> QED
  BY <1>4, <1>5, <1>6, <1>7

\* Registration of the built-in runtime goes on, while nobody else is there.
LEMMA RegisteringStep ==
  ASSUME DInv, IInv', NEW t \in Thread, Registering(t)
  PROVE  DInv'
<1> USE DEF DInv, DefaultInv
<1>1. /\ Step(t) /\ ~At(t, "return") /\ UNCHANGED ivars
      /\ entry[t] = "registering" /\ guard = t
      /\ call[t].op = "register" /\ call[t].arg = Builtin /\ runtimes[Cpu] = NULL
  BY DEF Registering, EntryInv, BuiltinInv
<1>2. TypeIn(call[t]) = Cpu /\ Cpu \in DeviceType /\ Builtin # NULL
  BY <1>1, BuiltinAssumption, RegistryAssumption DEF TypeIn
<1>3. /\ \A u \in Thread \ {t} : call'[u] = call[u]
      /\ call'[t].pc # "idle" /\ call'[t].op = "register" /\ call'[t].arg = Builtin
      /\ \/ UNCHANGED runtimes /\ call'[t].pc # "return"
         \/ UNCHANGED runtimes /\ call'[t].reply = "bad_alloc"
         \/ runtimes'[Cpu] = Builtin /\ call'[t].pc = "return" /\ call'[t].reply = "ok"
  BY <1>1, <1>2, StepEffect DEF IInv, TypeOK
<1>4. DefaultTypeOK'
  BY <1>1 DEF ivars, DefaultTypeOK, IInv
<1>5. EntryInv'
  BY <1>1, <1>3 DEF ivars, EntryInv
<1>6. BuiltinInv'
  <2>1. \A u \in Thread \ {t} : entry[u] \notin {"make", "registering"}
    BY <1>1 DEF EntryInv
  <2> QED
    BY <1>1, <1>3, <2>1, BuiltinAssumption DEF ivars, BuiltinInv, At
<1>7. NothingDiscarded' /\ CpuAlwaysThere'
  BY <1>1, <1>3 DEF ivars, NothingDiscarded, CpuAlwaysThere, At, TypeIn, EntryInv
<1> QED
  BY <1>4, <1>5, <1>6, <1>7

\* Registration ends, by an exception or with the Status that is kept.
LEMMA RegisteredStep ==
  ASSUME DInv, IInv', NEW t \in Thread, RegisterThrows(t) \/ Initialized(t)
  PROVE  DInv'
<1> USE DEF DInv, DefaultInv
<1>1. Return(t) /\ entry[t] = "registering" /\ guard = t /\ At(t, "return")
  BY DEF RegisterThrows, Initialized, EntryInv, Return
<1>2. /\ call'[t] = Idle /\ Idle.pc = "idle" /\ UNCHANGED runtimes
      /\ \A u \in Thread \ {t} : call'[u] = call[u]
  BY <1>1, ReturnEffect DEF Idle
<1>3. /\ call[t].reply \in {"ok", "bad_alloc"}
      /\ runtimes[Cpu] = IF call[t].reply = "ok" THEN Builtin ELSE NULL
  BY <1>1 DEF BuiltinInv
<1>4. /\ \/ /\ call[t].reply = "bad_alloc" /\ guard' = "unset" /\ entry'[t] = "out"
            /\ UNCHANGED initialization
         \/ /\ call[t].reply = "ok" /\ guard' = "set" /\ entry'[t] = "in"
            /\ initialization' = "ok"
      /\ entry' \in [Thread -> Entry]
      /\ \A u \in Thread \ {t} : entry'[u] = entry[u]
  BY <1>3, GoesType DEF RegisterThrows, Initialized, GivesUp, Entry
<1>5. \A u \in Thread \ {t} : entry[u] \notin {"make", "registering", "in"}
  BY <1>1, BuiltinAssumption DEF EntryInv
<1>6. DefaultTypeOK'
  BY <1>4 DEF DefaultTypeOK, IInv, Code
<1>7. EntryInv'
  BY <1>1, <1>2, <1>4, <1>5, BuiltinAssumption DEF EntryInv
<1>8. BuiltinInv'
  BY <1>2, <1>3, <1>4, <1>5, BuiltinAssumption DEF BuiltinInv
<1>9. NothingDiscarded' /\ CpuAlwaysThere'
  BY <1>2, <1>4, <1>5 DEF NothingDiscarded, CpuAlwaysThere, At
<1> QED
  BY <1>6, <1>7, <1>8, <1>9

\* A program calls the registry it has been given, and the call goes on.
LEMMA UseStep ==
  ASSUME DInv, IInv', NEW t \in Thread, Use(t) \/ UserCall(t)
  PROVE  DInv'
<1> USE DEF DInv, DefaultInv
<1>1. /\ UNCHANGED ivars /\ entry[t] = "in" /\ guard = "set" /\ runtimes[Cpu] = Builtin
      /\ Cpu \in DeviceType /\ Builtin # NULL
  BY BuiltinAssumption, RegistryAssumption DEF Use, UserCall, EntryInv, BuiltinInv
<1>2. DefaultTypeOK'
  BY <1>1 DEF ivars, DefaultTypeOK, IInv
<1>3. NothingDiscarded'
  BY <1>1 DEF ivars, NothingDiscarded
<1>4. \A u \in Thread : entry[u] \notin {"make", "registering"}
  BY <1>1, BuiltinAssumption DEF EntryInv
<1>5. ASSUME \A u \in Thread \ {t} : call'[u] = call[u], runtimes'[Cpu] = Builtin
      PROVE  EntryInv' /\ BuiltinInv'
  <2>1. EntryInv'
    BY <1>1, <1>5 DEF ivars, EntryInv
  <2>2. BuiltinInv'
    BY <1>1, <1>4, <1>5 DEF ivars, BuiltinInv
  <2> QED
    BY <2>1, <2>2
<1>6. CASE UserCall(t)
  <2>1. /\ \A u \in Thread \ {t} : call'[u] = call[u]
        /\ call'[t].pc = "validate" /\ UNCHANGED runtimes
    BY <1>6 DEF UserCall, BeginRegister, BeginGet, Idle, IInv, TypeOK
  <2>2. CpuAlwaysThere'
    BY <1>1, <2>1 DEF ivars, CpuAlwaysThere, At, TypeIn
  <2> QED
    BY <1>1, <1>2, <1>3, <1>5, <2>1, <2>2
<1>7. CASE Use(t) /\ At(t, "return")
  <2>1. /\ \A u \in Thread \ {t} : call'[u] = call[u]
        /\ call'[t] = Idle /\ Idle.pc = "idle" /\ UNCHANGED runtimes
    <3>1. Return(t)
      BY <1>7 DEF Use, Step, At, Validate, LockExclusive, LockShared, Contains, Emplace,
         Throws, Find
    <3> QED
      BY <3>1, ReturnEffect DEF Idle
  <2>2. CpuAlwaysThere'
    BY <1>1, <2>1 DEF ivars, CpuAlwaysThere, At, TypeIn
  <2> QED
    BY <1>1, <1>2, <1>3, <1>5, <2>1, <2>2
<1>8. CASE Use(t) /\ ~At(t, "return")
  <2> DEFINE f == call[t]  g == call'[t]
  <2>1. /\ \A u \in Thread \ {t} : call'[u] = call[u]
        /\ g.op = f.op /\ g.arg = f.arg /\ TypeIn(g) = TypeIn(f)
    BY <1>8, StepEffect DEF Use, TypeIn
  <2>2. runtimes'[Cpu] = Builtin
    BY <1>1, <1>8, StepEffect DEF Use, IInv, TypeOK
  <2>3. ASSUME g.pc = "return", f.op = "get", f.arg = Cpu PROVE g.reply = Builtin
    BY <1>1, <1>8, <2>3, StepEffect DEF Use, TypeIn
  <2>4. ASSUME g.pc = "return", f.op = "register", TypeIn(f) = Cpu
        PROVE  g.reply \in {"AlreadyExists", "bad_alloc"}
    BY <1>1, <1>8, <2>4, StepEffect DEF Use
  <2>5. CpuAlwaysThere'
    BY <1>1, <2>1, <2>3, <2>4 DEF ivars, CpuAlwaysThere, At, TypeIn
  <2> QED
    BY <1>1, <1>2, <1>3, <1>5, <2>1, <2>2, <2>5
<1> QED
  BY <1>6, <1>7, <1>8

\* Every step keeps the invariant and the properties.
LEMMA DefaultNextDInv == ASSUME DInv, [DefaultNext]_<<rvars, ivars>> PROVE DInv'
<1>1. CASE DefaultNext
  <2>1. IInv'
    BY <1>1, DefaultNextIInv
  <2> QED
    BY <1>1, <2>1, GuardStep, MakeRuntimeStep, RegisteringStep, RegisteredStep, UseStep
       DEF DefaultNext, DefaultStep
<1>2. CASE UNCHANGED <<rvars, ivars>>
  <2>1. IInv'
    BY <1>2, NextIInv DEF DInv, DefaultInv
  <2> QED
    BY <1>2, <2>1 DEF rvars, ivars, DInv, DefaultInv, DefaultTypeOK, IInv, EntryInv, BuiltinInv,
       NothingDiscarded, CpuAlwaysThere, At, TypeIn
<1> QED
  BY <1>1, <1>2

\* The two properties and the invariant are one induction: who may be in the
\* registry depends on the entry, and the entry on who may be in the registry.
LEMMA DefaultInduction == DefaultSpec => []DInv
<1>1. DInv /\ [DefaultNext]_<<rvars, ivars>> => DInv'
  BY DefaultNextDInv
<1> QED
  BY DefaultInitDInv, <1>1, PTL DEF DefaultSpec

-----------------------------------------------------------------------------
(* The properties. *)

\* A thread has the registry only once the guard is set and the built-in runtime
\* is in the table; one thread at a time registers it.
THEOREM DefaultInvariance == DefaultSpec => []DefaultInv
  BY DefaultInduction, PTL DEF DInv

\* The Status that default_runtime_registry() throws away is never an error.
THEOREM NoErrorIsDiscarded == DefaultSpec => []NothingDiscarded
  BY DefaultInduction, PTL DEF DInv

\* get(kCPU) on the default registry is never Unavailable, and registering
\* another CPU runtime never succeeds.
THEOREM CpuIsThere == DefaultSpec => []CpuAlwaysThere
  BY DefaultInduction, PTL DEF DInv
=============================================================================
