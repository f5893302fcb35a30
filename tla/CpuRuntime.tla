------------------------------ MODULE CpuRuntime ------------------------------
(***************************************************************************)
(* backend/cpu/runtime.cc: a CpuRuntime that threads share, the streams    *)
(* and events it hands out, and the events' member functions.  An event is *)
(* two flags behind a mutex, each read and written in a step of its own;   *)
(* stream ids come from an atomic counter of finite width.                 *)
(***************************************************************************)
EXTENDS Integers, Sequences

CONSTANTS
  Thread,
  Device,      \* the devices a caller may name
  Cpu0,        \* Device{DeviceType::kCPU}
  Event,       \* the events that may be created
  IdLimit,     \* ids are std::uint64_t: 2^64
  MaxStreams,  \* how many streams are created (bounds the model)
  NULL

Reply == {"ok", "true", "false", "InvalidArgument", "FailedPrecondition", "bad_alloc"}

ASSUME RuntimeAssumption ==
  /\ Cpu0 \in Device
  /\ IdLimit \in Nat \ {0, 1} /\ MaxStreams \in Nat
  /\ NULL \notin Thread \cup Event \cup Device \cup Reply

VARIABLES
  next_stream_id,
  streams,       \* the ids of the streams made so far, in the order of the counter
  exists,        \* exists[e]: e has been created
  recorded,      \* recorded[e], completed[e]: the flags of e
  completed,
  mutex,         \* mutex[e]: the thread that holds e's mutex
  acknowledged,  \* acknowledged[e]: some call has returned that found e recorded
  call           \* call[t]: the member function t is running

cvars == <<next_stream_id, streams, exists, recorded, completed, mutex, acknowledged, call>>

events == <<exists, recorded, completed, mutex, acknowledged>>

Label == {"idle", "create_event", "fetch_add", "lock", "recorded", "completed", "return"}

Op == {"create_stream", "create_event", "record", "query", "synchronize", "wait"}

\* known: whether e was known to be recorded when the call began.
Frame == [pc : Label, op : Op \cup {NULL}, event : Event \cup {NULL},
          known : BOOLEAN, reply : Reply \cup {NULL}]

Idle == [pc |-> "idle", op |-> NULL, event |-> NULL, known |-> FALSE, reply |-> NULL]

TypeOK ==
  /\ next_stream_id \in 0..(IdLimit - 1)
  /\ streams \in Seq(0..(IdLimit - 1))
  /\ exists \in [Event -> BOOLEAN]
  /\ recorded \in [Event -> BOOLEAN] /\ completed \in [Event -> BOOLEAN]
  /\ mutex \in [Event -> Thread \cup {NULL}]
  /\ acknowledged \in [Event -> BOOLEAN]
  /\ call \in [Thread -> Frame]

Init ==
  /\ next_stream_id = 1 /\ streams = <<>>
  /\ exists = [e \in Event |-> FALSE]
  /\ recorded = [e \in Event |-> FALSE] /\ completed = [e \in Event |-> FALSE]
  /\ mutex = [e \in Event |-> NULL] /\ acknowledged = [e \in Event |-> FALSE]
  /\ call = [t \in Thread |-> Idle]

-----------------------------------------------------------------------------
At(t, label) == call[t].pc = label

Goto(t, label) == call' = [call EXCEPT ![t].pc = label]

Answer(t, r) == call' = [call EXCEPT ![t].pc = "return", ![t].reply = r]

\* A call begins: with a bad argument it has its answer at once, unless building
\* the error runs out of memory.
Begin(t, frame, valid, label) ==
  /\ At(t, "idle")
  /\ \E r \in IF valid THEN {NULL} ELSE {"InvalidArgument", "bad_alloc"} :
       call' = [call EXCEPT ![t] =
         [frame EXCEPT !.pc = IF valid THEN label ELSE "return", !.reply = r]]

\* validate_device
ValidDevice(d) == d = Cpu0

\* The streams a caller can pass, as far as record() and wait() tell them apart:
\* Stream{}, one of this device, and one of a device another runtime serves.
StreamArg == Device \cup {NULL}

ValidStream(s) == s = Cpu0

-----------------------------------------------------------------------------
(* Streams *)

DefaultStreamId == 0

CreateStream(t, d) ==
  /\ Len(streams) < MaxStreams
  /\ Begin(t, [Idle EXCEPT !.op = "create_stream"], ValidDevice(d), "fetch_add")
  /\ UNCHANGED <<next_stream_id, streams, events>>

\* Varied: the counter stops at its largest value.
FetchAdd_Saturates(t) ==
  /\ At(t, "fetch_add")
  /\ streams' = Append(streams, next_stream_id)
  /\ next_stream_id' = IF next_stream_id = IdLimit - 1 THEN next_stream_id
                       ELSE next_stream_id + 1
  /\ Answer(t, "ok")
  /\ UNCHANGED events

\* next_stream_id_.fetch_add(1): one atomic step, and unsigned arithmetic.
FetchAdd(t) ==
  /\ At(t, "fetch_add")
  /\ streams' = Append(streams, next_stream_id)
  /\ next_stream_id' = IF next_stream_id = IdLimit - 1 THEN 0 ELSE next_stream_id + 1
  /\ Answer(t, "ok")
  /\ UNCHANGED events

-----------------------------------------------------------------------------
(* Events *)

CreateEvent(t, d) ==
  /\ Begin(t, [Idle EXCEPT !.op = "create_event"], ValidDevice(d), "create_event")
  /\ UNCHANGED <<next_stream_id, streams, events>>

\* make_unique<CpuEvent>, or std::bad_alloc.
MakeEvent(t) ==
  /\ At(t, "create_event")
  /\ \/ \E e \in Event :
          /\ ~exists[e]
          /\ exists' = [exists EXCEPT ![e] = TRUE]
          /\ Answer(t, "ok")
     \/ Answer(t, "bad_alloc") /\ UNCHANGED exists
  /\ UNCHANGED <<next_stream_id, streams, recorded, completed, mutex, acknowledged>>

\* record(stream) and wait(stream) look at the stream before they lock.
UseStream(t, op, e, s) ==
  /\ exists[e] /\ op \in {"record", "wait"}
  /\ Begin(t, [Idle EXCEPT !.op = op, !.event = e, !.known = acknowledged[e]],
           ValidStream(s), "lock")
  /\ UNCHANGED <<next_stream_id, streams, events>>

\* query() and synchronize() only lock.
Ask(t, op, e) ==
  /\ exists[e] /\ op \in {"query", "synchronize"}
  /\ Begin(t, [Idle EXCEPT !.op = op, !.event = e, !.known = acknowledged[e]], TRUE, "lock")
  /\ UNCHANGED <<next_stream_id, streams, events>>

\* Varied: queries do not take the mutex.
Lock_NotForQueries(t) ==
  LET e == call[t].event IN
  /\ At(t, "lock")
  /\ IF call[t].op = "query" THEN UNCHANGED mutex
     ELSE mutex[e] = NULL /\ mutex' = [mutex EXCEPT ![e] = t]
  /\ Goto(t, "recorded")
  /\ UNCHANGED <<next_stream_id, streams, exists, recorded, completed, acknowledged>>

Lock(t) ==
  LET e == call[t].event IN
  /\ At(t, "lock")
  /\ mutex[e] = NULL
  /\ mutex' = [mutex EXCEPT ![e] = t]
  /\ Goto(t, "recorded")
  /\ UNCHANGED <<next_stream_id, streams, exists, recorded, completed, acknowledged>>

\* The lock guard's destructor.
Unlock(t) == mutex' = [mutex EXCEPT ![call[t].event] = NULL]

\* recorded_ = true
SetRecorded(t) ==
  /\ At(t, "recorded") /\ call[t].op = "record"
  /\ recorded' = [recorded EXCEPT ![call[t].event] = TRUE]
  /\ Goto(t, "completed")
  /\ UNCHANGED <<next_stream_id, streams, exists, completed, mutex, acknowledged>>

\* completed_ = true
SetCompleted(t) ==
  /\ At(t, "completed") /\ call[t].op = "record"
  /\ completed' = [completed EXCEPT ![call[t].event] = TRUE]
  /\ Unlock(t) /\ Answer(t, "ok")
  /\ UNCHANGED <<next_stream_id, streams, exists, recorded, acknowledged>>

\* Varied: the early return for an event that is not recorded keeps the mutex.
NotRecorded_KeepsLock(t) ==
  /\ At(t, "recorded") /\ call[t].op # "record" /\ ~recorded[call[t].event]
  /\ Answer(t, "FailedPrecondition")
  /\ UNCHANGED <<next_stream_id, streams, events>>

\* The event is not recorded yet; building the error may run out of memory.
NotRecorded(t) ==
  /\ At(t, "recorded") /\ call[t].op # "record" /\ ~recorded[call[t].event]
  /\ Unlock(t)
  /\ Answer(t, "FailedPrecondition") \/ Answer(t, "bad_alloc")
  /\ UNCHANGED <<next_stream_id, streams, exists, recorded, completed, acknowledged>>

\* Varied: whoever has synchronized with an event resets it.
Synchronized_Resets(t) ==
  LET e == call[t].event IN
  /\ At(t, "recorded") /\ call[t].op \in {"synchronize", "wait"} /\ recorded[e]
  /\ recorded' = [recorded EXCEPT ![e] = FALSE]
  /\ Unlock(t) /\ Answer(t, "ok")
  /\ UNCHANGED <<next_stream_id, streams, exists, completed, acknowledged>>

\* synchronize() and wait() have nothing to wait for.
Synchronized(t) ==
  /\ At(t, "recorded") /\ call[t].op \in {"synchronize", "wait"} /\ recorded[call[t].event]
  /\ Unlock(t) /\ Answer(t, "ok")
  /\ UNCHANGED <<next_stream_id, streams, exists, recorded, completed, acknowledged>>

IsRecorded(t) ==
  /\ At(t, "recorded") /\ call[t].op = "query" /\ recorded[call[t].event]
  /\ Goto(t, "completed")
  /\ UNCHANGED <<next_stream_id, streams, events>>

ReadCompleted(t) ==
  /\ At(t, "completed") /\ call[t].op = "query"
  /\ Answer(t, IF completed[call[t].event] THEN "true" ELSE "false")
  /\ Unlock(t)
  /\ UNCHANGED <<next_stream_id, streams, exists, recorded, completed, acknowledged>>

\* The caller has its answer, and others may learn of it.
Return(t) ==
  LET f == call[t] IN
  /\ At(t, "return")
  /\ acknowledged' =
       IF f.event # NULL /\ f.reply \in {"ok", "true", "false"}
       THEN [acknowledged EXCEPT ![f.event] = TRUE] ELSE acknowledged
  /\ call' = [call EXCEPT ![t] = Idle]
  /\ UNCHANGED <<next_stream_id, streams, exists, recorded, completed, mutex>>

-----------------------------------------------------------------------------
Call(t) ==
  \/ \E d \in Device : CreateStream(t, d) \/ CreateEvent(t, d)
  \/ \E e \in Event, s \in StreamArg : UseStream(t, "record", e, s) \/ UseStream(t, "wait", e, s)
  \/ \E e \in Event : Ask(t, "query", e) \/ Ask(t, "synchronize", e)

Step(t) ==
  \/ FetchAdd(t) \/ MakeEvent(t) \/ Lock(t) \/ SetRecorded(t) \/ SetCompleted(t)
  \/ NotRecorded(t) \/ Synchronized(t) \/ IsRecorded(t) \/ ReadCompleted(t) \/ Return(t)

Next == \E t \in Thread : Call(t) \/ Step(t)

Spec == Init /\ [][Next]_cvars

\* A thread inside a member function goes on whenever it can.  The standard
\* promises nothing about who gets a contended mutex.
FairSpec == Spec /\ \A t \in Thread : WF_cvars(Step(t))

-----------------------------------------------------------------------------
(* The inductive invariant. *)

\* What the counter is about to hand out, relative to the ids before.
StreamInv ==
  \A i \in 1..Len(streams) :
    LET age == Len(streams) + 1 - i IN
    age <= IdLimit =>
      streams[i] = IF next_stream_id >= age THEN next_stream_id - age
                   ELSE next_stream_id - age + IdLimit

\* The counter before its first wraparound.
CountInv == Len(streams) < IdLimit - 1 => next_stream_id = Len(streams) + 1

\* Where a call may be, and that it holds the mutex exactly in a locked region.
LockInv ==
  \A t \in Thread :
    LET f == call[t] IN
    /\ f.pc \in {"lock", "recorded", "completed"} => f.event \in Event
    /\ f.pc = "completed" => f.op \in {"record", "query"}
    /\ f.pc \in {"fetch_add", "create_event"} => f.event = NULL
    /\ f.pc # "return" => f.reply = NULL
    /\ \A e \in Event :
         mutex[e] = t <=> f.pc \in {"recorded", "completed"} /\ f.event = e

\* The flags of an event differ only while the mutex is held to set the second.
FlagsInv ==
  /\ \A e \in Event :
       /\ completed[e] => recorded[e]
       /\ recorded[e] /\ ~completed[e] =>
            \E t \in Thread : mutex[e] = t /\ At(t, "completed") /\ call[t].op = "record"
       /\ acknowledged[e] => recorded[e]
  /\ \A t \in Thread :
       LET f == call[t] IN
       /\ At(t, "completed") => recorded[f.event]
       /\ f.event # NULL /\ (f.known \/ f.reply \in {"ok", "true", "false"}) => recorded[f.event]
       /\ f.known => f.event # NULL
       /\ f.reply # "false" /\ (f.known => f.reply # "FailedPrecondition")

IInv == TypeOK /\ StreamInv /\ CountInv /\ LockInv /\ FlagsInv

-----------------------------------------------------------------------------
CreatedApart ==
  \A i, j \in 1..Len(streams) : i < j /\ streams[i] = streams[j] => j - i >= IdLimit

DefaultIdIsFree ==
  \A i \in 1..Len(streams) : streams[i] = DefaultStreamId => i >= IdLimit

\* Two streams of a runtime have different ids, and none has the id of the default
\* stream, unless the counter has gone once around, however the threads that
\* create them interleave.
StreamsDistinct == CreatedApart /\ DefaultIdIsFree

\* Work on the CPU is done when it is submitted: a query that finds an event
\* recorded finds it completed, and never the state between the two flags.
NoHalfRecorded == \A t \in Thread : call[t].reply # "false"

\* Once somebody has been told that an event is recorded, nobody who asks
\* afterwards is told that it is not.
RecordedForAll ==
  \A t \in Thread : call[t].known => call[t].reply # "FailedPrecondition"

\* No event is left locked: a call that has begun returns, unless other calls
\* keep returning instead.
SomeCallReturns ==
  (\E t \in Thread : ~At(t, "idle")) ~> (\E t \in Thread : At(t, "return"))
=============================================================================
