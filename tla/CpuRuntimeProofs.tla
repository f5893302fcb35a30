--------------------------- MODULE CpuRuntimeProofs ---------------------------
(***************************************************************************)
(* The streams of a CpuRuntime are distinct and its events linear, for any *)
(* number of threads, events and streams and any width of the ids.         *)
(***************************************************************************)
EXTENDS CpuRuntime, TLAPS

\* NULL is not an answer.
LEMMA NullFacts == NULL \notin Reply /\ NULL \notin Event /\ NULL \notin Thread
  BY RuntimeAssumption

\* A frame of a running call.
LEMMA FrameFacts ==
  /\ Idle \in Frame
  /\ \A f \in Frame, l \in Label : [f EXCEPT !.pc = l] \in Frame
  /\ \A f \in Frame, r \in Reply : [f EXCEPT !.pc = "return", !.reply = r] \in Frame
  BY DEF Idle, Frame, Label, Op, Reply

\* At the start nothing has been made or recorded.
LEMMA InitIInv == Init => IInv
<1> SUFFICES ASSUME Init PROVE IInv
  OBVIOUS
<1>1. TypeOK
  <2>1. next_stream_id \in 0..(IdLimit - 1) /\ streams \in Seq(0..(IdLimit - 1))
    BY RuntimeAssumption DEF Init
  <2>2. call \in [Thread -> Frame] /\ mutex \in [Event -> Thread \cup {NULL}]
    BY FrameFacts DEF Init
  <2>3. /\ exists \in [Event -> BOOLEAN] /\ recorded \in [Event -> BOOLEAN]
        /\ completed \in [Event -> BOOLEAN] /\ acknowledged \in [Event -> BOOLEAN]
    BY DEF Init
  <2> QED
    BY <2>1, <2>2, <2>3 DEF TypeOK
<1>2. StreamInv /\ CountInv
  BY RuntimeAssumption DEF Init, StreamInv, CountInv
<1>3. /\ \A e \in Event : mutex[e] = NULL /\ ~recorded[e] /\ ~completed[e] /\ ~acknowledged[e]
      /\ \A t \in Thread : call[t] = Idle
  BY DEF Init
<1>4. /\ Idle.pc = "idle" /\ Idle.event = NULL /\ Idle.known = FALSE /\ Idle.reply = NULL
  BY DEF Idle
<1>5. LockInv
  BY <1>3, <1>4, NullFacts DEF LockInv
<1>6. FlagsInv
  <2>1. ASSUME NEW t \in Thread
        PROVE  /\ ~At(t, "completed") /\ call[t].event = NULL /\ ~call[t].known
               /\ call[t].reply # "false"
    BY <1>3, <1>4, NullFacts DEF At, Reply
  <2> QED
    BY <1>3, <2>1 DEF FlagsInv
<1> QED
  BY <1>1, <1>2, <1>5, <1>6 DEF IInv

-----------------------------------------------------------------------------
(* Streams. *)

\* The counter hands out an id, and the ids before are one step older.
LEMMA FetchAddStep ==
  ASSUME IInv, NEW t \in Thread, FetchAdd(t)
  PROVE  /\ streams' \in Seq(0..(IdLimit - 1)) /\ next_stream_id' \in 0..(IdLimit - 1)
         /\ StreamInv' /\ CountInv'
<1> DEFINE n == next_stream_id
<1>1. /\ n \in 0..(IdLimit - 1) /\ IdLimit \in Nat \ {0, 1} /\ streams \in Seq(0..(IdLimit - 1))
      /\ StreamInv /\ CountInv
  BY RuntimeAssumption DEF IInv, TypeOK
<1>2. /\ streams' = Append(streams, n)
      /\ next_stream_id' = IF n = IdLimit - 1 THEN 0 ELSE n + 1
  BY DEF FetchAdd
<1>3. /\ streams' \in Seq(0..(IdLimit - 1)) /\ Len(streams') = Len(streams) + 1
      /\ Len(streams) \in Nat
      /\ \A i \in 1..Len(streams) : streams'[i] = streams[i] /\ streams[i] \in 0..(IdLimit - 1)
      /\ streams'[Len(streams) + 1] = n
  BY <1>1, <1>2
<1>4. next_stream_id' \in 0..(IdLimit - 1)
  BY <1>1, <1>2
<1>5. StreamInv'
  <2> SUFFICES ASSUME NEW i \in 1..Len(streams'), Len(streams') + 1 - i <= IdLimit
               PROVE  streams'[i] =
                        IF next_stream_id' >= Len(streams') + 1 - i
                        THEN next_stream_id' - (Len(streams') + 1 - i)
                        ELSE next_stream_id' - (Len(streams') + 1 - i) + IdLimit
    BY DEF StreamInv
  <2>1. CASE i = Len(streams')
    <3>1. Len(streams') + 1 - i = 1 /\ streams'[i] = n
      BY <1>1, <1>3, <2>1
    <3>2. n = IF next_stream_id' >= 1 THEN next_stream_id' - 1 ELSE next_stream_id' - 1 + IdLimit
      BY <1>1, <1>2
    <3> QED
      BY <3>1, <3>2
  <2>2. CASE i # Len(streams')
    <3>1. i \in 1..Len(streams) /\ Len(streams) + 1 - i <= IdLimit - 1
      BY <1>1, <1>3, <2>2
    <3>2. streams[i] = IF n >= Len(streams) + 1 - i THEN n - (Len(streams) + 1 - i)
                       ELSE n - (Len(streams) + 1 - i) + IdLimit
      BY <1>1, <1>3, <3>1 DEF StreamInv
    <3> QED
      BY <1>1, <1>2, <1>3, <3>1, <3>2
  <2> QED
    BY <2>1, <2>2
<1>6. CountInv'
  BY <1>1, <1>2, <1>3 DEF CountInv
<1> QED
  BY <1>3, <1>4, <1>5, <1>6

-----------------------------------------------------------------------------
(* Events. *)

\* A thread that is not in a locked region changes nothing of the events but its
\* own frame and may create one.
LEMMA OwnFrame ==
  ASSUME IInv, NEW t \in Thread, NEW g \in Frame, call' = [call EXCEPT ![t] = g],
         UNCHANGED <<recorded, completed, mutex, acknowledged>>,
         call[t].pc \notin {"recorded", "completed"},
         g.pc \notin {"recorded", "completed"},
         g.pc = "lock" => g.event \in Event,
         g.pc \in {"fetch_add", "create_event"} => g.event = NULL,
         g.pc # "return" => g.reply = NULL,
         g.event # NULL /\ (g.known \/ g.reply \in {"ok", "true", "false"}) => recorded[g.event],
         g.known => g.event # NULL,
         g.reply # "false" /\ (g.known => g.reply # "FailedPrecondition")
  PROVE  LockInv' /\ FlagsInv'
<1>i. TypeOK /\ LockInv /\ FlagsInv
  BY DEF IInv
<1>1. call'[t] = g /\ \A u \in Thread \ {t} : call'[u] = call[u]
  BY <1>i DEF TypeOK
<1>2. LockInv'
  BY <1>i, <1>1 DEF LockInv
<1>3. FlagsInv'
  BY <1>i, <1>1 DEF FlagsInv, At
<1> QED
  BY <1>2, <1>3

\* A call begins, or has its answer at once.
LEMMA BeginInv ==
  ASSUME IInv, NEW t \in Thread, NEW f \in Frame, NEW v \in BOOLEAN,
         NEW l \in {"fetch_add", "create_event", "lock"},
         Begin(t, f, v, l), UNCHANGED <<next_stream_id, streams, events>>,
         IF l = "lock" THEN f.event \in Event ELSE f.event = NULL,
         f.known => f.event \in Event /\ acknowledged[f.event]
  PROVE  IInv'
<1>i. TypeOK /\ LockInv /\ FlagsInv /\ StreamInv /\ CountInv
  BY DEF IInv
<1>u. UNCHANGED <<next_stream_id, streams, exists, recorded, completed, mutex, acknowledged>>
  BY DEF events
<1>r. PICK r \in IF v THEN {NULL} ELSE {"InvalidArgument", "bad_alloc"} :
        call' = [call EXCEPT ![t] = [f EXCEPT !.pc = IF v THEN l ELSE "return", !.reply = r]]
  BY DEF Begin
<1> DEFINE g == [f EXCEPT !.pc = IF v THEN l ELSE "return", !.reply = r]
<1>1. /\ g \in Frame /\ g.pc = IF v THEN l ELSE "return"
      /\ IF v THEN g.reply = NULL ELSE g.reply \in {"InvalidArgument", "bad_alloc"}
      /\ g.known = f.known /\ g.event = f.event
  BY <1>r DEF Frame, Label, Reply
<1>2. call' = [call EXCEPT ![t] = g] /\ call[t].pc = "idle"
  BY <1>r DEF Begin, At
<1> HIDE DEF g
<1>3. /\ NULL \notin Reply /\ NULL \notin Event
  BY NullFacts
<1>4. f.known => recorded[f.event]
  BY <1>i DEF FlagsInv
<1>5. g.event # NULL /\ (g.known \/ g.reply \in {"ok", "true", "false"}) => recorded[g.event]
  BY <1>1, <1>3, <1>4 DEF Reply
<1>6. LockInv' /\ FlagsInv'
  BY <1>i, <1>u, <1>1, <1>2, <1>3, <1>5, OwnFrame DEF Reply
<1>7. TypeOK'
  BY <1>i, <1>u, <1>1, <1>2 DEF TypeOK
<1>8. StreamInv' /\ CountInv'
  BY <1>i, <1>u DEF StreamInv, CountInv
<1> QED
  BY <1>6, <1>7, <1>8 DEF IInv

\* Every call that begins keeps the invariant.
LEMMA CallInv ==
  ASSUME IInv, NEW t \in Thread, Call(t)
  PROVE  IInv'
<1>f. /\ Idle \in Frame
      /\ \A op \in Op : [Idle EXCEPT !.op = op] \in Frame
      /\ \A op \in Op : [Idle EXCEPT !.op = op].event = NULL /\ ~[Idle EXCEPT !.op = op].known
  BY FrameFacts DEF Idle, Frame
<1>g. ASSUME NEW op \in Op, NEW e \in Event, NEW k \in BOOLEAN
      PROVE  /\ [Idle EXCEPT !.op = op, !.event = e, !.known = k] \in Frame
             /\ [Idle EXCEPT !.op = op, !.event = e, !.known = k].event = e
             /\ [Idle EXCEPT !.op = op, !.event = e, !.known = k].known = k
  BY <1>f DEF Idle, Frame
<1>a. \A e \in Event : acknowledged[e] \in BOOLEAN
  BY DEF IInv, TypeOK
<1>1. ASSUME NEW d \in Device, CreateStream(t, d) PROVE IInv'
  <2> DEFINE f == [Idle EXCEPT !.op = "create_stream"]
  <2>1. f \in Frame /\ f.event = NULL /\ ~f.known
    BY <1>f DEF Op
  <2>2. Begin(t, f, ValidDevice(d), "fetch_add") /\ UNCHANGED <<next_stream_id, streams, events>>
    BY <1>1 DEF CreateStream
  <2>3. ValidDevice(d) \in BOOLEAN
    BY DEF ValidDevice
  <2> HIDE DEF f
  <2> QED
    BY <2>1, <2>2, <2>3, BeginInv
<1>2. ASSUME NEW d \in Device, CreateEvent(t, d) PROVE IInv'
  <2> DEFINE f == [Idle EXCEPT !.op = "create_event"]
  <2>1. f \in Frame /\ f.event = NULL /\ ~f.known
    BY <1>f DEF Op
  <2>2. Begin(t, f, ValidDevice(d), "create_event") /\ UNCHANGED <<next_stream_id, streams, events>>
    BY <1>2 DEF CreateEvent
  <2>3. ValidDevice(d) \in BOOLEAN
    BY DEF ValidDevice
  <2> HIDE DEF f
  <2> QED
    BY <2>1, <2>2, <2>3, BeginInv
<1>3. ASSUME NEW op \in Op, NEW e \in Event, NEW s \in StreamArg, UseStream(t, op, e, s)
      PROVE  IInv'
  <2> DEFINE f == [Idle EXCEPT !.op = op, !.event = e, !.known = acknowledged[e]]
  <2>1. f \in Frame /\ f.event = e /\ f.known = acknowledged[e]
    BY <1>a, <1>g, ZenonT(60)
  <2>2. Begin(t, f, ValidStream(s), "lock") /\ UNCHANGED <<next_stream_id, streams, events>>
    BY <1>3 DEF UseStream
  <2>3. ValidStream(s) \in BOOLEAN
    BY DEF ValidStream
  <2> HIDE DEF f
  <2> QED
    BY <2>1, <2>2, <2>3, BeginInv
<1>4. ASSUME NEW op \in Op, NEW e \in Event, Ask(t, op, e) PROVE IInv'
  <2> DEFINE f == [Idle EXCEPT !.op = op, !.event = e, !.known = acknowledged[e]]
  <2>1. f \in Frame /\ f.event = e /\ f.known = acknowledged[e]
    BY <1>a, <1>g, ZenonT(60)
  <2>2. Begin(t, f, TRUE, "lock") /\ UNCHANGED <<next_stream_id, streams, events>>
    BY <1>4 DEF Ask
  <2> HIDE DEF f
  <2> QED
    BY <2>1, <2>2, BeginInv
<1> QED
  BY <1>1, <1>2, <1>3, <1>4 DEF Call, Op

-----------------------------------------------------------------------------
\* A step that is outside the locked regions before and after.
LEMMA OutsideInv ==
  ASSUME IInv, NEW t \in Thread, FetchAdd(t) \/ MakeEvent(t)
  PROVE  IInv'
<1> DEFINE f == call[t]
<1>i. TypeOK /\ LockInv /\ FlagsInv /\ StreamInv /\ CountInv
  BY DEF IInv
<1>1. f \in Frame /\ f.pc \in {"fetch_add", "create_event"} /\ f.event = NULL
  BY <1>i DEF TypeOK, FetchAdd, MakeEvent, At, LockInv
<1>2. PICK r \in {"ok", "bad_alloc"} :
        call' = [call EXCEPT ![t] = [f EXCEPT !.pc = "return", !.reply = r]]
  BY <1>i DEF FetchAdd, MakeEvent, Answer, TypeOK
<1> DEFINE g == [f EXCEPT !.pc = "return", !.reply = r]
<1>3. g \in Frame /\ g.pc = "return" /\ g.reply = r /\ g.event = NULL /\ g.known = f.known
  <2>1. r \in Reply
    BY DEF Reply
  <2>2. g \in Frame
    BY <1>1, <2>1, FrameFacts
  <2> QED
    BY <1>1, <2>2 DEF Frame
<1>4. ~f.known
  BY <1>1, <1>i DEF FlagsInv
<1>5. call' = [call EXCEPT ![t] = g]
  BY <1>2
<1> HIDE DEF g
<1>6. UNCHANGED <<recorded, completed, mutex, acknowledged>>
  BY DEF FetchAdd, MakeEvent, events
<1>7. LockInv' /\ FlagsInv'
  BY <1>1, <1>3, <1>4, <1>5, <1>6, OwnFrame
<1>8. StreamInv' /\ CountInv' /\ streams' \in Seq(0..(IdLimit - 1))
      /\ next_stream_id' \in 0..(IdLimit - 1)
  <2>1. CASE FetchAdd(t)
    BY <2>1, FetchAddStep
  <2>2. CASE MakeEvent(t)
    BY <2>2, <1>i DEF MakeEvent, TypeOK, StreamInv, CountInv
  <2> QED
    BY <2>1, <2>2
<1>9. exists' \in [Event -> BOOLEAN]
  BY <1>i DEF FetchAdd, MakeEvent, events, TypeOK
<1>10. TypeOK'
  BY <1>i, <1>3, <1>5, <1>6, <1>8, <1>9 DEF TypeOK
<1> QED
  BY <1>7, <1>8, <1>10 DEF IInv

\* The caller gets its answer, and what it says of the event becomes known.
LEMMA ReturnInv ==
  ASSUME IInv, NEW t \in Thread, Return(t)
  PROVE  IInv'
<1> DEFINE f == call[t]
<1>i. TypeOK /\ LockInv /\ FlagsInv /\ StreamInv /\ CountInv
  BY DEF IInv
<1>u. UNCHANGED <<next_stream_id, streams, exists, recorded, completed, mutex>>
  BY DEF Return
<1>1. /\ Idle \in Frame /\ Idle.pc = "idle" /\ Idle.event = NULL /\ Idle.known = FALSE
      /\ Idle.reply = NULL /\ NULL # "false"
  BY FrameFacts, NullFacts DEF Idle, Reply
<1>2. f \in Frame /\ f.pc = "return"
  BY <1>i DEF TypeOK, Return, At
<1>3. call'[t] = Idle /\ \A u \in Thread \ {t} : call'[u] = call[u]
  BY <1>i DEF TypeOK, Return
<1>4. /\ acknowledged' \in [Event -> BOOLEAN]
      /\ \A e \in Event : acknowledged'[e] => recorded[e]
  BY <1>i, <1>2 DEF TypeOK, Return, FlagsInv, Frame
<1>5. TypeOK'
  BY <1>i, <1>u, <1>1, <1>4 DEF TypeOK, Return
<1>6. LockInv'
  BY <1>i, <1>u, <1>1, <1>2, <1>3 DEF LockInv
<1>7. FlagsInv'
  BY <1>i, <1>u, <1>1, <1>2, <1>3, <1>4 DEF FlagsInv, At
<1>8. StreamInv' /\ CountInv'
  BY <1>i, <1>u DEF StreamInv, CountInv
<1> QED
  BY <1>5, <1>6, <1>7, <1>8 DEF IInv

-----------------------------------------------------------------------------
\* A step that takes an event's mutex, or is taken while it is held.
LEMMA LockedStep ==
  ASSUME IInv, NEW t \in Thread, NEW e \in Event, NEW g \in Frame,
         call' = [call EXCEPT ![t] = g],
         UNCHANGED <<next_stream_id, streams, exists, acknowledged>>,
         call[t].pc \in {"lock", "recorded", "completed"}, call[t].event = e,
         call[t].pc = "lock" => mutex[e] = NULL,
         g.pc \in {"recorded", "completed", "return"}, g.event = e, g.known = call[t].known,
         mutex' = [mutex EXCEPT ![e] = IF g.pc = "return" THEN NULL ELSE t],
         recorded' \in [Event -> BOOLEAN], completed' \in [Event -> BOOLEAN],
         \A o \in Event \ {e} : recorded'[o] = recorded[o] /\ completed'[o] = completed[o],
         recorded[e] => recorded'[e],
         completed'[e] => recorded'[e],
         recorded'[e] /\ ~completed'[e] => g.pc = "completed" /\ g.op = "record",
         g.pc = "completed" => recorded'[e] /\ g.op \in {"record", "query"},
         g.pc # "return" => g.reply = NULL,
         g.reply \in {"ok", "true"} => recorded'[e],
         g.reply = "FailedPrecondition" => ~recorded[e],
         g.reply # "false"
  PROVE  IInv'
<1>i. TypeOK /\ LockInv /\ FlagsInv /\ StreamInv /\ CountInv
  BY DEF IInv
<1>1. call'[t] = g /\ \A u \in Thread \ {t} : call'[u] = call[u]
  BY <1>i DEF TypeOK
<1>2. /\ mutex' \in [Event -> Thread \cup {NULL}]
      /\ mutex'[e] = IF g.pc = "return" THEN NULL ELSE t
      /\ \A o \in Event \ {e} : mutex'[o] = mutex[o]
  BY <1>i DEF TypeOK
<1>3. mutex[e] \in {NULL, t} /\ NULL \notin Thread
  BY <1>i, NullFacts DEF LockInv
<1>4. \A u \in Thread \ {t} : ~(call[u].pc \in {"recorded", "completed"} /\ call[u].event = e)
  BY <1>i, <1>3 DEF LockInv
<1>5. TypeOK'
  BY <1>i, <1>2 DEF TypeOK
<1>6. LockInv'
  BY <1>i, <1>1, <1>2, <1>3, <1>4, NullFacts DEF LockInv
<1>7. \A o \in Event : recorded[o] => recorded'[o]
  OBVIOUS
<1>8. FlagsInv'
  <2>1. ASSUME NEW o \in Event
        PROVE  /\ completed'[o] => recorded'[o]
               /\ recorded'[o] /\ ~completed'[o] =>
                    \E u \in Thread : /\ mutex'[o] = u /\ call'[u].pc = "completed"
                                     /\ call'[u].op = "record"
               /\ acknowledged'[o] => recorded'[o]
    <3>1. CASE o = e
      BY <1>i, <1>1, <1>2, <3>1 DEF FlagsInv
    <3>2. CASE o # e
      BY <1>i, <1>1, <1>2, <1>4, <3>2 DEF FlagsInv, At, LockInv
    <3> QED
      BY <3>1, <3>2
  <2>2. ASSUME NEW u \in Thread
        PROVE  /\ call'[u].pc = "completed" => recorded'[call'[u].event]
               /\ call'[u].event # NULL /\ (call'[u].known \/ call'[u].reply \in {"ok", "true", "false"})
                    => recorded'[call'[u].event]
               /\ call'[u].known => call'[u].event # NULL
               /\ call'[u].reply # "false"
               /\ call'[u].known => call'[u].reply # "FailedPrecondition"
    <3>1. CASE u = t
      BY <1>i, <1>1, <3>1, NullFacts DEF FlagsInv
    <3>2. CASE u # t
      BY <1>i, <1>1, <1>7, <3>2 DEF FlagsInv, At, TypeOK, Frame, LockInv
    <3> QED
      BY <3>1, <3>2
  <2> QED
    BY <2>1, <2>2 DEF FlagsInv, At
<1>9. StreamInv' /\ CountInv'
  BY <1>i DEF StreamInv, CountInv
<1> QED
  BY <1>5, <1>6, <1>8, <1>9 DEF IInv
\* The steps of a call inside a locked region, with what they do to the flags.
LEMMA LockedInv ==
  ASSUME IInv, NEW t \in Thread,
         \/ Lock(t) \/ SetRecorded(t) \/ SetCompleted(t) \/ NotRecorded(t)
         \/ Synchronized(t) \/ IsRecorded(t) \/ ReadCompleted(t)
  PROVE  IInv'
<1> DEFINE f == call[t]
<1> DEFINE e == f.event
<1>i. TypeOK /\ LockInv /\ FlagsInv
  BY DEF IInv
<1>1. /\ f \in Frame /\ e \in Event /\ f.pc \in {"lock", "recorded", "completed"}
      /\ f.reply = NULL
  BY <1>i DEF TypeOK, LockInv, At, Lock, SetRecorded, SetCompleted, NotRecorded, Synchronized,
              IsRecorded, ReadCompleted
<1>2. /\ \A l \in Label : /\ [f EXCEPT !.pc = l] \in Frame /\ [f EXCEPT !.pc = l].pc = l
                          /\ [f EXCEPT !.pc = l].op = f.op /\ [f EXCEPT !.pc = l].event = e
                          /\ [f EXCEPT !.pc = l].known = f.known
                          /\ [f EXCEPT !.pc = l].reply = NULL
  BY <1>1 DEF Frame
<1>3. ASSUME NEW r \in Reply
      PROVE  LET g == [f EXCEPT !.pc = "return", !.reply = r] IN
             /\ g \in Frame /\ g.pc = "return" /\ g.event = e /\ g.known = f.known
             /\ g.reply = r
  BY <1>1, FrameFacts, ZenonT(60) DEF Frame
<1>4. /\ recorded \in [Event -> BOOLEAN] /\ completed \in [Event -> BOOLEAN]
      /\ mutex \in [Event -> Thread \cup {NULL}] /\ call \in [Thread -> Frame]
      /\ completed[e] => recorded[e]
  BY <1>i, <1>1 DEF TypeOK, FlagsInv
<1>5. NULL \notin Reply /\ NULL \notin Thread
  BY NullFacts
<1>6. f.pc \in {"recorded", "completed"} => mutex[e] = t /\ mutex = [mutex EXCEPT ![e] = t]
  BY <1>i, <1>1, <1>4 DEF LockInv
<1>7. f.pc # "completed" /\ (f.pc = "recorded" \/ mutex[e] = NULL) => (recorded[e] => completed[e])
  BY <1>i, <1>1, <1>5, <1>6 DEF FlagsInv, At
<1>8. CASE Lock(t)
  <2> DEFINE g == [f EXCEPT !.pc = "recorded"]
  <2>1. /\ f.pc = "lock" /\ mutex[e] = NULL /\ mutex' = [mutex EXCEPT ![e] = t]
        /\ call' = [call EXCEPT ![t] = g]
        /\ UNCHANGED <<next_stream_id, streams, exists, recorded, completed, acknowledged>>
    BY <1>8, <1>4 DEF Lock, At, Goto
  <2>2. /\ g \in Frame /\ g.pc = "recorded" /\ g.event = e /\ g.known = f.known
        /\ g.reply = NULL
    BY <1>2 DEF Label
  <2>3. recorded[e] => completed[e]
    BY <1>7, <2>1
  <2> HIDE DEF g
  <2> QED
    BY <1>1, <1>4, <1>5, <2>1, <2>2, <2>3, LockedStep DEF Reply
<1>9. CASE SetRecorded(t)
  <2> DEFINE g == [f EXCEPT !.pc = "completed"]
  <2>1. /\ f.pc = "recorded" /\ f.op = "record" /\ recorded' = [recorded EXCEPT ![e] = TRUE]
        /\ call' = [call EXCEPT ![t] = g]
        /\ UNCHANGED <<next_stream_id, streams, exists, completed, mutex, acknowledged>>
    BY <1>9, <1>4 DEF SetRecorded, At, Goto
  <2>2. /\ g \in Frame /\ g.pc = "completed" /\ g.event = e /\ g.known = f.known
        /\ g.reply = NULL /\ g.op = "record"
    BY <1>2, <2>1 DEF Label
  <2>3. mutex' = [mutex EXCEPT ![e] = IF g.pc = "return" THEN NULL ELSE t]
    BY <1>6, <2>1, <2>2
  <2>4. /\ recorded' \in [Event -> BOOLEAN] /\ recorded'[e]
        /\ \A o \in Event \ {e} : recorded'[o] = recorded[o] /\ completed'[o] = completed[o]
    BY <1>1, <1>4, <2>1
  <2> HIDE DEF g
  <2> QED
    BY <1>1, <1>4, <1>5, <2>1, <2>2, <2>3, <2>4, LockedStep DEF Reply
<1>10. CASE SetCompleted(t)
  <2> DEFINE g == [f EXCEPT !.pc = "return", !.reply = "ok"]
  <2>1. /\ f.pc = "completed" /\ f.op = "record" /\ completed' = [completed EXCEPT ![e] = TRUE]
        /\ call' = [call EXCEPT ![t] = g] /\ mutex' = [mutex EXCEPT ![e] = NULL]
        /\ UNCHANGED <<next_stream_id, streams, exists, recorded, acknowledged>>
    BY <1>10, <1>4 DEF SetCompleted, At, Answer, Unlock
  <2>2. /\ g \in Frame /\ g.pc = "return" /\ g.event = e /\ g.known = f.known
        /\ g.reply = "ok"
    BY <1>3 DEF Reply
  <2>3. recorded[e]
    BY <1>i, <2>1 DEF FlagsInv, At
  <2>4. /\ completed' \in [Event -> BOOLEAN] /\ completed'[e]
        /\ \A o \in Event \ {e} : recorded'[o] = recorded[o] /\ completed'[o] = completed[o]
    BY <1>1, <1>4, <2>1
  <2> HIDE DEF g
  <2> QED
    BY <1>1, <1>4, <1>5, <2>1, <2>2, <2>3, <2>4, LockedStep DEF Reply
<1>11. CASE NotRecorded(t)
  <2>1. /\ f.pc = "recorded" /\ ~recorded[e] /\ mutex' = [mutex EXCEPT ![e] = NULL]
        /\ UNCHANGED <<next_stream_id, streams, exists, recorded, completed, acknowledged>>
    BY <1>11 DEF NotRecorded, At, Unlock
  <2>2. PICK r \in {"FailedPrecondition", "bad_alloc"} :
          call' = [call EXCEPT ![t] = [f EXCEPT !.pc = "return", !.reply = r]]
    BY <1>11, <1>4 DEF NotRecorded, Answer
  <2> DEFINE g == [f EXCEPT !.pc = "return", !.reply = r]
  <2>3. /\ g \in Frame /\ g.pc = "return" /\ g.event = e /\ g.known = f.known
        /\ g.reply = r
    BY <1>3 DEF Reply
  <2>4. call' = [call EXCEPT ![t] = g]
    BY <2>2
  <2> HIDE DEF g
  <2> QED
    BY <1>1, <1>4, <1>5, <2>1, <2>3, <2>4, LockedStep
<1>12. CASE Synchronized(t)
  <2> DEFINE g == [f EXCEPT !.pc = "return", !.reply = "ok"]
  <2>1. /\ f.pc = "recorded" /\ recorded[e] /\ mutex' = [mutex EXCEPT ![e] = NULL]
        /\ call' = [call EXCEPT ![t] = g]
        /\ UNCHANGED <<next_stream_id, streams, exists, recorded, completed, acknowledged>>
    BY <1>12, <1>4 DEF Synchronized, At, Answer, Unlock
  <2>2. /\ g \in Frame /\ g.pc = "return" /\ g.event = e /\ g.known = f.known
        /\ g.reply = "ok"
    BY <1>3 DEF Reply
  <2>3. completed[e]
    BY <1>7, <2>1
  <2> HIDE DEF g
  <2> QED
    BY <1>1, <1>4, <1>5, <2>1, <2>2, <2>3, LockedStep DEF Reply
<1>13. CASE IsRecorded(t)
  <2> DEFINE g == [f EXCEPT !.pc = "completed"]
  <2>1. /\ f.pc = "recorded" /\ f.op = "query" /\ recorded[e]
        /\ call' = [call EXCEPT ![t] = g]
        /\ UNCHANGED <<next_stream_id, streams, exists, recorded, completed, mutex, acknowledged>>
    BY <1>13, <1>4 DEF IsRecorded, At, Goto, events
  <2>2. /\ g \in Frame /\ g.pc = "completed" /\ g.event = e /\ g.known = f.known
        /\ g.reply = NULL /\ g.op = "query"
    BY <1>2, <2>1 DEF Label
  <2>3. mutex' = [mutex EXCEPT ![e] = IF g.pc = "return" THEN NULL ELSE t]
    BY <1>6, <2>1, <2>2
  <2>4. completed[e]
    BY <1>7, <2>1
  <2> HIDE DEF g
  <2> QED
    BY <1>1, <1>4, <1>5, <2>1, <2>2, <2>3, <2>4, LockedStep DEF Reply
<1>14. CASE ReadCompleted(t)
  <2> DEFINE g == [f EXCEPT !.pc = "return", !.reply = "true"]
  <2>1. /\ f.pc = "completed" /\ f.op = "query" /\ mutex' = [mutex EXCEPT ![e] = NULL]
        /\ UNCHANGED <<next_stream_id, streams, exists, recorded, completed, acknowledged>>
    BY <1>14 DEF ReadCompleted, At, Unlock
  <2>2. recorded[e] /\ completed[e]
    BY <1>i, <1>1, <1>6, <2>1 DEF FlagsInv, At
  <2>3. call' = [call EXCEPT ![t] = g]
    BY <1>14, <1>4, <2>2 DEF ReadCompleted, Answer
  <2>4. /\ g \in Frame /\ g.pc = "return" /\ g.event = e /\ g.known = f.known
        /\ g.reply = "true"
    BY <1>3 DEF Reply
  <2> HIDE DEF g
  <2> QED
    BY <1>1, <1>4, <1>5, <2>1, <2>2, <2>3, <2>4, LockedStep DEF Reply
<1> QED
  BY <1>8, <1>9, <1>10, <1>11, <1>12, <1>13, <1>14

\* Every step keeps the invariant.
LEMMA NextIInv ==
  ASSUME IInv, [Next]_cvars
  PROVE  IInv'
<1>1. CASE UNCHANGED cvars
  BY <1>1 DEF cvars, IInv, TypeOK, StreamInv, CountInv, LockInv, FlagsInv, At
<1>2. ASSUME NEW t \in Thread, Call(t) \/ Step(t) PROVE IInv'
  BY <1>2, CallInv, OutsideInv, ReturnInv, LockedInv DEF Step
<1> QED
  BY <1>1, <1>2 DEF Next

-----------------------------------------------------------------------------
\* The ids, the mutexes and the flags are consistent whatever the threads do.
THEOREM RuntimeInvariance == Spec => []IInv
<1>1. Init => IInv
  BY InitIInv
<1>2. IInv /\ [Next]_cvars => IInv'
  BY NextIInv
<1> QED
  BY <1>1, <1>2, PTL DEF Spec

\* Only fetch_add makes a stream, and it gives it the value of the counter.
LEMMA StreamStep ==
  ASSUME IInv, [Next]_cvars
  PROVE  \/ UNCHANGED streams
         \/ /\ Len(streams') = Len(streams) + 1 /\ Len(streams) \in Nat
            /\ \A i \in 1..Len(streams) : streams'[i] = streams[i]
            /\ streams'[Len(streams) + 1] = next_stream_id
<1>1. CASE UNCHANGED cvars
  BY <1>1 DEF cvars
<1>2. ASSUME NEW t \in Thread, Call(t) PROVE UNCHANGED streams
  BY <1>2 DEF Call, CreateStream, CreateEvent, UseStream, Ask
<1>3. ASSUME NEW t \in Thread, Step(t), ~FetchAdd(t) PROVE UNCHANGED streams
  BY <1>3 DEF Step, MakeEvent, Lock, SetRecorded, SetCompleted, NotRecorded, Synchronized,
              IsRecorded, ReadCompleted, Return
<1>4. ASSUME NEW t \in Thread, FetchAdd(t)
      PROVE  /\ Len(streams') = Len(streams) + 1 /\ Len(streams) \in Nat
             /\ \A i \in 1..Len(streams) : streams'[i] = streams[i]
             /\ streams'[Len(streams) + 1] = next_stream_id
  <2>1. /\ streams \in Seq(0..(IdLimit - 1)) /\ next_stream_id \in 0..(IdLimit - 1)
        /\ streams' = Append(streams, next_stream_id)
    BY <1>4 DEF IInv, TypeOK, FetchAdd
  <2> QED
    BY <2>1
<1> QED
  BY <1>1, <1>2, <1>3, <1>4 DEF Next

\* fetch_add gives every stream an id of its own until the 64 bits are used up.
LEMMA CreatedStreamsApart == Spec => []CreatedApart
<1>1. Init => CreatedApart
  BY DEF Init, CreatedApart
<1>2. IInv /\ CreatedApart /\ [Next]_cvars => CreatedApart'
  <2> SUFFICES ASSUME IInv, CreatedApart, [Next]_cvars,
                      NEW i \in 1..Len(streams'), NEW j \in 1..Len(streams'),
                      i < j, streams'[i] = streams'[j]
               PROVE  j - i >= IdLimit
    BY DEF CreatedApart
  <2>t. /\ Len(streams) \in Nat /\ IdLimit \in Nat /\ next_stream_id \in 0..(IdLimit - 1)
        /\ StreamInv
    BY RuntimeAssumption DEF IInv, TypeOK
  <2>1. CASE UNCHANGED streams
    BY <2>1 DEF CreatedApart
  <2>2. CASE /\ Len(streams') = Len(streams) + 1
             /\ \A k \in 1..Len(streams) : streams'[k] = streams[k]
             /\ streams'[Len(streams) + 1] = next_stream_id
    <3>1. i \in 1..Len(streams) /\ streams'[i] = streams[i]
      BY <2>t, <2>2
    <3>2. CASE j = Len(streams) + 1
      <4>1. streams[i] = next_stream_id
        BY <2>2, <3>1, <3>2
      <4> QED
        BY <2>t, <3>1, <3>2, <4>1 DEF StreamInv
    <3>3. CASE j # Len(streams) + 1
      <4>1. j \in 1..Len(streams) /\ streams'[j] = streams[j]
        BY <2>t, <2>2, <3>3
      <4>2. i < j /\ streams[i] = streams[j]
        BY <3>1, <4>1
      <4> QED
        BY <3>1, <4>1, <4>2 DEF CreatedApart
    <3> QED
      BY <3>2, <3>3
  <2> QED
    BY <2>1, <2>2, StreamStep
<1> QED
  BY <1>1, <1>2, RuntimeInvariance, PTL DEF Spec

\* The counter starts at 1, and comes to 0 only when it wraps.
LEMMA DefaultIdIsReserved == Spec => []DefaultIdIsFree
<1>1. Init => DefaultIdIsFree
  BY DEF Init, DefaultIdIsFree
<1>2. IInv /\ DefaultIdIsFree /\ [Next]_cvars => DefaultIdIsFree'
  <2> SUFFICES ASSUME IInv, DefaultIdIsFree, [Next]_cvars,
                      NEW i \in 1..Len(streams'), streams'[i] = 0
               PROVE  i >= IdLimit
    BY DEF DefaultIdIsFree, DefaultStreamId
  <2>t. Len(streams) \in Nat /\ IdLimit \in Nat /\ CountInv
    BY RuntimeAssumption DEF IInv, TypeOK
  <2>1. CASE UNCHANGED streams
    BY <2>1 DEF DefaultIdIsFree, DefaultStreamId
  <2>2. CASE /\ Len(streams') = Len(streams) + 1
             /\ \A k \in 1..Len(streams) : streams'[k] = streams[k]
             /\ streams'[Len(streams) + 1] = next_stream_id
    BY <2>t, <2>2 DEF DefaultIdIsFree, DefaultStreamId, CountInv
  <2> QED
    BY <2>1, <2>2, StreamStep
<1> QED
  BY <1>1, <1>2, RuntimeInvariance, PTL DEF Spec

\* Streams that share an id are as far apart as the counter is wide.
THEOREM StreamIdsAreDistinct == Spec => []StreamsDistinct
<1>1. CreatedApart /\ DefaultIdIsFree => StreamsDistinct
  BY DEF StreamsDistinct
<1> QED
  BY <1>1, CreatedStreamsApart, DefaultIdIsReserved, PTL

\* A query on the CPU never sees an event that is recorded and not completed.
THEOREM NeverHalfRecorded == Spec => []NoHalfRecorded
<1>1. IInv => NoHalfRecorded
  BY DEF IInv, FlagsInv, NoHalfRecorded
<1> QED
  BY <1>1, RuntimeInvariance, PTL

\* What one thread was told of an event holds for whoever asks after it.
THEOREM RecordedIsFinal == Spec => []RecordedForAll
<1>1. IInv => RecordedForAll
  BY DEF IInv, FlagsInv, RecordedForAll
<1> QED
  BY <1>1, RuntimeInvariance, PTL
=============================================================================
