--------------------------- MODULE AtomicRegistry ----------------------------
(***************************************************************************)
(* What RuntimeRegistry promises to the threads that share one: every call *)
(* takes effect at one instant between its invocation and its return, the  *)
(* first registration for a device type is the only one that succeeds, and *)
(* what it registered is what everybody gets from then on.                 *)
(***************************************************************************)
CONSTANTS
  Thread,
  Runtime,      \* the runtimes somebody may register
  DeviceType,   \* the valid device types
  InvalidType,  \* a value of the enumeration's type outside it
  TypeOf,       \* TypeOf[r]: what r's device_type() reports
  NULL

VARIABLES
  registered,   \* registered[d]: the runtime for device type d
  request,      \* request[t]: the call t is making
  reply         \* reply[t]: the answer it has got

avars == <<registered, request, reply>>

\* register_runtime(r) and get(d)
Requests ==
  [op : {"register"}, arg : Runtime \cup {NULL}]
    \cup [op : {"get"}, arg : DeviceType \cup {InvalidType}]

\* The device type a call is about, none for a null runtime.
TypeIn(q) ==
  IF q.op = "get" THEN q.arg ELSE IF q.arg = NULL THEN NULL ELSE TypeOf[q.arg]

AtomicInit ==
  /\ registered = [d \in DeviceType |-> NULL]
  /\ request = [t \in Thread |-> NULL]
  /\ reply = [t \in Thread |-> NULL]

Invoke(t, q) ==
  /\ request[t] = NULL
  /\ request' = [request EXCEPT ![t] = q]
  /\ UNCHANGED <<registered, reply>>

Answers(t, r) ==
  /\ request[t] # NULL /\ reply[t] = NULL
  /\ reply' = [reply EXCEPT ![t] = r]
  /\ UNCHANGED request

\* A call with an invalid argument, and one that runs out of memory, does nothing.
Reject(t) ==
  /\ TypeIn(request[t]) \notin DeviceType
  /\ Answers(t, "InvalidArgument")
  /\ UNCHANGED registered

Throw(t) == Answers(t, "bad_alloc") /\ UNCHANGED registered

Register(t) ==
  LET d == TypeIn(request[t]) IN
  /\ request[t].op = "register" /\ d \in DeviceType
  /\ IF registered[d] = NULL
     THEN Answers(t, "ok") /\ registered' = [registered EXCEPT ![d] = request[t].arg]
     ELSE Answers(t, "AlreadyExists") /\ UNCHANGED registered

Get(t) ==
  LET d == TypeIn(request[t]) IN
  /\ request[t].op = "get" /\ d \in DeviceType
  /\ Answers(t, IF registered[d] = NULL THEN "Unavailable" ELSE registered[d])
  /\ UNCHANGED registered

Leave(t) ==
  /\ reply[t] # NULL
  /\ request' = [request EXCEPT ![t] = NULL]
  /\ reply' = [reply EXCEPT ![t] = NULL]
  /\ UNCHANGED registered

AtomicNext ==
  \E t \in Thread :
    \/ \E q \in Requests : Invoke(t, q)
    \/ request[t] # NULL /\ (Reject(t) \/ Throw(t) \/ Register(t) \/ Get(t))
    \/ Leave(t)

AtomicSpec == AtomicInit /\ [][AtomicNext]_avars
=============================================================================
