------------------------------- MODULE DataPtr -------------------------------
(***************************************************************************)
(* core/data_ptr.h: the move-only owner of a piece of memory, in a thread. *)
(* A deleter is code of the program's: while one runs, other DataPtrs can  *)
(* be made, moved and reset, their deleters running inside.  The member    *)
(* functions that wait for a deleter to return form a stack.               *)
(***************************************************************************)
EXTENDS Integers, Sequences, FiniteSets

CONSTANTS
  Handle,    \* the DataPtr variables
  Block,     \* the pieces of memory
  Device,
  Cpu0,      \* Device{DeviceType::kCPU}
  Context,   \* what a deleter may be given besides the memory
  Bytes,     \* the sizes of the pieces of memory
  NULL

\* free_cpu_memory only frees; a deleter of the program's may do anything else.
Deleter == {"free_cpu_memory", "deleter"}

ASSUME DataPtrAssumption ==
  /\ Cpu0 \in Device
  /\ Bytes \subseteq Nat \ {0}
  /\ NULL \notin Handle \cup Block \cup Context \cup Deleter

\* The members of a DataPtr: allocation_, context_, deleter_.
Value == [data : Block \cup {NULL}, bytes : Bytes \cup {0}, device : Device,
          context : Context \cup {NULL}, deleter : Deleter \cup {NULL}]

Empty == [data |-> NULL, bytes |-> 0, device |-> Cpu0, context |-> NULL, deleter |-> NULL]

VARIABLES
  ptr,       \* ptr[x]: the members of handle x
  made,      \* made[b]: what the DataPtr of b was constructed from
  deletions, \* deletions[b]: how often a deleter was given b
  stack      \* the calls of reset() whose deleter is running, the latest last

dvars == <<ptr, made, deletions, stack>>

\* A reset() of dst, by the move assignment from src if there is one, that has
\* called its deleter with these arguments.
Frame == [dst : Handle, src : Handle \cup {NULL}, data : Block,
          context : Context \cup {NULL}, deleter : Deleter, done : BOOLEAN]

TypeOK ==
  /\ ptr \in [Handle -> Value]
  /\ made \in [Block -> Value]
  /\ deletions \in [Block -> 0..1]
  /\ stack \in Seq(Frame)

Init ==
  /\ ptr = [x \in Handle |-> Empty]
  /\ made = [b \in Block |-> Empty]
  /\ deletions = [b \in Block |-> 0]
  /\ stack = <<>>

-----------------------------------------------------------------------------
Top == stack[Len(stack)]

\* The program's own code runs: no member function is on the way, or the latest
\* is inside a deleter that may call others.
ProgramRuns == stack # <<>> => Top.deleter # "free_cpu_memory"

\* A deleter does not use the handles of the calls that are waiting for it.
Free(x) == \A i \in 1..Len(stack) : x # stack[i].dst /\ x # stack[i].src

Unused(b) == made[b] = Empty

\* DataPtr{{b, n, d}, c, f}: x takes hold of memory, or views it with no deleter.
Construct(x, b, value) ==
  /\ ProgramRuns /\ Free(x) /\ ptr[x] = Empty /\ Unused(b)
  /\ ptr' = [ptr EXCEPT ![x] = value]
  /\ made' = [made EXCEPT ![b] = value]
  /\ UNCHANGED <<deletions, stack>>

\* The move constructor: x is new.
MoveConstruct(x, y) ==
  /\ ProgramRuns /\ Free(x) /\ Free(y) /\ x # y /\ ptr[x] = Empty
  /\ ptr' = [ptr EXCEPT ![x] = ptr[y], ![y] = Empty]
  /\ UNCHANGED <<made, deletions, stack>>

\* Varied: context_ stays where it was.
Swap_ForgetsContext(x, y) ==
  /\ ProgramRuns /\ Free(x) /\ Free(y)
  /\ ptr' = [ptr EXCEPT ![x] = [ptr[y] EXCEPT !.context = ptr[x].context],
                        ![y] = [ptr[x] EXCEPT !.context = ptr[y].context]]
  /\ UNCHANGED <<made, deletions, stack>>

Swap(x, y) ==
  /\ ProgramRuns /\ Free(x) /\ Free(y)
  /\ ptr' = [ptr EXCEPT ![x] = ptr[y], ![y] = ptr[x]]
  /\ UNCHANGED <<made, deletions, stack>>

\* Varied: the members keep their values after the deleter.
Clear_Keeps(x, y) ==
  IF y = NULL THEN ptr ELSE [ptr EXCEPT ![x] = ptr[y], ![y] = Empty]

\* The end of reset(), and of the move assignment that called it.
Clear(x, y) ==
  IF y = NULL THEN [ptr EXCEPT ![x] = Empty]
  ELSE [ptr EXCEPT ![x] = ptr[y], ![y] = Empty]

\* Varied: the deleter is left out.
BeginReset_NoDeleter(x, y) ==
  /\ ProgramRuns /\ Free(x)
  /\ ptr' = Clear(x, y) /\ UNCHANGED <<made, deletions, stack>>

\* reset() calls the deleter before it clears the members.
BeginReset(x, y) ==
  LET v == ptr[x] IN
  /\ ProgramRuns /\ Free(x)
  /\ IF v.data # NULL /\ v.deleter # NULL
     THEN /\ stack' = Append(stack, [dst |-> x, src |-> y, data |-> v.data,
                context |-> v.context, deleter |-> v.deleter, done |-> FALSE])
          /\ UNCHANGED ptr
     ELSE ptr' = Clear(x, y) /\ UNCHANGED stack
  /\ UNCHANGED <<made, deletions>>

\* reset() and the destructor
Reset(x) == BeginReset(x, NULL)

\* x = std::move(y); x = std::move(x) is the early return.
MoveAssign(x, y) == x # y /\ Free(y) /\ BeginReset(x, y)

\* The deleter frees what it was given, at some point of its run ...
DeleterFrees ==
  /\ stack # <<>> /\ ~Top.done
  /\ deletions' = [deletions EXCEPT ![Top.data] = @ + 1]
  /\ stack' = [stack EXCEPT ![Len(stack)] = [@ EXCEPT !.done = TRUE]]
  /\ UNCHANGED <<ptr, made>>

\* ... and returns: the members are cleared, and a move assignment goes on.
DeleterReturns ==
  /\ stack # <<>> /\ Top.done
  /\ ptr' = Clear(Top.dst, Top.src)
  /\ stack' = SubSeq(stack, 1, Len(stack) - 1)
  /\ UNCHANGED <<made, deletions>>

-----------------------------------------------------------------------------
\* The memory a program brings itself.
Own(x, b) ==
  \E n \in Bytes, d \in Device, c \in Context \cup {NULL}, f \in {"deleter", NULL} :
    Construct(x, b, [data |-> b, bytes |-> n, device |-> d, context |-> c, deleter |-> f])

Next ==
  \/ \E x \in Handle, b \in Block : Own(x, b)
  \/ \E x, y \in Handle : MoveConstruct(x, y) \/ Swap(x, y) \/ MoveAssign(x, y)
  \/ \E x \in Handle : Reset(x)
  \/ DeleterFrees \/ DeleterReturns

Spec == Init /\ [][Next]_dvars

-----------------------------------------------------------------------------
\* The handle whose reset() is waiting for a deleter that has freed the memory.
Stale(x) == \E i \in 1..Len(stack) : stack[i].dst = x /\ stack[i].done

\* However handles are moved, swapped and assigned to, a handle that refers to
\* memory knows its size, device, context and deleter, and refers to it alone; and
\* a deleter is called with the memory and the context it was given for.
HandleIntact ==
  /\ \A x \in Handle :
       LET b == ptr[x].data IN
       IF b = NULL THEN ptr[x] = Empty
       ELSE ptr[x] = made[b] /\ \A y \in Handle \ {x} : ptr[y].data # b
  /\ \A i \in 1..Len(stack) :
       LET f == stack[i]
           v == made[f.data] IN
       f.data = v.data /\ f.context = v.context /\ f.deleter = v.deleter

\* Memory is given to a deleter once, and no handle a program may look at refers
\* to memory that has been freed.
FreedOnce ==
  /\ \A b \in Block : deletions[b] <= 1
  /\ \A x \in Handle : ptr[x].data # NULL /\ deletions[ptr[x].data] > 0 => Stale(x)

\* Memory that has a deleter and has not been freed has a handle that will free
\* it: no move and no assignment loses it.
NoLeak ==
  \A b \in Block : made[b].deleter # NULL /\ deletions[b] = 0 =>
    \E x \in Handle : ptr[x].data = b
=============================================================================
