--------------------------- MODULE OwnershipGraph ---------------------------
(***************************************************************************)
(* Targets of include/gradyx/core/intrusive_ptr.h whose members are        *)
(* handles again, in one thread.  Destroying a target destroys its         *)
(* members, which may destroy further targets, and a destructor's body is  *)
(* code of the program's that calls member functions while others wait for *)
(* it to return.  IntrusivePtr has the counts; here a reference is the     *)
(* last of its target when no other handle refers to it, which is what an  *)
(* exact count says.                                                       *)
(***************************************************************************)
EXTENDS Integers, Sequences

CONSTANTS
  Object,      \* the targets
  StrongVar,   \* the IntrusivePtr variables
  WeakVar,     \* the WeakIntrusivePtr variables
  StrongField, \* the IntrusivePtr members of each target
  WeakField,   \* the WeakIntrusivePtr members of each target
  NULL         \* nullptr

StrongHandle == StrongVar \cup (Object \X StrongField)

WeakHandle == WeakVar \cup (Object \X WeakField)

\* A target refers to its own control block: the implicit weak reference.
Watching == WeakHandle \cup Object

ASSUME GraphAssumption ==
  /\ StrongHandle \cap Watching = {}
  /\ StrongVar \cap (Object \X StrongField) = {}
  /\ WeakVar \cap (Object \X WeakField) = {}
  /\ Object \cap WeakHandle = {}
  /\ NULL \notin Object \cup StrongHandle \cup WeakHandle

VARIABLES
  ptr,       \* ptr[h]: what handle h refers to
  life,      \* life[o]: what has happened to target o and its control block
  stack,     \* the member functions that have not returned, the latest last
  undefined  \* a handle that is gone has been used

gvars == <<ptr, life, stack, undefined>>

\* A destruction of obj, in the body of its destructor or destroying its
\* members, or the release of its control block, and the move assignment it is
\* part of, which still has to take src's reference.  kept: nothing that the
\* assignment still needs was owned through dst alone.
Frame == [pc : {"body", "members", "base", "free", "take"}, obj : Object \cup {NULL},
          dst : StrongHandle \cup {NULL}, src : StrongHandle \cup {NULL}, kept : BOOLEAN]

Life == {"none", "alive", "destroying", "destroyed", "reclaimed"}

GraphTypeOK ==
  /\ ptr \in [StrongHandle \cup Watching -> Object \cup {NULL}]
  /\ life \in [Object -> Life]
  /\ stack \in Seq(Frame)
  /\ undefined \in BOOLEAN

GraphInit ==
  /\ ptr = [h \in StrongHandle \cup Watching |-> NULL]
  /\ life = [o \in Object |-> "none"]
  /\ stack = <<>>
  /\ undefined = FALSE

-----------------------------------------------------------------------------
(* Who can reach what. *)

Fields(o) == {o} \X StrongField

\* The targets that the handles H keep alive, directly or through members of
\* others, with handle x left out: the least set they and it lead into.
Kept(H, x) ==
  LET Into(G, S) == \A h \in G \ {x} : ptr[h] \in S \cup {NULL}
      Closed == {S \in SUBSET Object : Into(H, S) /\ \A p \in S : Into(Fields(p), S)} IN
  {o \in Object : \A S \in Closed : o \in S}

Top == stack[Len(stack)]

\* The target whose destructor's body is running the program's code.
Here == IF stack # <<>> /\ Top.pc = "body" THEN {Top.obj} ELSE {}

\* What the program starts from: the variables, and the members of that target.
Roots == StrongVar \cup (Here \X StrongField)

\* The program's own code runs, in a destructor's body or outside any.
ProgramRuns == ~undefined /\ (stack # <<>> => Top.pc = "body")

\* The handles that are there for the program: its variables, and the members of
\* targets it can reach.  It leaves alone what a waiting assignment still uses.
InScope ==
  {h \in StrongVar \cup WeakVar
           \cup ((Kept(Roots, NULL) \cup Here) \X (StrongField \cup WeakField)) :
     \A i \in 1..Len(stack) : h # stack[i].dst /\ h # stack[i].src}

\* The memory of the handle has been given back with its target.
Gone(h) == h \notin StrongVar /\ life[h[1]] \in {"destroyed", "reclaimed"}

\* Calls that wait cannot count on the program leaving things as they were.
Disturbed == [i \in 1..Len(stack) |-> [stack[i] EXCEPT !.kept = FALSE]]

Owned(o) == \E h \in StrongHandle : ptr[h] = o

\* Varied: a member is taken for the only owner of what it refers to.
LastStrong_Member(h) == h \notin StrongVar \/ \A g \in StrongHandle \ {h} : ptr[g] # ptr[h]

\* The count of h's target was 1: no other handle refers to it.
LastStrong(h) == \A g \in StrongHandle \ {h} : ptr[g] # ptr[h]

LastWeak(h) == \A g \in Watching \ {h} : ptr[g] # ptr[h]

NewFrame(pc, o, dst, src, kept) == [pc |-> pc, obj |-> o, dst |-> dst, src |-> src, kept |-> kept]

\* reset() of h on behalf of the calls in s: the member is cleared first, and the
\* last reference starts the destruction.  A move assignment goes on with src.
Release(h, s, dst, src, kept) ==
  LET o == ptr[h] IN
  /\ ptr' = [ptr EXCEPT ![h] = NULL]
  /\ IF o # NULL /\ LastStrong(h)
     THEN /\ life' = [life EXCEPT ![o] = "destroying"]
          /\ stack' = Append(s, NewFrame("body", o, dst, src, kept))
     ELSE /\ stack' = IF src = NULL THEN s ELSE Append(s, NewFrame("take", NULL, dst, src, kept))
          /\ UNCHANGED life

ReleaseWeak(h, s) ==
  LET o == ptr[h] IN
  /\ ptr' = [ptr EXCEPT ![h] = NULL]
  /\ stack' = IF o # NULL /\ LastWeak(h)
              THEN Append(s, NewFrame("free", o, NULL, NULL, FALSE)) ELSE s
  /\ UNCHANGED life

-----------------------------------------------------------------------------
(* What the program can do, outside and inside the body of a destructor. *)

\* x = make_intrusive<T>(...), x being new
Make(x, o) ==
  /\ ProgramRuns /\ ptr[x] = NULL /\ life[o] = "none"
  /\ ptr' = [ptr EXCEPT ![x] = o, ![o] = o]
  /\ life' = [life EXCEPT ![o] = "alive"]
  /\ stack' = Disturbed
  /\ UNCHANGED undefined

\* x{y} and x = y: `copy` takes the new reference, is swapped in and, at the end,
\* releases the old one.  x = x is the early return.
Copy(x, y) ==
  LET old == ptr[x] IN
  /\ ProgramRuns /\ x # y
  /\ ptr' = [ptr EXCEPT ![x] = ptr[y]]
  /\ IF old # NULL /\ old # ptr[y] /\ LastStrong(x)
     THEN /\ life' = [life EXCEPT ![old] = "destroying"]
          /\ stack' = Append(Disturbed, NewFrame("body", old, NULL, NULL, FALSE))
     ELSE stack' = Disturbed /\ UNCHANGED life
  /\ UNCHANGED undefined

\* The move constructor, for an empty x, and swap
Swap(x, y) ==
  /\ ProgramRuns
  /\ ptr' = [ptr EXCEPT ![x] = ptr[y], ![y] = ptr[x]]
  /\ stack' = Disturbed
  /\ UNCHANGED <<life, undefined>>

\* Whether the targets that x and y are members of, if any, are kept alive by
\* something other than x itself.
Survives(x, y) ==
  \A h \in {x, y} \ StrongVar : h[1] \in Kept(Roots, x) \cup Here

\* x = std::move(y): reset(), then take y's reference.
MoveAssign(x, y) ==
  /\ ProgramRuns /\ x # y
  /\ Release(x, Disturbed, x, y, Survives(x, y))
  /\ UNCHANGED undefined

\* reset() and the destructor of a variable
Reset(x) ==
  /\ ProgramRuns /\ ptr[x] # NULL
  /\ Release(x, Disturbed, NULL, NULL, FALSE)
  /\ UNCHANGED undefined

\* WeakIntrusivePtr{h}, and the copy constructor
Watch(w, h) ==
  /\ ProgramRuns /\ ptr[w] = NULL
  /\ ptr' = [ptr EXCEPT ![w] = ptr[h]]
  /\ stack' = Disturbed
  /\ UNCHANGED <<life, undefined>>

WeakReset(w) ==
  /\ ProgramRuns /\ ptr[w] # NULL
  /\ ReleaseWeak(w, Disturbed)
  /\ UNCHANGED undefined

\* Varied: lock() takes a reference whatever the count is.
Lock_NoTest(x, w) ==
  /\ ProgramRuns /\ ptr[x] = NULL /\ ptr[w] # NULL
  /\ ptr' = [ptr EXCEPT ![x] = ptr[w]]
  /\ stack' = Disturbed
  /\ UNCHANGED <<life, undefined>>

\* x{w.lock()}: only while the count is not zero, also for a destructor that asks
\* for its own target.
Lock(x, w) ==
  /\ ProgramRuns /\ ptr[x] = NULL
  /\ ptr[w] # NULL /\ Owned(ptr[w])
  /\ ptr' = [ptr EXCEPT ![x] = ptr[w]]
  /\ stack' = Disturbed
  /\ UNCHANGED <<life, undefined>>

Operation ==
  \/ \E x \in StrongHandle \cap InScope, o \in Object : Make(x, o)
  \/ \E x, y \in StrongHandle \cap InScope : Copy(x, y) \/ Swap(x, y) \/ MoveAssign(x, y)
  \/ \E x \in StrongHandle \cap InScope : Reset(x)
  \/ \E w \in WeakHandle \cap InScope, h \in InScope : Watch(w, h)
  \/ \E w \in WeakHandle \cap InScope : WeakReset(w)
  \/ \E x \in StrongHandle \cap InScope, w \in WeakHandle \cap InScope : Lock(x, w)

-----------------------------------------------------------------------------
(* How the functions on the stack go on. *)

At(pc) == ~undefined /\ stack # <<>> /\ Top.pc = pc

Goto(pc) == stack' = [stack EXCEPT ![Len(stack)] = [@ EXCEPT !.pc = pc]]

Return == stack' = SubSeq(stack, 1, Len(stack) - 1)

\* The destruction or release is over, and a move assignment goes on.
Done == IF Top.src = NULL THEN Return ELSE Goto("take")

\* The body of the destructor returns.
BodyReturns == At("body") /\ Goto("members") /\ UNCHANGED <<ptr, life, undefined>>

\* The destructors of the members, in the order their class declares.
DestroyMember(h) ==
  /\ At("members") /\ h[1] = Top.obj /\ ptr[h] # NULL
  /\ IF h \in StrongHandle THEN Release(h, stack, NULL, NULL, FALSE) ELSE ReleaseWeak(h, stack)
  /\ UNCHANGED undefined

MembersGone(o) == \A h \in ({o} \X StrongField) \cup ({o} \X WeakField) : ptr[h] = NULL

\* Varied: only the base class is destroyed, as by a destructor that is not virtual.
DestroyBase_NotVirtual ==
  /\ At("members")
  /\ life' = [life EXCEPT ![Top.obj] = "destroyed"]
  /\ Goto("base")
  /\ UNCHANGED <<ptr, undefined>>

\* ~IntrusivePtrTarget begins: nothing of the derived target is left.
DestroyBase ==
  /\ At("members") /\ MembersGone(Top.obj)
  /\ life' = [life EXCEPT ![Top.obj] = "destroyed"]
  /\ Goto("base")
  /\ UNCHANGED <<ptr, undefined>>

\* Varied: the control block goes with its target.
ReleaseBase_Always ==
  /\ At("base")
  /\ ptr' = [ptr EXCEPT ![Top.obj] = NULL]
  /\ Goto("free")
  /\ UNCHANGED <<life, undefined>>

\* It gives up the implicit weak reference.
ReleaseBase ==
  LET o == Top.obj IN
  /\ At("base")
  /\ ptr' = [ptr EXCEPT ![o] = NULL]
  /\ IF \A w \in WeakHandle : ptr[w] # o THEN Goto("free") ELSE Done
  /\ UNCHANGED <<life, undefined>>

FreeBlock ==
  /\ At("free")
  /\ life' = [life EXCEPT ![Top.obj] = "reclaimed"]
  /\ Done
  /\ UNCHANGED <<ptr, undefined>>

\* The end of a move assignment.  If one of the two handles is gone, what is read
\* or written here is no longer a handle, and anything may happen from then on.
Take ==
  LET x == Top.dst
      y == Top.src IN
  /\ At("take")
  /\ Return
  /\ undefined' = (Gone(x) \/ Gone(y))
  /\ ptr' = IF undefined' THEN ptr ELSE [ptr EXCEPT ![x] = ptr[y], ![y] = NULL]
  /\ UNCHANGED life

Step ==
  \/ BodyReturns \/ DestroyBase \/ ReleaseBase \/ FreeBlock \/ Take
  \/ \E h \in (Object \X StrongField) \cup (Object \X WeakField) : DestroyMember(h)

GraphNext == Operation \/ Step

GraphSpec == GraphInit /\ [][GraphNext]_gvars

-----------------------------------------------------------------------------
\* Whatever a program can reach is alive, however deep destructions run inside
\* one another: no handle dangles, and no weak handle outlives its control block.
ReachableIsAlive ==
  /\ \A o \in Kept(Roots, NULL) : life[o] = "alive"
  /\ \A w \in WeakHandle : ptr[w] # NULL => life[ptr[w]] \notin {"none", "reclaimed"}

OnCycle(p) == p \in Kept(Fields(p), NULL)

\* When the last call has returned, what the program cannot reach is gone, except
\* for targets that own themselves in a cycle, and what those own.
OnlyCyclesLeak ==
  stack = <<>> /\ ~undefined =>
    \A o \in Object : life[o] \in {"alive", "destroying"} =>
      \/ o \in Kept(StrongVar, NULL)
      \/ \E p \in Object : OnCycle(p) /\ (o = p \/ o \in Kept(Fields(p), NULL))

\* A move assignment reads a handle that is gone only if the handle's target hung
\* on the one assigned to alone, or a destructor called the program meanwhile.
MoveSourceSurvives ==
  [][undefined' /\ ~undefined => ~Top.kept]_gvars

\* Handles in targets promise what handles in variables do.
Shared_ == INSTANCE SharedOwnership WITH
  Owner <- StrongHandle,
  Watcher <- Watching,
  own <- [h \in StrongHandle |-> ptr[h]],
  watch <- [w \in Watching |->
              IF w \in Object /\ life[w] \in {"alive", "destroying"} THEN NULL ELSE ptr[w]],
  stage <- [o \in Object |->
              CASE life[o] = "none" -> "none"
                [] life[o] \in {"alive", "destroying"} -> "live"
                [] life[o] = "destroyed" -> "dead"
                [] life[o] = "reclaimed" -> "reclaimed"]

GraphIsSharedOwnership == Shared_!SharedSpec
=============================================================================
