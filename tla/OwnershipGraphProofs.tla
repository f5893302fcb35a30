------------------------ MODULE OwnershipGraphProofs ------------------------
(***************************************************************************)
(* Proofs about OwnershipGraph, for any targets, members and variables and *)
(* however deep destructors run inside one another.  What makes the        *)
(* properties inductive is that each call that has not returned is about   *)
(* a target of its own, in a stage of its life that only it can end.       *)
(***************************************************************************)
EXTENDS OwnershipGraph, SequenceTheorems, Induction

\* Calls below the latest are in a destructor's body or destroying members.
Nesting == {"body", "members"}

\* What a call that has not returned relies on.
FrameInv(f) ==
  /\ f.pc \in Nesting => f.obj \in Object /\ life[f.obj] = "destroying"
  /\ f.pc \in {"base", "free"} => f.obj \in Object /\ life[f.obj] = "destroyed"
  /\ f.pc = "free" => \A w \in Watching : ptr[w] # f.obj
  /\ f.pc = "take" => f.src # NULL
  /\ f.src # NULL => f.dst # NULL

StackInv ==
  /\ \A i \in 1..Len(stack) : FrameInv(stack[i])
  /\ \A i \in 1..Len(stack) : i # Len(stack) => stack[i].pc \in Nesting
  /\ \A i, j \in 1..Len(stack) :
       i # j /\ stack[i].pc # "take" /\ stack[j].pc # "take" => stack[i].obj # stack[j].obj

\* What the handles refer to, the implicit weak references among them.
HandleInv ==
  /\ \A h \in StrongHandle : ptr[h] # NULL => life[ptr[h]] = "alive"
  /\ \A w \in WeakHandle : ptr[w] # NULL => life[ptr[w]] \notin {"none", "reclaimed"}
  /\ \A o \in Object : ptr[o] \in {NULL, o}
  /\ \A o \in Object : life[o] \in {"alive", "destroying"} => ptr[o] = o
  /\ \A o \in Object : life[o] = "none" => ptr[o] = NULL

GraphInv == GraphTypeOK /\ StackInv /\ HandleInv

-----------------------------------------------------------------------------
(* The stack of calls. *)

\* Adding, removing and replacing the last element of a sequence.
LEMMA PushElement ==
  ASSUME NEW S, NEW s \in Seq(S), NEW e \in S
  PROVE  /\ Append(s, e) \in Seq(S) /\ Len(Append(s, e)) = Len(s) + 1
         /\ \A i \in 1..Len(s) : Append(s, e)[i] = s[i]
         /\ Append(s, e)[Len(s) + 1] = e
BY AppendProperties

LEMMA PopElement ==
  ASSUME NEW S, NEW s \in Seq(S), s # <<>>
  PROVE  /\ SubSeq(s, 1, Len(s) - 1) \in Seq(S)
         /\ Len(SubSeq(s, 1, Len(s) - 1)) = Len(s) - 1
         /\ \A i \in 1..(Len(s) - 1) : SubSeq(s, 1, Len(s) - 1)[i] = s[i]
         /\ Len(s) \in 1..Len(s) /\ s[Len(s)] \in S
<1>1. Len(s) \in 1..Len(s)
  BY EmptySeq, LenProperties
<1> DEFINE n == Len(s) - 1
<1>2. n \in Int /\ n \in Nat
  BY <1>1
<1>3. \A i \in 1..n : s[i] \in S
  BY <1>1, ElementOfSeq
<1>4. /\ SubSeq(s, 1, n) \in Seq(S)
      /\ Len(SubSeq(s, 1, n)) = IF 1 <= n THEN n - 1 + 1 ELSE 0
      /\ \A i \in 1..(n - 1 + 1) : SubSeq(s, 1, n)[i] = s[1 + i - 1]
  <2> HIDE DEF n
  <2> QED  BY <1>2, <1>3, SubSeqProperties
<1>5. Len(SubSeq(s, 1, n)) = n /\ \A i \in 1..n : SubSeq(s, 1, n)[i] = s[i]
  <2> HIDE DEF n
  <2> QED  BY <1>2, <1>4
<1> QED  BY <1>1, <1>4, <1>5, ElementOfSeq

LEMMA ReplaceElement ==
  ASSUME NEW S, NEW s \in Seq(S), s # <<>>, NEW e \in S
  PROVE  /\ [s EXCEPT ![Len(s)] = e] \in Seq(S)
         /\ Len([s EXCEPT ![Len(s)] = e]) = Len(s)
         /\ \A i \in 1..Len(s) : [s EXCEPT ![Len(s)] = e][i] = IF i = Len(s) THEN e ELSE s[i]
BY PopElement, ExceptSeq

\* A call that goes on at another place.
LEMMA MovedFrame ==
  ASSUME NEW f \in Frame, NEW pc \in {"body", "members", "base", "free", "take"}
  PROVE  /\ [f EXCEPT !.pc = pc] \in Frame
         /\ [f EXCEPT !.pc = pc].pc = pc
         /\ [f EXCEPT !.pc = pc].obj = f.obj
         /\ [f EXCEPT !.pc = pc].dst = f.dst
         /\ [f EXCEPT !.pc = pc].src = f.src
         /\ [f EXCEPT !.pc = pc].kept = f.kept
BY DEF Frame

\* A call that cannot count on the program any more.
LEMMA DisturbedFrame ==
  ASSUME NEW f \in Frame
  PROVE  /\ [f EXCEPT !.kept = FALSE] \in Frame
         /\ [f EXCEPT !.kept = FALSE].pc = f.pc
         /\ [f EXCEPT !.kept = FALSE].obj = f.obj
         /\ [f EXCEPT !.kept = FALSE].dst = f.dst
         /\ [f EXCEPT !.kept = FALSE].src = f.src
         /\ [f EXCEPT !.kept = FALSE].kept = FALSE
BY DEF Frame

\* The calls that s describes are those on the stack.
Like(s) ==
  /\ s \in Seq(Frame) /\ Len(s) = Len(stack)
  /\ \A i \in 1..Len(stack) : s[i].pc = stack[i].pc /\ s[i].obj = stack[i].obj
                              /\ s[i].dst = stack[i].dst /\ s[i].src = stack[i].src

\* What the program does leaves the calls that wait as they are.
LEMMA DisturbedLike ==
  ASSUME GraphTypeOK
  PROVE  Like(Disturbed) /\ Like(stack)
<1> DEFINE n == Len(stack)
<1>1. stack \in Seq(Frame) /\ n \in Nat /\ \A i \in 1..n : stack[i] \in Frame
  BY ElementOfSeq, LenProperties DEF GraphTypeOK
<1>2. ASSUME NEW i \in 1..n
      PROVE  LET g == [stack[i] EXCEPT !.kept = FALSE] IN
             /\ g \in Frame /\ g.pc = stack[i].pc /\ g.obj = stack[i].obj
             /\ g.dst = stack[i].dst /\ g.src = stack[i].src
  BY <1>1, DisturbedFrame
<1>3. Disturbed \in [1..n -> Frame] /\ \A i \in 1..n : Disturbed[i] = [stack[i] EXCEPT !.kept = FALSE]
  BY <1>2 DEF Disturbed
<1>4. Disturbed \in Seq(Frame)
  BY <1>1, <1>3, SeqDef
<1>5. Len(Disturbed) = n
  <2>1. DOMAIN Disturbed = 1..n /\ DOMAIN Disturbed = 1..Len(Disturbed) /\ Len(Disturbed) \in Nat
    BY <1>3, <1>4, LenProperties
  <2> QED  BY <1>1, <2>1
<1> QED  BY <1>1, <1>2, <1>3, <1>4, <1>5 DEF Like

AllNest == \A i \in 1..Len(stack) : stack[i].pc \in Nesting

\* While the program runs, or members are destroyed, every call can be waiting.
LEMMA Nested ==
  ASSUME GraphInv, ProgramRuns \/ At("members")
  PROVE  AllNest
BY DEF GraphInv, StackInv, ProgramRuns, At, Top, AllNest, Nesting

\* The waiting calls rely on their targets' being destroyed by nobody else.
LEMMA StackKeeps ==
  ASSUME GraphInv, AllNest, NEW s, Like(s), stack' = s,
         \A o \in Object : life[o] = "destroying" => life'[o] = "destroying"
  PROVE  StackInv'
<1>1. ASSUME NEW i \in 1..Len(stack) PROVE s[i].pc \in Nesting /\ FrameInv(s[i])'
  <2>1. FrameInv(stack[i]) /\ stack[i].pc \in Nesting
    BY DEF GraphInv, StackInv, AllNest
  <2> QED
    BY <2>1 DEF Like, FrameInv, Nesting
<1> QED  BY <1>1 DEF Like, GraphInv, StackInv

\* A call about a target that no other call is about.
LEMMA StackPushes ==
  ASSUME GraphInv, AllNest, NEW s, Like(s), NEW f \in Frame, stack' = Append(s, f),
         FrameInv(f)', f.pc # "take" => life[f.obj] # "destroying",
         \A o \in Object : life[o] = "destroying" => life'[o] = "destroying"
  PROVE  StackInv' /\ stack' \in Seq(Frame)
<1> DEFINE n == Len(stack)
<1>1. /\ stack' \in Seq(Frame) /\ Len(stack') = n + 1 /\ stack'[n + 1] = f
      /\ \A i \in 1..n : stack'[i] = s[i]
      /\ n \in Nat
  BY PushElement, LenProperties DEF Like
<1>2. ASSUME NEW i \in 1..n
      PROVE  /\ stack'[i].pc \in Nesting /\ stack'[i].obj = stack[i].obj
             /\ life[stack[i].obj] = "destroying" /\ FrameInv(stack[i])'
  <2>1. FrameInv(stack[i]) /\ stack[i].pc \in Nesting
    BY DEF GraphInv, StackInv, AllNest
  <2>2. stack'[i].pc = stack[i].pc /\ stack'[i].obj = stack[i].obj
        /\ stack'[i].dst = stack[i].dst /\ stack'[i].src = stack[i].src
    BY <1>1 DEF Like
  <2> QED  BY <2>1, <2>2 DEF FrameInv, Nesting
<1>3. \A i \in 1..(n + 1) : i \in 1..n \/ i = n + 1
  BY <1>1
<1>4. \A i \in 1..(n + 1) : FrameInv(stack[i])'
  <2>1. \A i \in 1..(n + 1) : i = n + 1 => FrameInv(stack[i])'
    BY <1>1 DEF FrameInv
  <2> QED  BY <1>2, <1>3, <2>1
<1>5. ASSUME NEW i \in 1..(n + 1), NEW j \in 1..(n + 1), i # j,
             stack'[i].pc # "take", stack'[j].pc # "take"
      PROVE  stack'[i].obj # stack'[j].obj
  <2>1. CASE i \in 1..n /\ j \in 1..n
    <3>1. stack[i].obj # stack[j].obj
      BY <1>5, <2>1 DEF GraphInv, StackInv, AllNest, Nesting
    <3> QED  BY <1>2, <2>1, <3>1
  <2>2. CASE i = n + 1 /\ j \in 1..n
    BY <1>1, <1>2, <1>5, <2>2
  <2>3. CASE i \in 1..n /\ j = n + 1
    BY <1>1, <1>2, <1>5, <2>3
  <2> QED  BY <1>3, <1>5, <2>1, <2>2, <2>3
<1>6. \A i \in 1..(n + 1) : i # n + 1 => stack'[i].pc \in Nesting
  BY <1>2, <1>3
<1> HIDE DEF n
<1> QED  BY <1>1, <1>4, <1>5, <1>6 DEF StackInv

\* The latest call goes on as f, and nobody else's target is touched.
LEMMA StackReplaces ==
  ASSUME GraphInv, stack # <<>>, NEW f \in Frame, stack' = [stack EXCEPT ![Len(stack)] = f],
         FrameInv(f)', f.pc = "take" \/ (f.obj = Top.obj /\ Top.pc # "take"),
         \A o \in Object : (o = Top.obj /\ Top.pc # "take") \/ life'[o] = life[o]
  PROVE  StackInv' /\ stack' \in Seq(Frame)
<1> DEFINE n == Len(stack)
<1>1. /\ stack' \in Seq(Frame) /\ Len(stack') = n /\ n \in 1..n
      /\ \A i \in 1..n : stack'[i] = IF i = n THEN f ELSE stack[i]
  BY ReplaceElement, PopElement DEF GraphInv, GraphTypeOK
<1>2. stack'[n] = f /\ \A i \in 1..n : i # n => stack'[i] = stack[i]
  BY <1>1
<1>3. ASSUME NEW i \in 1..n, i # n
      PROVE  stack[i].pc \in Nesting /\ FrameInv(stack[i])'
  <2>1. FrameInv(stack[i]) /\ stack[i].pc \in Nesting
    BY <1>3 DEF GraphInv, StackInv
  <2>2. Top.pc # "take" => stack[i].obj # Top.obj
    BY <1>1, <1>3, <2>1 DEF GraphInv, StackInv, Nesting, Top
  <2>3. stack[i].obj \in Object /\ life'[stack[i].obj] = life[stack[i].obj]
    BY <2>1, <2>2 DEF FrameInv
  <2> QED  BY <1>2, <1>3, <2>1, <2>3 DEF FrameInv, Nesting
<1>4. \A i \in 1..n : FrameInv(stack[i])'
  <2>1. \A i \in 1..n : i = n => FrameInv(stack[i])'
    BY <1>2 DEF FrameInv
  <2> QED  BY <1>3, <2>1
<1>5. ASSUME NEW i \in 1..n, NEW j \in 1..n, i # j,
             stack'[i].pc # "take", stack'[j].pc # "take"
      PROVE  stack'[i].obj # stack'[j].obj
  <2>1. stack[i].pc # "take" /\ stack[j].pc # "take" => stack[i].obj # stack[j].obj
    BY <1>5 DEF GraphInv, StackInv
  <2>2. stack'[n].pc # "take" => stack'[n].obj = stack[n].obj /\ stack[n].pc # "take"
    BY <1>2 DEF Top
  <2> QED  BY <1>2, <1>5, <2>1, <2>2
<1>6. \A i \in 1..n : i # n => stack'[i].pc \in Nesting
  BY <1>2, <1>3
<1> HIDE DEF n
<1> QED  BY <1>1, <1>4, <1>5, <1>6 DEF StackInv

\* The latest call returns, and nobody else's target is touched.
LEMMA StackPops ==
  ASSUME GraphInv, stack # <<>>, stack' = SubSeq(stack, 1, Len(stack) - 1),
         \A o \in Object : (o = Top.obj /\ Top.pc # "take") \/ life'[o] = life[o]
  PROVE  StackInv' /\ stack' \in Seq(Frame)
<1> DEFINE n == Len(stack)
<1>1. /\ stack' \in Seq(Frame) /\ Len(stack') = n - 1 /\ n \in 1..n
      /\ \A i \in 1..(n - 1) : stack'[i] = stack[i]
  BY PopElement DEF GraphInv, GraphTypeOK
<1>2. \A i \in 1..(n - 1) : i \in 1..n /\ i # n
  BY <1>1
<1>3. ASSUME NEW i \in 1..(n - 1)
      PROVE  stack'[i].pc \in Nesting /\ FrameInv(stack[i])'
  <2>1. FrameInv(stack[i]) /\ stack[i].pc \in Nesting
    BY <1>2 DEF GraphInv, StackInv
  <2>2. Top.pc # "take" => stack[i].obj # Top.obj
    BY <1>1, <1>2, <2>1 DEF GraphInv, StackInv, Nesting, Top
  <2>3. stack[i].obj \in Object /\ life'[stack[i].obj] = life[stack[i].obj]
    BY <2>1, <2>2 DEF FrameInv
  <2> QED  BY <1>1, <2>1, <2>3 DEF FrameInv, Nesting
<1>4. \A i, j \in 1..(n - 1) : i # j /\ stack'[i].pc # "take" /\ stack'[j].pc # "take"
                               => stack'[i].obj # stack'[j].obj
  BY <1>1, <1>2 DEF GraphInv, StackInv
<1> HIDE DEF n
<1> QED  BY <1>1, <1>3, <1>4 DEF StackInv

-----------------------------------------------------------------------------
(* The operations. *)

\* The strong handles, the weak ones and the implicit references are different.
LEMMA HandleFacts ==
  /\ StrongHandle \cap WeakHandle = {} /\ StrongHandle \cap Object = {}
  /\ Object \cap WeakHandle = {} /\ Object \subseteq Watching /\ WeakHandle \subseteq Watching
  /\ NULL \notin Object /\ NULL \notin StrongHandle /\ NULL \notin WeakHandle
BY GraphAssumption DEF Watching

\* A handle that is made to refer to something does nothing to the others.
LEMMA AssignHandle ==
  ASSUME GraphTypeOK, NEW h \in StrongHandle \cup Watching, NEW v \in Object \cup {NULL},
         ptr' = [ptr EXCEPT ![h] = v]
  PROVE  /\ ptr' \in [StrongHandle \cup Watching -> Object \cup {NULL}] /\ ptr'[h] = v
         /\ \A g \in (StrongHandle \cup Watching) \ {h} : ptr'[g] = ptr[g]
BY DEF GraphTypeOK

\* The frame of a call is one.
LEMMA NewFrameTyped ==
  ASSUME NEW pc \in {"body", "members", "base", "free", "take"}, NEW o \in Object \cup {NULL},
         NEW dst \in StrongHandle \cup {NULL}, NEW src \in StrongHandle \cup {NULL},
         NEW kept \in BOOLEAN
  PROVE  LET f == NewFrame(pc, o, dst, src, kept) IN
         f \in Frame /\ f.pc = pc /\ f.obj = o /\ f.dst = dst /\ f.src = src /\ f.kept = kept
BY DEF NewFrame, Frame

\* reset(), the strong member's destructor and the first half of a move assignment.
LEMMA ReleaseStep ==
  ASSUME GraphInv, AllNest, NEW h \in StrongHandle, NEW s, Like(s),
         NEW dst \in StrongHandle \cup {NULL}, NEW src \in StrongHandle \cup {NULL},
         src # NULL => dst # NULL, NEW kept \in BOOLEAN,
         Release(h, s, dst, src, kept), undefined' = undefined
  PROVE  GraphInv'
<1> USE HandleFacts
<1>1. ptr' = [ptr EXCEPT ![h] = NULL] /\ GraphTypeOK
  BY DEF Release, GraphInv
<1>2. /\ ptr' \in [StrongHandle \cup Watching -> Object \cup {NULL}] /\ ptr'[h] = NULL
      /\ \A g \in (StrongHandle \cup Watching) \ {h} : ptr'[g] = ptr[g]
  BY <1>1, AssignHandle
<1>3. PICK o \in Object \cup {NULL} : o = ptr[h]
  BY <1>1 DEF GraphTypeOK
<1>4. CASE o # NULL /\ LastStrong(h)
  <2>1. life' = [life EXCEPT ![o] = "destroying"] /\ life[o] = "alive" /\ o \in Object
    BY <1>3, <1>4 DEF Release, GraphInv, HandleInv
  <2>2. /\ life' \in [Object -> Life] /\ life'[o] = "destroying"
        /\ \A p \in Object \ {o} : life'[p] = life[p]
    BY <1>1, <2>1 DEF GraphTypeOK, Life
  <2>3. PICK f \in Frame : /\ f = NewFrame("body", o, dst, src, kept)
                           /\ f.pc = "body" /\ f.obj = o /\ f.dst = dst /\ f.src = src
    BY NewFrameTyped
  <2>4. stack' = Append(s, f)
    BY <1>3, <1>4, <2>3 DEF Release
  <2>5. FrameInv(f)'
    BY <2>1, <2>2, <2>3 DEF FrameInv, Nesting
  <2>6. StackInv' /\ stack' \in Seq(Frame)
    BY <2>1, <2>2, <2>3, <2>4, <2>5, StackPushes
  <2>7. \A g \in StrongHandle : ptr'[g] # NULL => life'[ptr'[g]] = "alive"
    <3>1. SUFFICES ASSUME NEW g \in StrongHandle, ptr'[g] # NULL PROVE life'[ptr'[g]] = "alive"
      OBVIOUS
    <3>2. g # h /\ ptr'[g] = ptr[g] /\ ptr[g] # o /\ ptr[g] \in Object
      BY <1>1, <1>2, <1>3, <1>4, <3>1 DEF LastStrong, GraphTypeOK
    <3> QED  BY <2>2, <3>1, <3>2 DEF GraphInv, HandleInv
  <2>8. \A g \in Watching : ptr'[g] = ptr[g]
    BY <1>2 DEF Watching
  <2>9. HandleInv'
    BY <1>1, <2>1, <2>2, <2>7, <2>8 DEF GraphInv, HandleInv, GraphTypeOK
  <2> QED  BY <1>1, <1>2, <2>2, <2>6, <2>9 DEF GraphInv, GraphTypeOK
<1>5. CASE ~(o # NULL /\ LastStrong(h))
  <2>1. life' = life
    BY <1>3, <1>5 DEF Release
  <2>2. StackInv' /\ stack' \in Seq(Frame)
    <3>1. CASE src = NULL
      <4>1. stack' = s
        BY <1>3, <1>5, <3>1 DEF Release
      <4> QED  BY <2>1, <4>1, StackKeeps DEF Like
    <3>2. CASE src # NULL
      <4>1. PICK f \in Frame : /\ f = NewFrame("take", NULL, dst, src, kept)
                               /\ f.pc = "take" /\ f.dst = dst /\ f.src = src
        BY NewFrameTyped
      <4>2. stack' = Append(s, f)
        BY <1>3, <1>5, <3>2, <4>1 DEF Release
      <4>3. FrameInv(f)'
        BY <3>2, <4>1 DEF FrameInv, Nesting
      <4> QED  BY <2>1, <4>1, <4>2, <4>3, StackPushes
    <3> QED  BY <3>1, <3>2
  <2>3. \A g \in StrongHandle : ptr'[g] # NULL => ptr'[g] = ptr[g]
    BY <1>2
  <2>4. \A g \in Watching : ptr'[g] = ptr[g]
    BY <1>2 DEF Watching
  <2>5. HandleInv'
    BY <2>1, <2>3, <2>4 DEF GraphInv, HandleInv
  <2> QED  BY <1>1, <1>2, <2>1, <2>2, <2>5 DEF GraphInv, GraphTypeOK
<1> QED  BY <1>4, <1>5

\* WeakIntrusivePtr::reset() and the weak member's destructor.
LEMMA ReleaseWeakStep ==
  ASSUME GraphInv, AllNest, NEW h \in WeakHandle, NEW s, Like(s), ReleaseWeak(h, s),
         undefined' = undefined
  PROVE  GraphInv'
<1> USE HandleFacts
<1>1. ptr' = [ptr EXCEPT ![h] = NULL] /\ GraphTypeOK /\ life' = life
  BY DEF ReleaseWeak, GraphInv
<1>2. /\ ptr' \in [StrongHandle \cup Watching -> Object \cup {NULL}] /\ ptr'[h] = NULL
      /\ \A g \in (StrongHandle \cup Watching) \ {h} : ptr'[g] = ptr[g]
  BY <1>1, AssignHandle
<1>3. PICK o \in Object \cup {NULL} : o = ptr[h]
  BY <1>1 DEF GraphTypeOK
<1>4. StackInv' /\ stack' \in Seq(Frame)
  <2>1. CASE o # NULL /\ LastWeak(h)
    <3>1. o \in Object /\ \A g \in Watching \ {h} : ptr[g] # o
      BY <1>3, <2>1 DEF LastWeak
    <3>2. ptr[o] # o
      BY <3>1
    <3>3. life[o] = "destroyed"
      BY <1>1, <1>3, <3>1, <3>2 DEF GraphInv, HandleInv, GraphTypeOK, Life
    <3>4. PICK f \in Frame : f = NewFrame("free", o, NULL, NULL, FALSE)
                             /\ f.pc = "free" /\ f.obj = o /\ f.src = NULL
      <4> DEFINE g == NewFrame("free", o, NULL, NULL, FALSE)
      <4>1. g \in Frame /\ g.pc = "free" /\ g.obj = o /\ g.src = NULL
        BY DEF NewFrame, Frame
      <4> HIDE DEF g
      <4>2. \E f \in Frame : f = g /\ f.pc = "free" /\ f.obj = o /\ f.src = NULL
        BY <4>1
      <4> QED  BY <4>2 DEF g
    <3>5. stack' = Append(s, f)
      BY <1>3, <2>1, <3>4 DEF ReleaseWeak
    <3>6. FrameInv(f)'
      <4>1. \A w \in Watching : ptr'[w] # o
        BY <1>2, <3>1
      <4> QED  BY <1>1, <3>1, <3>3, <3>4, <4>1 DEF FrameInv, Nesting
    <3> QED  BY <1>1, <3>3, <3>4, <3>5, <3>6, StackPushes
  <2>2. CASE ~(o # NULL /\ LastWeak(h))
    <3>1. stack' = s
      BY <1>3, <2>2 DEF ReleaseWeak
    <3> QED  BY <1>1, <3>1, StackKeeps DEF Like
  <2> QED  BY <2>1, <2>2
<1>5. HandleInv'
  BY <1>1, <1>2 DEF GraphInv, HandleInv
<1> QED  BY <1>1, <1>2, <1>4, <1>5 DEF GraphInv, GraphTypeOK

\* The latest call is one, and it may go on at pc.
LEMMA GotoFrame ==
  ASSUME GraphInv, stack # <<>>
  PROVE  /\ Top \in Frame /\ FrameInv(Top)
         /\ \A pc \in {"body", "members", "base", "free", "take"} : Goto(pc) =>
              \E f \in Frame : /\ stack' = [stack EXCEPT ![Len(stack)] = f]
                               /\ f.pc = pc /\ f.obj = Top.obj /\ f.src = Top.src /\ f.dst = Top.dst
<1>1. Top \in Frame /\ FrameInv(Top)
  BY PopElement DEF Top, GraphInv, GraphTypeOK, StackInv
<1>2. ASSUME NEW pc \in {"body", "members", "base", "free", "take"}, Goto(pc)
      PROVE  \E f \in Frame : /\ stack' = [stack EXCEPT ![Len(stack)] = f]
                              /\ f.pc = pc /\ f.obj = Top.obj /\ f.src = Top.src /\ f.dst = Top.dst
  <2> DEFINE g == [Top EXCEPT !.pc = pc]
  <2>1. g \in Frame /\ g.pc = pc /\ g.obj = Top.obj /\ g.src = Top.src /\ g.dst = Top.dst
    BY <1>1, MovedFrame
  <2>2. stack' = [stack EXCEPT ![Len(stack)] = g]
    <3>1. Len(stack) \in DOMAIN stack
      BY PopElement, LenProperties DEF GraphInv, GraphTypeOK
    <3> QED  BY <1>2, <3>1 DEF Goto, Top
  <2> HIDE DEF g
  <2> QED  BY <2>1, <2>2
<1> QED  BY <1>1, <1>2

\* A destruction or release is over.
LEMMA DoneStep ==
  ASSUME GraphInv, stack # <<>>, Top.pc # "take", Done,
         \A o \in Object : o = Top.obj \/ life'[o] = life[o]
  PROVE  StackInv' /\ stack' \in Seq(Frame)
<1>1. CASE Top.src = NULL
  BY <1>1, StackPops DEF Done, Return
<1>2. CASE Top.src # NULL
  <2>1. Goto("take") /\ FrameInv(Top)
    BY <1>2, GotoFrame DEF Done
  <2>2. PICK f \in Frame : /\ stack' = [stack EXCEPT ![Len(stack)] = f]
                           /\ f.pc = "take" /\ f.src = Top.src /\ f.dst = Top.dst
    BY <2>1, GotoFrame
  <2>3. FrameInv(f)'
    BY <1>2, <2>1, <2>2 DEF FrameInv, Nesting
  <2> QED  BY <2>2, <2>3, StackReplaces
<1> QED  BY <1>1, <1>2

\* make_intrusive
LEMMA MakeStep ==
  ASSUME GraphInv, NEW x \in StrongHandle, NEW o \in Object, Make(x, o)
  PROVE  GraphInv'
<1> USE HandleFacts
<1>1. /\ GraphTypeOK /\ AllNest /\ life[o] = "none" /\ stack' = Disturbed /\ undefined' = undefined
      /\ ptr' = [ptr EXCEPT ![x] = o, ![o] = o] /\ life' = [life EXCEPT ![o] = "alive"]
  BY Nested DEF Make, GraphInv
<1>2. /\ ptr' \in [StrongHandle \cup Watching -> Object \cup {NULL}] /\ ptr'[x] = o /\ ptr'[o] = o
      /\ \A g \in (StrongHandle \cup Watching) \ {x, o} : ptr'[g] = ptr[g]
      /\ life' \in [Object -> Life] /\ life'[o] = "alive"
      /\ \A p \in Object \ {o} : life'[p] = life[p]
  BY <1>1 DEF GraphTypeOK, Life
<1>3. StackInv'
  BY <1>1, <1>2, DisturbedLike, StackKeeps
<1>4. HandleInv'
  <2>1. \A h \in StrongHandle : ptr'[h] # NULL => life'[ptr'[h]] = "alive"
    BY <1>1, <1>2 DEF GraphInv, HandleInv, GraphTypeOK
  <2>2. \A w \in WeakHandle : ptr'[w] # NULL => life'[ptr'[w]] \notin {"none", "reclaimed"}
    <3>1. \A w \in WeakHandle : w \notin {x, o} /\ ptr[w] # o
      BY <1>1 DEF GraphInv, HandleInv
    <3> QED  BY <1>1, <1>2, <3>1 DEF GraphInv, HandleInv, GraphTypeOK, Watching
  <2>3. \A p \in Object : p # o => ptr'[p] = ptr[p] /\ life'[p] = life[p]
    BY <1>2 DEF Watching
  <2> QED  BY <1>2, <2>1, <2>2, <2>3 DEF GraphInv, HandleInv
<1> QED
  <2>1. stack' \in Seq(Frame) /\ undefined' \in BOOLEAN
    BY <1>1, DisturbedLike DEF Like, GraphTypeOK
  <2> QED  BY <1>2, <1>3, <1>4, <2>1 DEF GraphInv, GraphTypeOK

\* A step that only makes handles refer to what was alive before.
LEMMA ShareStep ==
  ASSUME GraphInv, life' = life, StackInv', stack' \in Seq(Frame), undefined' \in BOOLEAN,
         ptr' \in [StrongHandle \cup Watching -> Object \cup {NULL}],
         \A h \in StrongHandle : ptr'[h] # NULL => life[ptr'[h]] = "alive",
         \A w \in WeakHandle : ptr'[w] # NULL => life[ptr'[w]] \notin {"none", "reclaimed"},
         \A o \in Object : ptr'[o] = ptr[o]
  PROVE  GraphInv'
BY DEF GraphInv, HandleInv, GraphTypeOK

\* The copy constructor and the copy assignment.
LEMMA CopyStep ==
  ASSUME GraphInv, NEW x \in StrongHandle, NEW y \in StrongHandle, Copy(x, y)
  PROVE  GraphInv'
<1> USE HandleFacts
<1>1. /\ GraphTypeOK /\ AllNest /\ x # y /\ undefined' = undefined
      /\ ptr' = [ptr EXCEPT ![x] = ptr[y]] /\ ptr[y] \in Object \cup {NULL}
  BY Nested DEF Copy, GraphInv, GraphTypeOK
<1>2. /\ ptr' \in [StrongHandle \cup Watching -> Object \cup {NULL}] /\ ptr'[x] = ptr[y]
      /\ \A g \in (StrongHandle \cup Watching) \ {x} : ptr'[g] = ptr[g]
  BY <1>1, AssignHandle
<1>3. \A g \in Watching : ptr'[g] = ptr[g]
  BY <1>2 DEF Watching
<1>4. PICK old \in Object \cup {NULL} : old = ptr[x]
  BY <1>1 DEF GraphTypeOK
<1>5. CASE old # NULL /\ old # ptr[y] /\ LastStrong(x)
  <2>1. life' = [life EXCEPT ![old] = "destroying"] /\ life[old] = "alive" /\ old \in Object
    BY <1>4, <1>5 DEF Copy, GraphInv, HandleInv
  <2>2. /\ life' \in [Object -> Life] /\ life'[old] = "destroying"
        /\ \A p \in Object \ {old} : life'[p] = life[p]
    BY <1>1, <2>1 DEF GraphTypeOK, Life
  <2> DEFINE g == NewFrame("body", old, NULL, NULL, FALSE)
  <2>3. g \in Frame /\ g.pc = "body" /\ g.obj = old /\ g.src = NULL
    BY DEF NewFrame, Frame
  <2>4. stack' = Append(Disturbed, g)
    BY <1>4, <1>5 DEF Copy
  <2> HIDE DEF g
  <2>5. PICK f \in Frame : f = g /\ f.pc = "body" /\ f.obj = old /\ f.src = NULL
    BY <2>3
  <2>6. FrameInv(f)'
    BY <2>1, <2>2, <2>5 DEF FrameInv, Nesting
  <2>7. StackInv' /\ stack' \in Seq(Frame)
    BY <1>1, <2>1, <2>2, <2>4, <2>5, <2>6, StackPushes, DisturbedLike
  <2>8. \A h \in StrongHandle : ptr'[h] # NULL => life'[ptr'[h]] = "alive"
    <3>1. SUFFICES ASSUME NEW h \in StrongHandle, ptr'[h] # NULL PROVE life'[ptr'[h]] = "alive"
      OBVIOUS
    <3>2. ptr'[h] # old /\ ptr'[h] \in Object
      BY <1>2, <1>4, <1>5, <3>1 DEF LastStrong
    <3>3. life[ptr'[h]] = "alive"
      BY <1>2, <3>1 DEF GraphInv, HandleInv
    <3> QED  BY <2>2, <3>2, <3>3
  <2>9. HandleInv'
    BY <1>1, <1>3, <2>1, <2>2, <2>8 DEF GraphInv, HandleInv, GraphTypeOK
  <2> QED  BY <1>1, <1>2, <2>2, <2>7, <2>9 DEF GraphInv, GraphTypeOK
<1>6. CASE ~(old # NULL /\ old # ptr[y] /\ LastStrong(x))
  <2>1. life' = life /\ stack' = Disturbed
    BY <1>4, <1>6 DEF Copy
  <2>2. StackInv' /\ stack' \in Seq(Frame)
    BY <1>1, <2>1, DisturbedLike, StackKeeps DEF Like
  <2>3. \A h \in StrongHandle : ptr'[h] # NULL => life[ptr'[h]] = "alive"
    BY <1>2 DEF GraphInv, HandleInv
  <2> QED  BY <1>1, <1>2, <1>3, <2>1, <2>2, <2>3, ShareStep DEF GraphInv, HandleInv, GraphTypeOK
<1> QED  BY <1>5, <1>6

\* What the program can name is a handle.
LEMMA ScopeFacts ==
  ASSUME GraphInv
  PROVE  Here \subseteq Object /\ InScope \subseteq StrongHandle \cup WeakHandle
<1>1. Here \subseteq Object
  BY GotoFrame DEF Here, FrameInv, Nesting
<1>2. Kept(Roots, NULL) \subseteq Object
  BY DEF Kept
<1>3. Kept(Roots, NULL) \cup Here \subseteq Object
  BY <1>1, <1>2
<1> HIDE DEF InScope
<1>4. InScope \subseteq StrongVar \cup WeakVar \cup
        ((Kept(Roots, NULL) \cup Here) \X (StrongField \cup WeakField))
  BY DEF InScope
<1>5. (Kept(Roots, NULL) \cup Here) \X (StrongField \cup WeakField)
        \subseteq (Object \X StrongField) \cup (Object \X WeakField)
  BY <1>3
<1> QED  BY <1>1, <1>4, <1>5 DEF StrongHandle, WeakHandle

\* The move constructor and swap.
LEMMA SwapStep ==
  ASSUME GraphInv, NEW x \in StrongHandle, NEW y \in StrongHandle, Swap(x, y)
  PROVE  GraphInv'
<1> USE HandleFacts
<1>1. /\ GraphTypeOK /\ AllNest /\ undefined' = undefined /\ life' = life /\ stack' = Disturbed
      /\ ptr' = [ptr EXCEPT ![x] = ptr[y], ![y] = ptr[x]]
  BY Nested DEF Swap, GraphInv
<1>2. /\ ptr' \in [StrongHandle \cup Watching -> Object \cup {NULL}]
      /\ ptr'[x] = ptr[y] /\ ptr'[y] = ptr[x]
      /\ \A g \in (StrongHandle \cup Watching) \ {x, y} : ptr'[g] = ptr[g]
  BY <1>1 DEF GraphTypeOK
<1>3. \A g \in Watching : ptr'[g] = ptr[g]
  BY <1>2 DEF Watching
<1>4. StackInv' /\ stack' \in Seq(Frame)
  BY <1>1, DisturbedLike, StackKeeps DEF Like
<1>5. \A h \in StrongHandle : ptr'[h] # NULL => life[ptr'[h]] = "alive"
  BY <1>2 DEF GraphInv, HandleInv
<1> QED  BY <1>1, <1>2, <1>3, <1>4, <1>5, ShareStep DEF GraphInv, HandleInv, GraphTypeOK

\* lock()
LEMMA LockStep ==
  ASSUME GraphInv, NEW x \in StrongHandle, NEW w \in WeakHandle, Lock(x, w)
  PROVE  GraphInv'
<1> USE HandleFacts
<1>1. /\ GraphTypeOK /\ AllNest /\ undefined' = undefined /\ life' = life /\ stack' = Disturbed
      /\ ptr' = [ptr EXCEPT ![x] = ptr[w]] /\ ptr[w] \in Object \cup {NULL}
  BY Nested DEF Lock, GraphInv, GraphTypeOK
<1>2. /\ ptr' \in [StrongHandle \cup Watching -> Object \cup {NULL}] /\ ptr'[x] = ptr[w]
      /\ \A g \in (StrongHandle \cup Watching) \ {x} : ptr'[g] = ptr[g]
  BY <1>1, AssignHandle
<1>3. \A g \in Watching : ptr'[g] = ptr[g]
  BY <1>2 DEF Watching
<1>4. StackInv' /\ stack' \in Seq(Frame)
  BY <1>1, DisturbedLike, StackKeeps DEF Like
<1>5. \A h \in StrongHandle : ptr'[h] # NULL => life[ptr'[h]] = "alive"
  <2>1. life[ptr[w]] = "alive"
    BY DEF Lock, Owned, GraphInv, HandleInv
  <2> QED  BY <1>2, <2>1 DEF GraphInv, HandleInv
<1> QED  BY <1>1, <1>2, <1>3, <1>4, <1>5, ShareStep DEF GraphInv, HandleInv, GraphTypeOK

\* The constructors of a weak handle.
LEMMA WatchStep ==
  ASSUME GraphInv, NEW w \in WeakHandle, NEW h \in StrongHandle \cup WeakHandle, Watch(w, h)
  PROVE  GraphInv'
<1> USE HandleFacts
<1>1. /\ GraphTypeOK /\ AllNest /\ undefined' = undefined /\ life' = life /\ stack' = Disturbed
      /\ ptr' = [ptr EXCEPT ![w] = ptr[h]] /\ ptr[h] \in Object \cup {NULL}
  BY Nested DEF Watch, GraphInv, GraphTypeOK
<1>2. /\ ptr' \in [StrongHandle \cup Watching -> Object \cup {NULL}] /\ ptr'[w] = ptr[h]
      /\ \A g \in (StrongHandle \cup Watching) \ {w} : ptr'[g] = ptr[g]
  BY <1>1, AssignHandle
<1>3. (\A o \in Object : ptr'[o] = ptr[o]) /\ (\A g \in StrongHandle : ptr'[g] = ptr[g])
  BY <1>2
<1>4. StackInv' /\ stack' \in Seq(Frame)
  BY <1>1, DisturbedLike, StackKeeps DEF Like
<1>5. \A g \in WeakHandle : ptr'[g] # NULL => life[ptr'[g]] \notin {"none", "reclaimed"}
  BY <1>2 DEF GraphInv, HandleInv
<1> QED  BY <1>1, <1>2, <1>3, <1>4, <1>5, ShareStep DEF GraphInv, HandleInv, GraphTypeOK

\* Everything that the program can do, in a destructor or outside.
LEMMA OperationStep ==
  ASSUME GraphInv, Operation
  PROVE  GraphInv'
<1>1. ASSUME NEW x \in StrongHandle, NEW y \in StrongHandle, MoveAssign(x, y) PROVE GraphInv'
  <2>1. PICK kept \in BOOLEAN : Release(x, Disturbed, x, y, kept)
    BY <1>1 DEF MoveAssign, Survives
  <2>2. AllNest /\ undefined' = undefined /\ Like(Disturbed) /\ x # NULL
    BY <1>1, Nested, DisturbedLike, HandleFacts DEF MoveAssign, GraphInv
  <2> QED  BY <2>1, <2>2, ReleaseStep
<1>2. ASSUME NEW x \in StrongHandle, Reset(x) PROVE GraphInv'
  <2>1. PICK kept \in BOOLEAN : Release(x, Disturbed, NULL, NULL, kept)
    BY <1>2 DEF Reset
  <2>2. AllNest /\ undefined' = undefined /\ Like(Disturbed)
    BY <1>2, Nested, DisturbedLike DEF Reset, GraphInv
  <2> QED  BY <2>1, <2>2, ReleaseStep
<1>3. ASSUME NEW w \in WeakHandle, WeakReset(w) PROVE GraphInv'
  BY <1>3, Nested, DisturbedLike, ReleaseWeakStep DEF WeakReset, GraphInv
<1> QED
  BY <1>1, <1>2, <1>3, ScopeFacts, MakeStep, CopyStep, SwapStep, WatchStep, LockStep DEF Operation

-----------------------------------------------------------------------------
(* How destructions go on. *)

\* The destructors of the members.
LEMMA MemberStep ==
  ASSUME GraphInv, NEW h \in (Object \X StrongField) \cup (Object \X WeakField), DestroyMember(h)
  PROVE  GraphInv'
<1>1. AllNest /\ undefined' = undefined /\ Like(stack) /\ h \in StrongHandle \cup WeakHandle
  BY Nested, DisturbedLike DEF DestroyMember, GraphInv, StrongHandle, WeakHandle
<1>2. CASE h \in StrongHandle
  <2>1. PICK kept \in BOOLEAN : Release(h, stack, NULL, NULL, kept)
    BY <1>2 DEF DestroyMember
  <2> QED  BY <1>1, <1>2, <2>1, ReleaseStep
<1>3. CASE h \notin StrongHandle
  BY <1>1, <1>3, ReleaseWeakStep DEF DestroyMember
<1> QED  BY <1>2, <1>3

\* The body of a destructor returns, and the base class is next when the members
\* are gone.
LEMMA BodyStep ==
  ASSUME GraphInv, BodyReturns \/ DestroyBase
  PROVE  GraphInv'
<1>1. /\ stack # <<>> /\ Top.pc \in Nesting /\ Top \in Frame /\ FrameInv(Top)
      /\ Top.obj \in Object /\ life[Top.obj] = "destroying" /\ ptr' = ptr
      /\ undefined' = undefined /\ GraphTypeOK
  BY GotoFrame DEF BodyReturns, DestroyBase, At, Nesting, FrameInv, GraphInv
<1>2. CASE BodyReturns
  <2>1. Goto("members") /\ life' = life
    BY <1>2 DEF BodyReturns
  <2>2. PICK f \in Frame : /\ stack' = [stack EXCEPT ![Len(stack)] = f]
                           /\ f.pc = "members" /\ f.obj = Top.obj
                           /\ f.src = Top.src /\ f.dst = Top.dst
    BY <1>1, <2>1, GotoFrame
  <2>3. FrameInv(f)'
    BY <1>1, <2>1, <2>2 DEF FrameInv, Nesting
  <2>4. StackInv' /\ stack' \in Seq(Frame)
    BY <1>1, <2>1, <2>2, <2>3, StackReplaces DEF Nesting
  <2> QED  BY <1>1, <2>1, <2>4, ShareStep DEF GraphInv, HandleInv, GraphTypeOK
<1>3. CASE DestroyBase
  <2>1. PICK o \in Object : o = Top.obj
    BY <1>1
  <2>2. life' = [life EXCEPT ![o] = "destroyed"] /\ Goto("base")
    BY <1>3, <2>1 DEF DestroyBase
  <2>3. /\ life' \in [Object -> Life] /\ life'[o] = "destroyed"
        /\ \A p \in Object \ {o} : life'[p] = life[p]
    BY <1>1, <2>1, <2>2 DEF GraphTypeOK, Life
  <2>4. PICK f \in Frame : /\ stack' = [stack EXCEPT ![Len(stack)] = f]
                           /\ f.pc = "base" /\ f.obj = Top.obj
                           /\ f.src = Top.src /\ f.dst = Top.dst
    BY <1>1, <2>2, GotoFrame
  <2>5. FrameInv(f)'
    BY <1>1, <2>1, <2>3, <2>4 DEF FrameInv, Nesting
  <2>6. StackInv' /\ stack' \in Seq(Frame)
    BY <1>1, <2>1, <2>3, <2>4, <2>5, StackReplaces DEF Nesting
  <2>7. HandleInv'
    BY <1>1, <2>1, <2>3, HandleFacts DEF GraphInv, HandleInv, GraphTypeOK, Watching
  <2> QED  BY <1>1, <2>3, <2>6, <2>7 DEF GraphInv, GraphTypeOK
<1> QED  BY <1>2, <1>3

\* ~IntrusivePtrTarget gives up the implicit weak reference.
LEMMA BaseStep ==
  ASSUME GraphInv, ReleaseBase
  PROVE  GraphInv'
<1> USE HandleFacts
<1>1. /\ stack # <<>> /\ Top.pc = "base" /\ Top \in Frame /\ FrameInv(Top)
      /\ Top.obj \in Object /\ life[Top.obj] = "destroyed" /\ life' = life
      /\ undefined' = undefined /\ GraphTypeOK
  BY GotoFrame DEF ReleaseBase, At, Nesting, FrameInv, GraphInv
<1>2. PICK o \in Object : o = Top.obj
  BY <1>1
<1>3. ptr' = [ptr EXCEPT ![o] = NULL]
  BY <1>2 DEF ReleaseBase
<1>4. /\ ptr' \in [StrongHandle \cup Watching -> Object \cup {NULL}] /\ ptr'[o] = NULL
      /\ \A g \in (StrongHandle \cup Watching) \ {o} : ptr'[g] = ptr[g]
  BY <1>1, <1>3, AssignHandle
<1>5. StackInv' /\ stack' \in Seq(Frame)
  <2>1. CASE \A w \in WeakHandle : ptr[w] # o
    <3>1. Goto("free")
      BY <1>2, <2>1 DEF ReleaseBase
    <3>2. PICK f \in Frame : /\ stack' = [stack EXCEPT ![Len(stack)] = f]
                             /\ f.pc = "free" /\ f.obj = Top.obj
                             /\ f.src = Top.src /\ f.dst = Top.dst
      BY <1>1, <3>1, GotoFrame
    <3>3. \A w \in Watching : ptr'[w] # o
      BY <1>4, <2>1 DEF Watching, GraphInv, HandleInv
    <3>4. FrameInv(f)'
      BY <1>1, <1>2, <3>2, <3>3 DEF FrameInv, Nesting
    <3> QED  BY <1>1, <3>2, <3>4, StackReplaces
  <2>2. CASE ~(\A w \in WeakHandle : ptr[w] # o)
    <3>1. Done
      BY <1>2, <2>2 DEF ReleaseBase
    <3> QED  BY <1>1, <3>1, DoneStep
  <2> QED  BY <2>1, <2>2
<1>6. HandleInv'
  BY <1>1, <1>2, <1>4 DEF GraphInv, HandleInv
<1> QED  BY <1>1, <1>4, <1>5, <1>6 DEF GraphInv, GraphTypeOK

\* The control block is freed.
LEMMA FreeStep ==
  ASSUME GraphInv, FreeBlock
  PROVE  GraphInv'
<1> USE HandleFacts
<1>1. /\ stack # <<>> /\ Top.pc = "free" /\ Top \in Frame /\ FrameInv(Top)
      /\ Top.obj \in Object /\ life[Top.obj] = "destroyed" /\ ptr' = ptr
      /\ undefined' = undefined /\ GraphTypeOK /\ Done
      /\ \A w \in Watching : ptr[w] # Top.obj
  BY GotoFrame DEF FreeBlock, At, Nesting, FrameInv, GraphInv
<1>2. PICK o \in Object : o = Top.obj
  BY <1>1
<1>3. life' = [life EXCEPT ![o] = "reclaimed"]
  BY <1>2 DEF FreeBlock
<1>4. /\ life' \in [Object -> Life] /\ life'[o] = "reclaimed"
      /\ \A p \in Object \ {o} : life'[p] = life[p]
  BY <1>1, <1>3 DEF GraphTypeOK, Life
<1>5. StackInv' /\ stack' \in Seq(Frame)
  BY <1>1, <1>2, <1>4, DoneStep
<1>6. HandleInv'
  BY <1>1, <1>2, <1>4 DEF GraphInv, HandleInv, GraphTypeOK, Watching
<1> QED  BY <1>1, <1>4, <1>5, <1>6 DEF GraphInv, GraphTypeOK

\* The end of a move assignment.
LEMMA TakeStep ==
  ASSUME GraphInv, Take
  PROVE  GraphInv'
<1> USE HandleFacts
<1>1. /\ stack # <<>> /\ Top.pc = "take" /\ Top \in Frame /\ FrameInv(Top)
      /\ Top.src \in StrongHandle /\ Top.dst \in StrongHandle
      /\ life' = life /\ GraphTypeOK /\ undefined' \in BOOLEAN /\ Return
  BY GotoFrame DEF Take, At, FrameInv, Frame, GraphInv, Gone
<1>2. StackInv' /\ stack' \in Seq(Frame)
  BY <1>1, StackPops DEF Return
<1>3. PICK x \in StrongHandle, y \in StrongHandle : x = Top.dst /\ y = Top.src
  BY <1>1
<1>4. ptr' = ptr \/ ptr' = [ptr EXCEPT ![x] = ptr[y], ![y] = NULL]
  BY <1>3 DEF Take
<1>5. /\ ptr' \in [StrongHandle \cup Watching -> Object \cup {NULL}]
      /\ \A g \in Watching : ptr'[g] = ptr[g]
      /\ \A g \in StrongHandle : ptr'[g] = NULL \/ ptr'[g] = ptr[g] \/ ptr'[g] = ptr[y]
  BY <1>1, <1>4 DEF GraphTypeOK, Watching
<1>6. \A h \in StrongHandle : ptr'[h] # NULL => life[ptr'[h]] = "alive"
  BY <1>5 DEF GraphInv, HandleInv
<1> QED  BY <1>1, <1>2, <1>5, <1>6, ShareStep DEF GraphInv, HandleInv, GraphTypeOK

\* Nothing has been made in the beginning.
LEMMA InitialGraph ==
  ASSUME GraphInit
  PROVE  GraphInv
<1>1. stack = <<>> /\ Len(stack) = 0 /\ stack \in Seq(Frame)
  BY DEF GraphInit
<1>2. /\ \A h \in StrongHandle \cup Watching : ptr[h] = NULL
      /\ \A o \in Object : life[o] = "none"
  BY DEF GraphInit
<1>3. GraphTypeOK
  BY <1>1 DEF GraphInit, GraphTypeOK, Life
<1>4. StackInv
  BY <1>1 DEF StackInv
<1>5. HandleInv
  BY <1>2 DEF HandleInv, Watching
<1> QED  BY <1>3, <1>4, <1>5 DEF GraphInv

\* Every step keeps the invariant.
LEMMA GraphStep ==
  ASSUME GraphInv, [GraphNext]_gvars
  PROVE  GraphInv'
<1>1. CASE UNCHANGED gvars
  <2>1. ptr' = ptr /\ life' = life /\ stack' = stack /\ undefined' = undefined
    BY <1>1 DEF gvars
  <2>2. StackInv'
    BY <2>1 DEF GraphInv, StackInv, FrameInv, Nesting
  <2> QED  BY <2>1, <2>2, ShareStep DEF GraphInv, HandleInv, GraphTypeOK
<1>2. CASE Step
  BY <1>2, BodyStep, BaseStep, FreeStep, TakeStep, MemberStep DEF Step
<1> QED  BY <1>1, <1>2, OperationStep DEF GraphNext

\* GraphInv holds throughout.
THEOREM GraphInvariant == GraphSpec => []GraphInv
<1>1. GraphInv /\ [GraphNext]_gvars => GraphInv'
  BY GraphStep
<1> QED  BY <1>1, InitialGraph, PTL DEF GraphSpec

-----------------------------------------------------------------------------
(* What a set of handles keeps alive. *)

\* The members of targets are strong handles, and no handle is NULL.
LEMMA FieldFacts ==
  /\ \A p \in Object : Fields(p) \subseteq StrongHandle
  /\ NULL \notin StrongHandle
  /\ \A h \in StrongHandle \ StrongVar : h[1] \in Object /\ h \in Fields(h[1])
BY HandleFacts DEF Fields, StrongHandle

\* What handles lead to is kept, and what the members of that lead to.
LEMMA KeptClosed ==
  ASSUME GraphTypeOK, NEW H \in SUBSET StrongHandle
  PROVE  /\ Kept(H, NULL) \subseteq Object
         /\ \A h \in H : ptr[h] \in Kept(H, NULL) \cup {NULL}
         /\ \A p \in Kept(H, NULL) : \A h \in Fields(p) : ptr[h] \in Kept(H, NULL) \cup {NULL}
<1>1. \A h \in StrongHandle : h # NULL /\ ptr[h] \in Object \cup {NULL}
  BY HandleFacts DEF GraphTypeOK
<1>2. Kept(H, NULL) \subseteq Object
  BY DEF Kept
<1>3. ASSUME NEW h \in H PROVE ptr[h] \in Kept(H, NULL) \cup {NULL}
  BY <1>1 DEF Kept
<1>4. ASSUME NEW p \in Kept(H, NULL), NEW h \in Fields(p)
      PROVE  ptr[h] \in Kept(H, NULL) \cup {NULL}
  <2>1. p \in Object /\ h \in StrongHandle
    BY <1>2, <1>4, FieldFacts
  <2> QED  BY <1>1, <1>4, <2>1 DEF Kept
<1> QED  BY <1>2, <1>3, <1>4

\* Nothing is kept that is not in a set they cannot lead out of.
LEMMA KeptLeast ==
  ASSUME NEW H, NEW x, NEW S \in SUBSET Object,
         \A h \in H \ {x} : ptr[h] \in S \cup {NULL},
         \A p \in S : \A h \in Fields(p) \ {x} : ptr[h] \in S \cup {NULL}
  PROVE  Kept(H, x) \subseteq S
BY DEF Kept

\* What handles keep is alive.
LEMMA KeptAlive ==
  ASSUME GraphInv, NEW H \in SUBSET StrongHandle
  PROVE  \A o \in Kept(H, NULL) : o \in Object /\ life[o] = "alive"
<1> DEFINE Alive == {o \in Object : life[o] = "alive"}
<1>1. \A h \in StrongHandle : ptr[h] \in Alive \cup {NULL}
  BY DEF GraphInv, HandleInv, GraphTypeOK
<1>2. \A p \in Alive : \A h \in Fields(p) : ptr[h] \in Alive \cup {NULL}
  BY <1>1, FieldFacts
<1>3. Alive \in SUBSET Object
  OBVIOUS
<1>4. Kept(H, NULL) \subseteq Alive
  <2> HIDE DEF Alive
  <2> QED  BY <1>1, <1>2, <1>3, KeptLeast
<1> QED  BY <1>4

\* What a kept target's members keep is kept.
LEMMA KeptThrough ==
  ASSUME GraphTypeOK, NEW H \in SUBSET StrongHandle, NEW p \in Kept(H, NULL)
  PROVE  Kept(Fields(p), NULL) \subseteq Kept(H, NULL)
<1> DEFINE K == Kept(H, NULL)
<1>1. /\ K \in SUBSET Object
      /\ \A q \in K : \A h \in Fields(q) \ {NULL} : ptr[h] \in K \cup {NULL}
  BY KeptClosed
<1>2. \A h \in Fields(p) \ {NULL} : ptr[h] \in K \cup {NULL}
  BY <1>1
<1> QED
  <2> HIDE DEF K
  <2>1. Kept(Fields(p), NULL) \subseteq K
    BY <1>1, <1>2, KeptLeast
  <2> QED  BY <2>1 DEF K

\* What handles keep stays kept by them while neither they nor the members of what
\* they keep change.
LEMMA KeptStays ==
  ASSUME GraphTypeOK, NEW H \in SUBSET StrongHandle,
         \A h \in H : ptr'[h] = ptr[h],
         \A p \in Kept(H, NULL) : \A h \in Fields(p) : ptr'[h] = ptr[h]
  PROVE  Kept(H, NULL) \subseteq Kept(H, NULL)'
<1> DEFINE K == Kept(H, NULL)
           Into(G, T) == \A h \in G \ {NULL} : ptr'[h] \in T \cup {NULL}
<1>1. ASSUME NEW T \in SUBSET Object, Into(H, T), \A p \in T : Into(Fields(p), T)
      PROVE  K \subseteq T
  <2>1. /\ K \cap T \in SUBSET Object
        /\ \A h \in H \ {NULL} : ptr[h] \in (K \cap T) \cup {NULL}
    BY <1>1, KeptClosed, FieldFacts
  <2>2. ASSUME NEW p \in K \cap T, NEW h \in Fields(p) \ {NULL}
        PROVE  ptr[h] \in (K \cap T) \cup {NULL}
    <3>1. ptr[h] \in K \cup {NULL} /\ ptr'[h] = ptr[h]
      BY <2>2, KeptClosed
    <3>2. ptr'[h] \in T \cup {NULL}
      BY <1>1, <2>2
    <3> QED  BY <3>1, <3>2
  <2>3. Kept(H, NULL) \subseteq K \cap T
    <3> HIDE DEF K
    <3> QED  BY <2>1, <2>2, KeptLeast
  <2> QED  BY <2>3
<1>2. K \subseteq Object
  BY DEF Kept
<1> QED  BY <1>1, <1>2 DEF Kept

\* What is kept without handle x is kept when x has been cleared.
LEMMA KeptWithout ==
  ASSUME GraphTypeOK, NEW H \in SUBSET StrongHandle, NEW x \in StrongHandle,
         ptr' = [ptr EXCEPT ![x] = NULL]
  PROVE  Kept(H, x) \subseteq Kept(H, NULL)'
<1>1. /\ ptr'[x] = NULL
      /\ \A g \in (StrongHandle \cup Watching) \ {x} : ptr'[g] = ptr[g]
  BY HandleFacts, AssignHandle
<1> DEFINE Into(G, T) == \A h \in G \ {NULL} : ptr'[h] \in T \cup {NULL}
<1>2. ASSUME NEW T \in SUBSET Object, Into(H, T), \A p \in T : Into(Fields(p), T)
      PROVE  Kept(H, x) \subseteq T
  <2>1. \A h \in H \ {x} : ptr[h] \in T \cup {NULL}
    BY <1>1, <1>2, FieldFacts
  <2>2. ASSUME NEW p \in T, NEW h \in Fields(p) \ {x} PROVE ptr[h] \in T \cup {NULL}
    <3>1. h \in StrongHandle /\ h # NULL
      BY <2>2, FieldFacts
    <3>2. ptr'[h] \in T \cup {NULL}
      BY <1>2, <2>2, <3>1
    <3> QED  BY <1>1, <2>2, <3>1, <3>2
  <2> QED  BY <2>1, <2>2, KeptLeast
<1>3. Kept(H, x) \subseteq Object
  BY DEF Kept
<1> QED  BY <1>2, <1>3 DEF Kept

\* Handles and the destructors of members: whatever a program can reach is alive,
\* and no weak handle outlives its control block, for any graph of targets.
THEOREM ReachableStaysAlive == GraphSpec => []ReachableIsAlive
<1>1. GraphInv => ReachableIsAlive
  <2> SUFFICES ASSUME GraphInv PROVE ReachableIsAlive
    OBVIOUS
  <2>1. Roots \in SUBSET StrongHandle
    BY ScopeFacts DEF Roots, StrongHandle
  <2> QED  BY <2>1, KeptAlive DEF ReachableIsAlive, GraphInv, HandleInv
<1> QED  BY <1>1, GraphInvariant, PTL

-----------------------------------------------------------------------------
(* What a waiting move assignment can count on. *)

\* The target whose destructor's body called the function of the i-th call, and
\* what the program started from then.
Below(i) == IF i > 1 THEN {stack[i - 1].obj} ELSE {}

From(i) == StrongVar \cup (Below(i) \X StrongField)

\* The targets of the handles that it uses are kept by what the program had, or
\* wait for the end of their destructor.
KeptSafe(i) ==
  \A H : H = From(i) =>
    \A h \in {stack[i].dst, stack[i].src} \ (StrongVar \cup {NULL}) :
      h[1] \in Kept(H, NULL) \cup Below(i)

\* An assignment counts on the program only until it is called again.
KeptInv ==
  /\ \A i \in 1..Len(stack) : stack[i].kept => KeptSafe(i)
  /\ \A i, j \in 1..Len(stack) : i < j /\ stack[j].src # NULL => ~stack[i].kept

\* A call is about a target that is being destroyed, if it waits for another.
LEMMA BelowFacts ==
  ASSUME GraphInv, NEW i \in 1..Len(stack)
  PROVE  /\ Below(i) \subseteq Object /\ From(i) \in SUBSET StrongHandle
         /\ \A o \in Below(i) : life[o] = "destroying"
         /\ i > 1 => i - 1 \in 1..Len(stack) /\ i - 1 # Len(stack)
                     /\ stack[i - 1].pc \in Nesting
<1>1. Len(stack) \in Nat
  BY LenProperties DEF GraphInv, GraphTypeOK
<1>2. i > 1 => /\ i - 1 \in 1..Len(stack) /\ i - 1 # Len(stack)
               /\ stack[i - 1].pc \in Nesting /\ stack[i - 1].obj \in Object
               /\ life[stack[i - 1].obj] = "destroying"
  BY <1>1 DEF GraphInv, StackInv, FrameInv
<1>3. Below(i) \subseteq Object /\ \A o \in Below(i) : life[o] = "destroying"
  BY <1>2 DEF Below
<1>4. From(i) \subseteq StrongHandle
  BY <1>3 DEF From, StrongHandle
<1> QED  BY <1>2, <1>3, <1>4

\* A step that leaves the waiting calls alone, and changes no member but of the
\* target that the latest call is about.
LEMMA KeptSafeStays ==
  ASSUME GraphInv, NEW i \in 1..Len(stack), KeptSafe(i),
         stack'[i].dst = stack[i].dst, stack'[i].src = stack[i].src,
         i > 1 => stack'[i - 1].obj = stack[i - 1].obj,
         \A h \in StrongHandle : ptr'[h] # ptr[h] =>
           h \notin StrongVar /\ h[1] = Top.obj /\ Top.pc = "members"
  PROVE  KeptSafe(i)'
<1>1. /\ From(i) \in SUBSET StrongHandle /\ \A o \in Below(i) : life[o] = "destroying"
      /\ i > 1 => i - 1 \in 1..Len(stack) /\ i - 1 # Len(stack) /\ stack[i - 1].pc \in Nesting
  BY BelowFacts
<1> PICK H : H = From(i)
  OBVIOUS
<1>2. Below(i)' = Below(i) /\ From(i)' = From(i)
  BY DEF Below, From
<1>3. \A h \in StrongHandle : ptr'[h] # ptr[h] =>
        h \notin StrongVar /\ h[1] \in Object /\ life[h[1]] = "destroying" /\ h[1] \notin Below(i)
  <2>1. SUFFICES ASSUME NEW h \in StrongHandle, ptr'[h] # ptr[h]
                 PROVE  h \notin StrongVar /\ h[1] \in Object /\ life[h[1]] = "destroying"
                        /\ h[1] \notin Below(i)
    OBVIOUS
  <2>2. h \notin StrongVar /\ h[1] = Top.obj /\ Top.pc = "members"
    BY <2>1
  <2>3. Len(stack) \in 1..Len(stack)
    <3>1. Len(stack) \in Nat
      BY LenProperties DEF GraphInv, GraphTypeOK
    <3> QED  BY <3>1
  <2>4. FrameInv(Top)
    BY <2>3 DEF GraphInv, StackInv, Top
  <2>5. i > 1 => stack[i - 1].obj # Top.obj
    BY <1>1, <2>2, <2>3 DEF GraphInv, StackInv, Top, Nesting
  <2> QED  BY <2>2, <2>4, <2>5 DEF FrameInv, Nesting, Below
<1>4. \A h \in H : ptr'[h] = ptr[h]
  <2>1. \A h \in From(i) : h \in StrongHandle /\ (h \in StrongVar \/ h[1] \in Below(i))
    BY <1>1 DEF From
  <2> QED  BY <1>3, <2>1
<1>5. \A p \in Kept(H, NULL) : \A h \in Fields(p) : ptr'[h] = ptr[h]
  <2>1. SUFFICES ASSUME NEW p \in Kept(H, NULL), NEW h \in Fields(p) PROVE ptr'[h] = ptr[h]
    OBVIOUS
  <2>2. p \in Object /\ life[p] = "alive"
    BY <1>1, KeptAlive
  <2>3. h \in StrongHandle /\ h[1] = p
    BY <2>2, FieldFacts DEF Fields
  <2> QED  BY <1>3, <2>2, <2>3
<1>6. Kept(H, NULL) \subseteq Kept(H, NULL)'
  BY <1>1, <1>4, <1>5, KeptStays DEF GraphInv
<1> QED  BY <1>2, <1>6 DEF KeptSafe

\* How a step of a destruction leaves the calls.
LEMMA KeptInvStays ==
  ASSUME GraphInv, KeptInv,
         \A h \in StrongHandle : ptr'[h] # ptr[h] =>
           h \notin StrongVar /\ h[1] = Top.obj /\ Top.pc = "members",
         \A i \in 1..Len(stack') :
           \/ /\ i \in 1..Len(stack)
              /\ stack'[i].obj = stack[i].obj /\ stack'[i].kept = stack[i].kept
              /\ stack'[i].dst = stack[i].dst /\ stack'[i].src = stack[i].src
           \/ i = Len(stack) + 1 /\ stack'[i].kept = FALSE /\ stack'[i].src = NULL
  PROVE  KeptInv'
<1>1. Len(stack) \in Nat
  BY LenProperties DEF GraphInv, GraphTypeOK
<1>2. ASSUME NEW i \in 1..Len(stack'), stack'[i].kept PROVE KeptSafe(i)'
  <2>1. /\ i \in 1..Len(stack) /\ stack[i].kept
        /\ stack'[i].dst = stack[i].dst /\ stack'[i].src = stack[i].src
    BY <1>2
  <2>2. i > 1 => i - 1 \in 1..Len(stack') /\ i - 1 # Len(stack) + 1
    BY <1>1, <2>1
  <2>3. i > 1 => stack'[i - 1].obj = stack[i - 1].obj
    BY <2>2
  <2> QED  BY <2>1, <2>3, KeptSafeStays DEF KeptInv
<1>3. ASSUME NEW i \in 1..Len(stack'), NEW j \in 1..Len(stack'), i < j, stack'[j].src # NULL
      PROVE  ~stack'[i].kept
  <2>1. j \in 1..Len(stack) /\ stack[j].src # NULL /\ i \in 1..Len(stack) /\ i # Len(stack) + 1
    BY <1>1, <1>3
  <2> QED  BY <1>3, <2>1 DEF KeptInv
<1> QED  BY <1>2, <1>3 DEF KeptInv

\* What the program does: no call that waits can count on it any more, and the one
\* that begins has looked for itself.
LEMMA KeptInvDisturbed ==
  ASSUME GraphInv, NEW f \in Frame, NEW m, m = Len(stack) + 1, f.kept => KeptSafe(m)',
         stack' = Disturbed \/ stack' = Append(Disturbed, f)
  PROVE  KeptInv'
<1>1. Like(Disturbed) /\ Len(stack) \in Nat
  BY DisturbedLike, LenProperties DEF GraphInv, GraphTypeOK
<1>2. \A i \in 1..Len(stack) : Disturbed[i].kept = FALSE
  <2>1. \A i \in 1..Len(stack) : stack[i] \in Frame
    BY ElementOfSeq DEF GraphInv, GraphTypeOK
  <2> QED  BY <2>1, DisturbedFrame DEF Disturbed
<1>3. CASE stack' = Disturbed
  <2>1. Len(stack') = Len(stack)
    BY <1>1, <1>3 DEF Like
  <2> QED  BY <1>2, <1>3, <2>1 DEF KeptInv
<1>4. CASE stack' = Append(Disturbed, f)
  <2>1. /\ Len(stack') = Len(stack) + 1 /\ stack'[Len(stack) + 1] = f
        /\ \A i \in 1..Len(stack) : stack'[i] = Disturbed[i]
    BY <1>1, <1>4, PushElement DEF Like
  <2>2. \A i \in 1..Len(stack') : i # Len(stack) + 1 => ~stack'[i].kept
    <3>1. \A i \in 1..Len(stack') : i # Len(stack) + 1 => i \in 1..Len(stack)
      BY <1>1, <2>1
    <3> QED  BY <1>2, <2>1, <3>1
  <2>3. \A i \in 1..Len(stack') : stack'[i].kept => KeptSafe(i)'
    <3>1. SUFFICES ASSUME NEW i \in 1..Len(stack'), stack'[i].kept PROVE KeptSafe(i)'
      OBVIOUS
    <3>2. i = m /\ f.kept
      BY <2>1, <2>2, <3>1
    <3> QED  BY <3>2
  <2>4. \A i, j \in 1..Len(stack') : i < j => ~stack'[i].kept
    BY <1>1, <2>1, <2>2
  <2> QED  BY <2>3, <2>4 DEF KeptInv
<1> QED  BY <1>3, <1>4

\* A move assignment has looked for what it still needs.
LEMMA KeptBegins ==
  ASSUME GraphInv, NEW x \in StrongHandle, NEW y \in StrongHandle, MoveAssign(x, y)
  PROVE  KeptInv'
<1>1. /\ ptr' = [ptr EXCEPT ![x] = NULL] /\ GraphTypeOK /\ ProgramRuns
      /\ Survives(x, y) \in BOOLEAN
      /\ Release(x, Disturbed, x, y, Survives(x, y)) /\ y # NULL /\ y \in StrongHandle
  BY FieldFacts DEF MoveAssign, Release, GraphInv, Survives
<1>2. PICK pc \in {"body", "take"}, o \in Object \cup {NULL} :
        stack' = Append(Disturbed, NewFrame(pc, o, x, y, Survives(x, y)))
  BY <1>1 DEF Release, GraphTypeOK
<1>3. PICK kept \in BOOLEAN : kept = Survives(x, y)
  BY <1>1
<1>4. PICK f \in Frame : /\ f = NewFrame(pc, o, x, y, kept)
                         /\ f.dst = x /\ f.src = y /\ f.kept = kept
  BY NewFrameTyped
<1>5. stack' = Append(Disturbed, f)
  BY <1>2, <1>3, <1>4
<1>6. Len(stack) \in Nat /\ Like(Disturbed)
  BY <1>1, DisturbedLike, LenProperties DEF GraphTypeOK
<1>m. PICK m : m = Len(stack) + 1
  OBVIOUS
<1>7. /\ stack'[m] = f
      /\ \A i \in 1..Len(stack) : stack'[i].obj = stack[i].obj
  BY <1>5, <1>6, <1>m, PushElement DEF Like
<1>8. Below(m)' = Here /\ From(m)' = Roots
  <2>1. Below(m)' = Here
    <3>1. CASE stack = <<>>
      <4>1. m = 1
        BY <1>m, <3>1
      <4> QED  BY <3>1, <4>1 DEF Below, Here
    <3>2. CASE stack # <<>>
      <4>1. Len(stack) \in 1..Len(stack) /\ m - 1 = Len(stack) /\ m > 1
        BY <1>1, <1>m, <3>2, PopElement DEF GraphTypeOK
      <4>2. stack'[Len(stack)].obj = Top.obj /\ Top.pc = "body"
        BY <1>1, <1>7, <3>2, <4>1 DEF Top, ProgramRuns
      <4> QED  BY <3>2, <4>1, <4>2 DEF Below, Here
    <3> QED  BY <3>1, <3>2
  <2> QED  BY <2>1 DEF From, Roots
<1>9. f.kept => KeptSafe(m)'
  <2>1. SUFFICES ASSUME Survives(x, y) PROVE KeptSafe(m)'
    BY <1>3, <1>4
  <2>2. PICK H : H = Roots
    OBVIOUS
  <2>3. H \in SUBSET StrongHandle
    BY <2>2, ScopeFacts DEF Roots, StrongHandle
  <2>4. Kept(H, x) \subseteq Kept(H, NULL)'
    BY <1>1, <2>3, KeptWithout
  <2>5. \A h \in {x, y} \ StrongVar : h[1] \in Kept(H, NULL)' \cup Here
    BY <2>1, <2>2, <2>4 DEF Survives
  <2>6. \A h \in {stack'[m].dst, stack'[m].src} : h \in {x, y}
    BY <1>4, <1>7
  <2> QED  BY <1>8, <2>2, <2>5, <2>6 DEF KeptSafe
<1> QED  BY <1>5, <1>9, <1>m, KeptInvDisturbed

\* Everything else that the program can do begins no assignment.
LEMMA KeptInvOperation ==
  ASSUME GraphInv, Operation
  PROVE  KeptInv'
<1> DEFINE g(pc, o) == NewFrame(pc, o, NULL, NULL, FALSE)
<1>1. ASSUME NEW pc \in {"body", "members", "base", "free", "take"}, NEW o \in Object \cup {NULL},
             stack' = Disturbed \/ stack' = Append(Disturbed, g(pc, o))
      PROVE  KeptInv'
  <2>1. g(pc, o) \in Frame /\ g(pc, o).kept = FALSE
    BY DEF NewFrame, Frame
  <2>2. PICK m : m = Len(stack) + 1
    OBVIOUS
  <2> HIDE DEF g
  <2> QED  BY <1>1, <2>1, <2>2, KeptInvDisturbed
<1>2. \A h \in StrongHandle \cup Watching : ptr[h] \in Object \cup {NULL}
  BY DEF GraphInv, GraphTypeOK
<1>3. ASSUME NEW x \in StrongHandle, NEW y \in StrongHandle, Copy(x, y) PROVE KeptInv'
  <2>1. stack' = Disturbed \/ stack' = Append(Disturbed, g("body", ptr[x]))
    BY <1>3 DEF Copy
  <2> HIDE DEF g
  <2> QED  BY <1>1, <1>2, <2>1
<1>4. ASSUME NEW x \in StrongHandle, Reset(x) PROVE KeptInv'
  <2>1. stack' = Disturbed \/ stack' = Append(Disturbed, g("body", ptr[x]))
    BY <1>4 DEF Reset, Release
  <2> HIDE DEF g
  <2> QED  BY <1>1, <1>2, <2>1
<1>5. ASSUME NEW w \in WeakHandle, WeakReset(w) PROVE KeptInv'
  <2>1. stack' = Disturbed \/ stack' = Append(Disturbed, g("free", ptr[w]))
    BY <1>5 DEF WeakReset, ReleaseWeak
  <2> HIDE DEF g
  <2> QED  BY <1>1, <1>2, <2>1, HandleFacts
<1>6. stack' = Disturbed => KeptInv'
  <2> HIDE DEF g
  <2> QED  BY <1>1
<1> QED
  BY <1>3, <1>4, <1>5, <1>6, KeptBegins, ScopeFacts DEF Operation, Make, Swap, Watch, Lock

\* How destructions and assignments go on.
LEMMA KeptInvStep ==
  ASSUME GraphInv, KeptInv, Step
  PROVE  KeptInv'
<1> USE HandleFacts
<1>0. /\ GraphTypeOK /\ Like(stack) /\ stack \in Seq(Frame) /\ Len(stack) \in Nat
      /\ stack # <<>>
      /\ Len(stack) \in 1..Len(stack)
  <2>1. stack # <<>>
    BY DEF Step, BodyReturns, DestroyBase, ReleaseBase, FreeBlock, Take, DestroyMember, At
  <2> QED  BY <2>1, DisturbedLike, PopElement, LenProperties DEF GraphInv, GraphTypeOK
<1>1. ASSUME NEW f \in Frame, f.kept = FALSE, f.src = NULL,
             stack' = stack \/ stack' = Append(stack, f)
      PROVE  \A i \in 1..Len(stack') :
               \/ /\ i \in 1..Len(stack)
                  /\ stack'[i].obj = stack[i].obj /\ stack'[i].kept = stack[i].kept
                  /\ stack'[i].dst = stack[i].dst /\ stack'[i].src = stack[i].src
               \/ i = Len(stack) + 1 /\ stack'[i].kept = FALSE /\ stack'[i].src = NULL
  <2>1. CASE stack' = stack
    BY <2>1
  <2>2. CASE stack' = Append(stack, f)
    <3>1. /\ Len(stack') = Len(stack) + 1 /\ stack'[Len(stack) + 1] = f
          /\ \A i \in 1..Len(stack) : stack'[i] = stack[i]
      BY <1>0, <2>2, PushElement
    <3>2. \A i \in 1..Len(stack') : i \in 1..Len(stack) \/ i = Len(stack) + 1
      BY <1>0, <3>1
    <3> QED  BY <1>1, <3>1, <3>2
  <2> QED  BY <1>1, <2>1, <2>2
<1>2. ASSUME NEW h \in (Object \X StrongField) \cup (Object \X WeakField), DestroyMember(h)
      PROVE  KeptInv'
  <2>1. /\ h \in StrongHandle \cup WeakHandle /\ h[1] = Top.obj /\ Top.pc = "members"
        /\ ptr' = [ptr EXCEPT ![h] = NULL] /\ ptr[h] \in Object \cup {NULL}
    BY <1>0, <1>2 DEF DestroyMember, At, Release, ReleaseWeak, StrongHandle, WeakHandle,
                      GraphTypeOK, Watching
  <2>2. \A g \in StrongHandle : ptr'[g] # ptr[g] =>
          g \notin StrongVar /\ g[1] = Top.obj /\ Top.pc = "members"
    <3>1. \A g \in StrongHandle : ptr'[g] # ptr[g] => g = h
      BY <1>0, <2>1, AssignHandle
    <3>2. h \in StrongHandle => h \notin StrongVar
      BY <1>2, GraphAssumption DEF Watching, StrongHandle, WeakHandle
    <3> QED  BY <2>1, <3>1, <3>2
  <2> DEFINE g(pc) == NewFrame(pc, ptr[h], NULL, NULL, FALSE)
  <2>3. \A pc \in {"body", "free"} : g(pc) \in Frame /\ g(pc).kept = FALSE /\ g(pc).src = NULL
    BY <2>1 DEF NewFrame, Frame
  <2>4. stack' = stack \/ \E pc \in {"body", "free"} : stack' = Append(stack, g(pc))
    BY <1>2 DEF DestroyMember, Release, ReleaseWeak
  <2> HIDE DEF g
  <2>5. PICK f \in Frame : f.kept = FALSE /\ f.src = NULL
                           /\ (stack' = stack \/ stack' = Append(stack, f))
    BY <2>3, <2>4
  <2> QED  BY <1>1, <2>2, <2>5, KeptInvStays
<1>3. ASSUME BodyReturns \/ DestroyBase \/ ReleaseBase \/ FreeBlock
      PROVE  KeptInv'
  <2>1. \A h \in StrongHandle : ptr'[h] = ptr[h]
    <3>1. CASE ReleaseBase
      <4>1. Top.obj \in Object /\ ptr' = [ptr EXCEPT ![Top.obj] = NULL]
        BY <1>0, <3>1, GotoFrame DEF ReleaseBase, At, FrameInv
      <4> QED  BY <1>0, <4>1 DEF GraphTypeOK
    <3> QED  BY <1>3, <3>1 DEF BodyReturns, DestroyBase, FreeBlock
  <2>2. CASE Return
    <3>1. /\ Len(stack') = Len(stack) - 1
          /\ \A i \in 1..(Len(stack) - 1) : stack'[i] = stack[i] /\ i \in 1..Len(stack)
      BY <1>0, <2>2, PopElement DEF Return
    <3>2. \A i \in 1..Len(stack') : i \in 1..Len(stack) /\ stack'[i] = stack[i]
      BY <3>1
    <3> QED  BY <2>1, <3>2, KeptInvStays
  <2>3. ASSUME NEW pc \in {"members", "base", "free", "take"}, Goto(pc) PROVE KeptInv'
    <3> DEFINE g == [Top EXCEPT !.pc = pc]
    <3>1. /\ g \in Frame /\ g.obj = Top.obj /\ g.src = Top.src /\ g.dst = Top.dst
          /\ g.kept = Top.kept
      <4>1. PICK f \in Frame : f = Top
        BY <1>0, GotoFrame
      <4> QED  BY <4>1 DEF Frame
    <3>2. stack' = [stack EXCEPT ![Len(stack)] = g]
      <4>1. Len(stack) \in DOMAIN stack
        BY <1>0, LenProperties
      <4> QED  BY <2>3, <4>1 DEF Goto, Top
    <3> HIDE DEF g
    <3>3. /\ Len(stack') = Len(stack)
          /\ \A i \in 1..Len(stack) : stack'[i] = IF i = Len(stack) THEN g ELSE stack[i]
      BY <1>0, <3>1, <3>2, ReplaceElement
    <3>4. \A i \in 1..Len(stack') :
            /\ i \in 1..Len(stack)
            /\ stack'[i].obj = stack[i].obj /\ stack'[i].kept = stack[i].kept
            /\ stack'[i].dst = stack[i].dst /\ stack'[i].src = stack[i].src
      BY <3>1, <3>3 DEF Top
    <3> QED  BY <2>1, <3>4, KeptInvStays
  <2> QED  BY <1>3, <2>2, <2>3 DEF BodyReturns, DestroyBase, ReleaseBase, FreeBlock, Done
<1>4. ASSUME Take PROVE KeptInv'
  <2>1. Top.src # NULL /\ Return
    BY <1>0, <1>4, GotoFrame DEF Take, At, FrameInv
  <2>2. /\ Len(stack') = Len(stack) - 1
        /\ \A i \in 1..(Len(stack) - 1) :
             stack'[i] = stack[i] /\ i \in 1..Len(stack) /\ i < Len(stack)
    BY <1>0, <2>1, PopElement DEF Return
  <2>3. \A i \in 1..Len(stack') : ~stack'[i].kept
    BY <1>0, <2>1, <2>2 DEF KeptInv, Top
  <2> QED  BY <2>3 DEF KeptInv
<1> QED  BY <1>2, <1>3, <1>4 DEF Step

\* A handle that an assignment reads or writes after a destructor has run is still
\* there, unless its target hung on the one assigned to alone or the destructor called
\* the program again, however many destructions that took.
THEOREM MovesReadLiveHandles == GraphSpec => MoveSourceSurvives
<1>1. GraphInit => KeptInv
  BY DEF GraphInit, KeptInv
<1>2. GraphInv /\ KeptInv /\ [GraphNext]_gvars => KeptInv'
  <2>1. ASSUME GraphInv, KeptInv, UNCHANGED gvars PROVE KeptInv'
    <3>1. ptr' = ptr /\ stack' = stack
      BY <2>1 DEF gvars
    <3>2. \A i \in 1..Len(stack) : KeptSafe(i) => KeptSafe(i)'
      BY <2>1, <3>1, KeptSafeStays
    <3> QED  BY <2>1, <3>1, <3>2 DEF KeptInv
  <2> QED  BY <2>1, KeptInvOperation, KeptInvStep DEF GraphNext
<1>3. GraphInv /\ KeptInv /\ [GraphNext]_gvars => [undefined' /\ ~undefined => ~Top.kept]_gvars
  <2>1. SUFFICES ASSUME GraphInv, KeptInv, GraphNext, undefined' # undefined, Top.kept
                 PROVE  ~undefined'
    BY DEF GraphInv, GraphTypeOK
  <2>2. Take
    BY <2>1 DEF GraphNext, Operation, Make, Copy, Swap, MoveAssign, Reset, Watch, WeakReset, Lock,
                Step, BodyReturns, DestroyBase, ReleaseBase, FreeBlock, DestroyMember
  <2>3. /\ stack # <<>> /\ Top \in Frame /\ FrameInv(Top)
        /\ Top.src \in StrongHandle /\ Top.dst \in StrongHandle
    BY <2>1, <2>2, GotoFrame DEF Take, At, FrameInv, Frame
  <2>4. PICK n : n = Len(stack)
    OBVIOUS
  <2>5. n \in 1..Len(stack) /\ KeptSafe(n) /\ stack[n] = Top
    BY <2>1, <2>3, <2>4, PopElement DEF KeptInv, Top, GraphInv, GraphTypeOK
  <2>6. PICK H : H = From(n)
    OBVIOUS
  <2>7. /\ \A o \in Kept(H, NULL) : life[o] = "alive"
        /\ \A o \in Below(n) : life[o] = "destroying"
    BY <2>1, <2>5, <2>6, BelowFacts, KeptAlive
  <2>8. \A h \in {Top.dst, Top.src} : ~Gone(h)
    <3>1. SUFFICES ASSUME NEW h \in {Top.dst, Top.src}, h \notin StrongVar
                   PROVE  life[h[1]] \in {"alive", "destroying"}
      BY DEF Gone
    <3>2. h[1] \in Kept(H, NULL) \cup Below(n)
      BY <2>3, <2>5, <2>6, <3>1, FieldFacts DEF KeptSafe
    <3> QED  BY <2>7, <3>2
  <2> QED  BY <2>2, <2>8 DEF Take
<1> QED
  BY <1>1, <1>2, <1>3, GraphInvariant, PTL DEF GraphSpec, MoveSourceSurvives

-----------------------------------------------------------------------------
(* Handles in targets promise what handles in variables do. *)

\* What a waiting assignment will assign to is empty, and nobody else's.
AssignInv ==
  /\ \A i \in 1..Len(stack) : stack[i].src # NULL => ptr[stack[i].dst] = NULL
  /\ \A i, j \in 1..Len(stack) :
       i # j /\ stack[i].src # NULL /\ stack[j].src # NULL => stack[i].dst # stack[j].dst

\* A waiting assignment assigns to a strong handle.
LEMMA AssignTyped ==
  ASSUME GraphInv, NEW i \in 1..Len(stack), stack[i].src # NULL
  PROVE  stack[i].dst \in StrongHandle /\ stack[i].dst # NULL
<1>1. stack[i] \in Frame
  BY ElementOfSeq DEF GraphInv, GraphTypeOK
<1>2. stack[i].dst # NULL
  BY DEF GraphInv, StackInv, FrameInv
<1> QED  BY <1>1, <1>2 DEF Frame

\* A step that leaves alone what waiting assignments use, and may begin one to x.
LEMMA AssignStep ==
  ASSUME AssignInv, NEW x,
         \A i \in 1..Len(stack') :
           \/ stack'[i].src = NULL
           \/ /\ i \in 1..Len(stack) /\ stack'[i].dst = stack[i].dst /\ stack'[i].src = stack[i].src
              /\ ptr'[stack[i].dst] = NULL /\ stack[i].dst # x
           \/ i = Len(stack) + 1 /\ stack'[i].dst = x /\ ptr'[x] = NULL
  PROVE  AssignInv'
BY DEF AssignInv

\* The program and the destructors of members release a reference, on behalf of an
\* assignment or not.
LEMMA ReleaseAssigns ==
  ASSUME GraphInv, AssignInv, NEW h \in StrongHandle, NEW s, Like(s),
         NEW dst \in {NULL, h}, NEW src \in StrongHandle \cup {NULL}, dst = NULL => src = NULL,
         NEW kept \in BOOLEAN, Release(h, s, dst, src, kept),
         dst # NULL => \A i \in 1..Len(stack) : stack[i].dst # h
  PROVE  AssignInv'
<1> USE HandleFacts
<1>1. ptr' = [ptr EXCEPT ![h] = NULL] /\ GraphTypeOK
  BY DEF Release, GraphInv
<1>2. /\ ptr'[h] = NULL
      /\ \A g \in (StrongHandle \cup Watching) \ {h} : ptr'[g] = ptr[g]
  BY <1>1, AssignHandle
<1>3. ASSUME NEW i \in 1..Len(stack)
      PROVE  /\ s[i].dst = stack[i].dst /\ s[i].src = stack[i].src
             /\ stack[i].src # NULL => ptr'[stack[i].dst] = NULL /\ stack[i].dst # NULL
  <2>1. s[i].dst = stack[i].dst /\ s[i].src = stack[i].src
    BY DEF Like
  <2>2. stack[i].src # NULL => stack[i].dst \in StrongHandle /\ ptr[stack[i].dst] = NULL
    BY AssignTyped DEF AssignInv
  <2> QED  BY <1>2, <2>1, <2>2
<1>4. \/ stack' = s
      \/ \E pc \in {"body", "take"}, o \in Object \cup {NULL} :
           stack' = Append(s, NewFrame(pc, o, dst, src, kept))
  BY <1>1 DEF Release, GraphTypeOK
<1>5. CASE stack' = s
  <2>1. Len(stack') = Len(stack)
    BY <1>5 DEF Like
  <2>2. \A i \in 1..Len(stack') :
           \/ stack'[i].src = NULL
           \/ /\ i \in 1..Len(stack) /\ stack'[i].dst = stack[i].dst /\ stack'[i].src = stack[i].src
              /\ ptr'[stack[i].dst] = NULL /\ stack[i].dst # NULL
    BY <1>3, <1>5, <2>1
  <2> QED  BY <2>2, AssignStep
<1>6. ASSUME NEW pc \in {"body", "take"}, NEW o \in Object \cup {NULL},
             stack' = Append(s, NewFrame(pc, o, dst, src, kept))
      PROVE  AssignInv'
  <2>1. PICK f \in Frame : /\ f = NewFrame(pc, o, dst, src, kept)
                           /\ f.pc = pc /\ f.obj = o /\ f.dst = dst /\ f.src = src
    BY NewFrameTyped
  <2>2. /\ Len(stack') = Len(stack) + 1 /\ stack'[Len(stack) + 1] = f /\ Len(stack) \in Nat
        /\ \A i \in 1..Len(stack) : stack'[i] = s[i]
    BY <1>6, <2>1, PushElement, LenProperties DEF Like
  <2>3. \A i \in 1..Len(stack') : i \in 1..Len(stack) \/ i = Len(stack) + 1
    BY <2>2
  <2>4. \A i \in 1..Len(stack') :
           \/ stack'[i].src = NULL
           \/ /\ i \in 1..Len(stack) /\ stack'[i].dst = stack[i].dst /\ stack'[i].src = stack[i].src
              /\ ptr'[stack[i].dst] = NULL /\ stack[i].dst # dst
           \/ i = Len(stack) + 1 /\ stack'[i].dst = dst /\ ptr'[dst] = NULL
    BY <1>2, <1>3, <2>1, <2>2, <2>3
  <2> QED  BY <2>4, AssignStep
<1> QED  BY <1>4, <1>5, <1>6

\* The calls stay, and no handle they use is made to refer to anything.
LEMMA KeepsAssign ==
  ASSUME GraphInv, AssignInv, NEW s, Like(s), stack' = s,
         \A i \in 1..Len(stack) : stack[i].dst # NULL => ptr'[stack[i].dst] = ptr[stack[i].dst]
  PROVE  AssignInv'
<1>1. Len(stack') = Len(stack)
  BY DEF Like
<1>2. ASSUME NEW i \in 1..Len(stack)
      PROVE  \/ stack'[i].src = NULL
             \/ /\ i \in 1..Len(stack) /\ stack'[i].dst = stack[i].dst
                /\ stack'[i].src = stack[i].src
                /\ ptr'[stack[i].dst] = NULL /\ stack[i].dst # NULL
  BY DEF Like, AssignInv, GraphInv, StackInv, FrameInv
<1> QED  BY <1>1, <1>2, AssignStep

\* The latest call goes on or returns.
LEMMA GoesOnAssign ==
  ASSUME GraphInv, AssignInv, stack # <<>>,
         Return \/ \E pc \in {"body", "members", "base", "free", "take"} : Goto(pc),
         \A i \in 1..Len(stack) : i = Len(stack) \/ stack[i].src = NULL
                                   \/ ptr'[stack[i].dst] = NULL,
         ~Return => \A h \in StrongHandle : ptr'[h] = ptr[h]
  PROVE  AssignInv'
<1>1. stack \in Seq(Frame) /\ Len(stack) \in 1..Len(stack)
  BY PopElement DEF GraphInv, GraphTypeOK
<1>2. \A i \in 1..Len(stack) :
        stack[i].src # NULL => stack[i].dst \in StrongHandle /\ stack[i].dst # NULL
  BY AssignTyped
<1>3. CASE Return
  <2>1. /\ Len(stack') = Len(stack) - 1
        /\ \A i \in 1..(Len(stack) - 1) : stack'[i] = stack[i]
    BY <1>1, <1>3, PopElement DEF Return
  <2>2. \A i \in 1..(Len(stack) - 1) : i \in 1..Len(stack) /\ i # Len(stack)
    BY <1>1
  <2>3. \A i \in 1..Len(stack') :
           \/ stack'[i].src = NULL
           \/ /\ i \in 1..Len(stack) /\ stack'[i].dst = stack[i].dst /\ stack'[i].src = stack[i].src
              /\ ptr'[stack[i].dst] = NULL /\ stack[i].dst # NULL
    BY <1>2, <2>1, <2>2
  <2> QED  BY <2>3, AssignStep
<1>4. CASE ~Return
  <2>1. PICK f \in Frame : /\ stack' = [stack EXCEPT ![Len(stack)] = f]
                           /\ f.src = Top.src /\ f.dst = Top.dst
    BY <1>4, GotoFrame
  <2>2. /\ Len(stack') = Len(stack)
        /\ \A i \in 1..Len(stack) : stack'[i] = IF i = Len(stack) THEN f ELSE stack[i]
    BY <1>1, <2>1, ReplaceElement
  <2>3. \A i \in 1..Len(stack) : stack'[i].src = stack[i].src /\ stack'[i].dst = stack[i].dst
    BY <2>1, <2>2 DEF Top
  <2>4. \A i \in 1..Len(stack) : stack[i].src # NULL => ptr'[stack[i].dst] = NULL
    BY <1>2, <1>4 DEF AssignInv
  <2>5. \A i \in 1..Len(stack') :
           \/ stack'[i].src = NULL
           \/ /\ i \in 1..Len(stack) /\ stack'[i].dst = stack[i].dst /\ stack'[i].src = stack[i].src
              /\ ptr'[stack[i].dst] = NULL /\ stack[i].dst # NULL
    BY <1>2, <2>2, <2>3, <2>4
  <2> QED  BY <2>5, AssignStep
<1> QED  BY <1>3, <1>4

\* A destruction or a release begins that no assignment waits for.
LEMMA BeginsAssign ==
  ASSUME GraphInv, AssignInv, NEW s, Like(s), NEW f \in Frame, f.src = NULL,
         stack' = Append(s, f),
         \A i \in 1..Len(stack) : stack[i].dst # NULL => ptr'[stack[i].dst] = ptr[stack[i].dst]
  PROVE  AssignInv'
<1>1. /\ Len(stack') = Len(stack) + 1 /\ stack'[Len(stack) + 1] = f /\ Len(stack) \in Nat
      /\ \A i \in 1..Len(stack) : stack'[i] = s[i]
  BY PushElement, LenProperties DEF Like
<1>2. \A i \in 1..Len(stack') : i \in 1..Len(stack) \/ i = Len(stack) + 1
  BY <1>1
<1>3. \A i \in 1..Len(stack) :
        /\ stack'[i].dst = stack[i].dst /\ stack'[i].src = stack[i].src
        /\ stack[i].src # NULL => stack[i].dst # NULL /\ ptr'[stack[i].dst] = NULL
  BY <1>1, AssignTyped DEF Like, AssignInv
<1>4. \A i \in 1..Len(stack') :
         \/ stack'[i].src = NULL
         \/ /\ i \in 1..Len(stack) /\ stack'[i].dst = stack[i].dst /\ stack'[i].src = stack[i].src
            /\ ptr'[stack[i].dst] = NULL /\ stack[i].dst # NULL
  BY <1>1, <1>2, <1>3
<1> QED  BY <1>4, AssignStep

\* What a waiting assignment assigns to is not in scope, and is no weak handle.
LEMMA OutOfScope ==
  ASSUME GraphInv, NEW i \in 1..Len(stack), stack[i].dst # NULL
  PROVE  stack[i].dst \in StrongHandle /\ stack[i].dst \notin InScope \cup Watching
<1>1. stack[i] \in Frame
  BY ElementOfSeq DEF GraphInv, GraphTypeOK
<1>2. stack[i].dst \in StrongHandle
  BY <1>1 DEF Frame
<1> QED  BY <1>2, GraphAssumption DEF InScope

\* The operations of the program.
LEMMA OperationAssigns ==
  ASSUME GraphInv, AssignInv, Operation
  PROVE  AssignInv'
<1>0. GraphTypeOK /\ Like(Disturbed)
  BY DisturbedLike DEF GraphInv
<1>1. ASSUME NEW x \in StrongHandle \cap InScope, NEW o \in Object, Make(x, o) PROVE AssignInv'
  <2>1. stack' = Disturbed /\ ptr' = [ptr EXCEPT ![x] = o, ![o] = o]
    BY <1>1 DEF Make
  <2>2. \A g \in StrongHandle \ {x} : ptr'[g] = ptr[g]
    BY <1>0, <2>1, HandleFacts DEF GraphTypeOK
  <2> QED  BY <1>0, <2>1, <2>2, OutOfScope, KeepsAssign
<1>2. ASSUME NEW x \in StrongHandle \cap InScope, NEW y \in StrongHandle \cap InScope, Copy(x, y)
      PROVE  AssignInv'
  <2>1. ptr' = [ptr EXCEPT ![x] = ptr[y]]
    BY <1>2 DEF Copy
  <2>2. \A g \in StrongHandle \ {x} : ptr'[g] = ptr[g]
    BY <1>0, <2>1 DEF GraphTypeOK
  <2>3. CASE stack' = Disturbed
    BY <1>0, <2>2, <2>3, OutOfScope, KeepsAssign
  <2>4. CASE stack' = Append(Disturbed, NewFrame("body", ptr[x], NULL, NULL, FALSE))
    <3> DEFINE g == NewFrame("body", ptr[x], NULL, NULL, FALSE)
    <3>1. g \in Frame /\ g.src = NULL
      BY <1>0 DEF NewFrame, Frame, GraphTypeOK
    <3> HIDE DEF g
    <3>2. stack' = Append(Disturbed, g)
      BY <2>4 DEF g
    <3> QED  BY <1>0, <2>2, <3>1, <3>2, OutOfScope, BeginsAssign
  <2> QED  BY <1>2, <2>3, <2>4 DEF Copy
<1>3. ASSUME NEW x \in StrongHandle \cap InScope, NEW y \in StrongHandle \cap InScope, Swap(x, y)
      PROVE  AssignInv'
  <2>1. stack' = Disturbed /\ ptr' = [ptr EXCEPT ![x] = ptr[y], ![y] = ptr[x]]
    BY <1>3 DEF Swap
  <2>2. \A g \in StrongHandle \ {x, y} : ptr'[g] = ptr[g]
    BY <1>0, <2>1 DEF GraphTypeOK
  <2> QED  BY <1>0, <2>1, <2>2, OutOfScope, KeepsAssign
<1>4. ASSUME NEW x \in StrongHandle \cap InScope, NEW y \in StrongHandle \cap InScope,
             MoveAssign(x, y)
      PROVE  AssignInv'
  <2>1. PICK kept \in BOOLEAN : Release(x, Disturbed, x, y, kept)
    BY <1>4 DEF MoveAssign, Survives
  <2>2. x # NULL /\ \A i \in 1..Len(stack) : stack[i].dst # x
    BY HandleFacts DEF InScope
  <2> QED  BY <1>0, <2>1, <2>2, ReleaseAssigns
<1>5. ASSUME NEW x \in StrongHandle \cap InScope, Reset(x) PROVE AssignInv'
  <2>1. PICK kept \in BOOLEAN : Release(x, Disturbed, NULL, NULL, kept)
    BY <1>5 DEF Reset
  <2> QED  BY <1>0, <2>1, ReleaseAssigns
<1>6. ASSUME NEW w \in WeakHandle, NEW h \in InScope, Watch(w, h) PROVE AssignInv'
  <2>1. stack' = Disturbed /\ ptr' = [ptr EXCEPT ![w] = ptr[h]]
    BY <1>6 DEF Watch
  <2>2. \A g \in StrongHandle : ptr'[g] = ptr[g]
    BY <1>0, <2>1, HandleFacts DEF GraphTypeOK
  <2> QED  BY <1>0, <2>1, <2>2, OutOfScope, KeepsAssign
<1>7. ASSUME NEW x \in StrongHandle \cap InScope, NEW w \in WeakHandle, Lock(x, w) PROVE AssignInv'
  <2>1. stack' = Disturbed /\ ptr' = [ptr EXCEPT ![x] = ptr[w]]
    BY <1>7 DEF Lock
  <2>2. \A g \in StrongHandle \ {x} : ptr'[g] = ptr[g]
    BY <1>0, <2>1 DEF GraphTypeOK
  <2> QED  BY <1>0, <2>1, <2>2, OutOfScope, KeepsAssign
<1>8. ASSUME NEW w \in WeakHandle, NEW s, Like(s), ReleaseWeak(w, s) PROVE AssignInv'
  <2>1. ptr' = [ptr EXCEPT ![w] = NULL]
    BY <1>8 DEF ReleaseWeak
  <2>2. \A g \in StrongHandle : ptr'[g] = ptr[g]
    BY <1>0, <2>1, HandleFacts DEF GraphTypeOK
  <2>3. CASE stack' = s
    BY <1>8, <2>2, <2>3, OutOfScope, KeepsAssign
  <2>4. CASE stack' = Append(s, NewFrame("free", ptr[w], NULL, NULL, FALSE))
    <3> DEFINE g == NewFrame("free", ptr[w], NULL, NULL, FALSE)
    <3>1. g \in Frame /\ g.src = NULL
      BY <1>0, HandleFacts DEF NewFrame, Frame, GraphTypeOK
    <3> HIDE DEF g
    <3>2. stack' = Append(s, g)
      BY <2>4 DEF g
    <3> QED  BY <1>8, <2>2, <3>1, <3>2, OutOfScope, BeginsAssign
  <2> QED  BY <1>8, <2>3, <2>4 DEF ReleaseWeak
<1> QED
  BY <1>0, <1>1, <1>2, <1>3, <1>4, <1>5, <1>6, <1>7, <1>8 DEF Operation, WeakReset

\* The steps of destructions and assignments.
LEMMA StepAssigns ==
  ASSUME GraphInv, AssignInv, Step
  PROVE  AssignInv'
<1> USE HandleFacts
<1>0. GraphTypeOK /\ Like(stack)
  BY DisturbedLike DEF GraphInv
<1>1. ASSUME NEW h \in (Object \X StrongField) \cup (Object \X WeakField), DestroyMember(h)
      PROVE  AssignInv'
  <2>1. CASE h \in StrongHandle
    <3>1. PICK kept \in BOOLEAN : Release(h, stack, NULL, NULL, kept)
      BY <1>1, <2>1 DEF DestroyMember
    <3> QED  BY <1>0, <2>1, <3>1, ReleaseAssigns
  <2>2. CASE h \notin StrongHandle
    <3>1. h \in WeakHandle /\ ReleaseWeak(h, stack)
      BY <1>1, <2>2 DEF DestroyMember, StrongHandle, WeakHandle
    <3>2. \A g \in StrongHandle : ptr'[g] = ptr[g]
      BY <1>0, <3>1 DEF GraphTypeOK, ReleaseWeak
    <3>3. CASE stack' = stack
      BY <1>0, <3>2, <3>3, OutOfScope, KeepsAssign
    <3>4. CASE stack' = Append(stack, NewFrame("free", ptr[h], NULL, NULL, FALSE))
      <4> DEFINE g == NewFrame("free", ptr[h], NULL, NULL, FALSE)
      <4>1. g \in Frame /\ g.src = NULL
        BY <1>0, <3>1 DEF NewFrame, Frame, GraphTypeOK, Watching
      <4> HIDE DEF g
      <4>2. stack' = Append(stack, g)
        BY <3>4 DEF g
      <4> QED  BY <1>0, <3>2, <4>1, <4>2, OutOfScope, BeginsAssign
    <3> QED  BY <3>1, <3>3, <3>4 DEF ReleaseWeak
  <2> QED  BY <2>1, <2>2
<1>2. CASE BodyReturns \/ DestroyBase \/ ReleaseBase \/ FreeBlock
  <2>1. stack # <<>>
    BY <1>2 DEF BodyReturns, DestroyBase, ReleaseBase, FreeBlock, At
  <2>2. \A h \in StrongHandle : ptr'[h] = ptr[h]
    <3>1. CASE ReleaseBase
      <4>1. Top.obj \in Object /\ ptr' = [ptr EXCEPT ![Top.obj] = NULL]
        BY <2>1, <3>1, GotoFrame DEF ReleaseBase, At, FrameInv
      <4> QED  BY <1>0, <4>1 DEF GraphTypeOK
    <3> QED  BY <1>2, <3>1 DEF BodyReturns, DestroyBase, FreeBlock
  <2>3. Return \/ \E pc \in {"body", "members", "base", "free", "take"} : Goto(pc)
    BY <1>2 DEF BodyReturns, DestroyBase, ReleaseBase, FreeBlock, Done
  <2>4. \A i \in 1..Len(stack) : i = Len(stack) \/ stack[i].src = NULL
                                  \/ ptr'[stack[i].dst] = NULL
    BY <2>2, AssignTyped DEF AssignInv
  <2> QED  BY <2>1, <2>2, <2>3, <2>4, GoesOnAssign
<1>3. CASE Take
  <2>1. stack # <<>> /\ Return /\ Top.src # NULL /\ Top.dst \in StrongHandle /\ Top.src \in StrongHandle
    BY <1>3, GotoFrame DEF Take, At, FrameInv, Frame
  <2>2. PICK x \in StrongHandle, y \in StrongHandle : x = Top.dst /\ y = Top.src
    BY <2>1
  <2>3. ptr' = ptr \/ ptr' = [ptr EXCEPT ![x] = ptr[y], ![y] = NULL]
    BY <1>3, <2>2 DEF Take
  <2>4. \A g \in StrongHandle \ {x} : ptr'[g] = ptr[g] \/ ptr'[g] = NULL
    BY <1>0, <2>3 DEF GraphTypeOK
  <2>5. Len(stack) \in 1..Len(stack)
    BY <2>1, PopElement DEF GraphInv, GraphTypeOK
  <2>6. \A i \in 1..Len(stack) : i = Len(stack) \/ stack[i].src = NULL
                                  \/ ptr'[stack[i].dst] = NULL
    <3>1. SUFFICES ASSUME NEW i \in 1..Len(stack), i # Len(stack), stack[i].src # NULL
                   PROVE  ptr'[stack[i].dst] = NULL
      OBVIOUS
    <3>2. stack[i].dst \in StrongHandle \ {x} /\ ptr[stack[i].dst] = NULL
      BY <2>1, <2>2, <2>5, <3>1, AssignTyped DEF AssignInv, Top
    <3> QED  BY <2>4, <3>2
  <2> QED  BY <2>1, <2>6, GoesOnAssign
<1> QED  BY <1>1, <1>2, <1>3 DEF Step

\* What SharedOwnership sees of the handles and of the targets.
Seen(w) == IF w \in Object /\ life[w] \in {"alive", "destroying"} THEN NULL ELSE ptr[w]

StageOf(o) ==
  CASE life[o] = "none" -> "none"
    [] life[o] \in {"alive", "destroying"} -> "live"
    [] life[o] = "destroyed" -> "dead"
    [] life[o] = "reclaimed" -> "reclaimed"

OwnBar == [h \in StrongHandle |-> ptr[h]]

WatchBar == [w \in Watching |-> Seen(w)]

StageBar == [o \in Object |-> StageOf(o)]

\* The steps of SharedOwnership, of what it sees.
LEMMA SharedSteps ==
  /\ \A x \in StrongHandle, o \in Object :
       /\ OwnBar[x] = NULL /\ StageBar[o] = "none"
       /\ OwnBar' = [OwnBar EXCEPT ![x] = o] /\ StageBar' = [StageBar EXCEPT ![o] = "live"]
       /\ WatchBar' = WatchBar
       => Shared_!SharedNext
  /\ \A x \in StrongHandle, y \in StrongHandle, o \in Object :
       /\ OwnBar[y] = o /\ OwnBar' = [OwnBar EXCEPT ![x] = o]
       /\ StageBar' = StageBar /\ WatchBar' = WatchBar
       => Shared_!SharedNext
  /\ \A w \in Watching, o \in Object :
       /\ WatchBar[w] = NULL
       /\ (\E x \in StrongHandle : OwnBar[x] = o) \/ (\E v \in Watching : WatchBar[v] = o)
       /\ WatchBar' = [WatchBar EXCEPT ![w] = o]
       /\ OwnBar' = OwnBar /\ StageBar' = StageBar
       => Shared_!SharedNext
  /\ \A x \in StrongHandle :
       /\ OwnBar' = [OwnBar EXCEPT ![x] = NULL]
       /\ StageBar' = StageBar /\ WatchBar' = WatchBar
       => Shared_!SharedNext
  /\ \A w \in Watching :
       /\ WatchBar' = [WatchBar EXCEPT ![w] = NULL]
       /\ OwnBar' = OwnBar /\ StageBar' = StageBar
       => Shared_!SharedNext
  /\ \A x \in StrongHandle, y \in StrongHandle :
       /\ OwnBar' = [OwnBar EXCEPT ![x] = OwnBar[y], ![y] = OwnBar[x]]
       /\ StageBar' = StageBar /\ WatchBar' = WatchBar
       => Shared_!SharedNext
  /\ \A o \in Object :
       /\ StageBar[o] = "live" /\ \A x \in StrongHandle : OwnBar[x] # o
       /\ StageBar' = [StageBar EXCEPT ![o] = "dead"]
       /\ \E w \in Watching : WatchBar[w] = NULL /\ WatchBar' = [WatchBar EXCEPT ![w] = o]
       /\ OwnBar' = OwnBar
       => Shared_!SharedNext
  /\ \A o \in Object :
       /\ StageBar[o] = "dead" /\ \A w \in Watching : WatchBar[w] # o
       /\ StageBar' = [StageBar EXCEPT ![o] = "reclaimed"]
       /\ OwnBar' = OwnBar /\ WatchBar' = WatchBar
       => Shared_!SharedNext
<1> USE DEF OwnBar, WatchBar, StageBar, Seen, StageOf
<1>1. \A x \in StrongHandle, o \in Object :
       /\ OwnBar[x] = NULL /\ StageBar[o] = "none"
       /\ OwnBar' = [OwnBar EXCEPT ![x] = o] /\ StageBar' = [StageBar EXCEPT ![o] = "live"]
       /\ WatchBar' = WatchBar
       => Shared_!Create(x, o)
  BY DEF Shared_!Create
<1>2. \A x \in StrongHandle, y \in StrongHandle, o \in Object :
       /\ OwnBar[y] = o /\ OwnBar' = [OwnBar EXCEPT ![x] = o]
       /\ StageBar' = StageBar /\ WatchBar' = WatchBar
       => Shared_!Share(x, o)
  BY DEF Shared_!Share, Shared_!Owned
<1>3. \A w \in Watching, o \in Object :
       /\ WatchBar[w] = NULL
       /\ (\E x \in StrongHandle : OwnBar[x] = o) \/ (\E v \in Watching : WatchBar[v] = o)
       /\ WatchBar' = [WatchBar EXCEPT ![w] = o]
       /\ OwnBar' = OwnBar /\ StageBar' = StageBar
       => Shared_!Observe(w, o)
  BY DEF Shared_!Observe, Shared_!Owned, Shared_!Watched
<1>4. \A x \in StrongHandle :
       /\ OwnBar' = [OwnBar EXCEPT ![x] = NULL]
       /\ StageBar' = StageBar /\ WatchBar' = WatchBar
       => Shared_!Drop(x)
  BY DEF Shared_!Drop
<1>5. \A w \in Watching :
       /\ WatchBar' = [WatchBar EXCEPT ![w] = NULL]
       /\ OwnBar' = OwnBar /\ StageBar' = StageBar
       => Shared_!Forget(w)
  BY DEF Shared_!Forget
<1>6. \A x \in StrongHandle, y \in StrongHandle :
       /\ OwnBar' = [OwnBar EXCEPT ![x] = OwnBar[y], ![y] = OwnBar[x]]
       /\ StageBar' = StageBar /\ WatchBar' = WatchBar
       => Shared_!ExchangeOwners(x, y)
  BY DEF Shared_!ExchangeOwners
<1>7. \A o \in Object :
       /\ StageBar[o] = "live" /\ \A x \in StrongHandle : OwnBar[x] # o
       /\ StageBar' = [StageBar EXCEPT ![o] = "dead"]
       /\ \E w \in Watching : WatchBar[w] = NULL /\ WatchBar' = [WatchBar EXCEPT ![w] = o]
       /\ OwnBar' = OwnBar
       => Shared_!Destroy(o)
  BY DEF Shared_!Destroy, Shared_!Owned
<1>8. \A o \in Object :
       /\ StageBar[o] = "dead" /\ \A w \in Watching : WatchBar[w] # o
       /\ StageBar' = [StageBar EXCEPT ![o] = "reclaimed"]
       /\ OwnBar' = OwnBar /\ WatchBar' = WatchBar
       => Shared_!Reclaim(o)
  BY DEF Shared_!Reclaim, Shared_!Watched
<1> HIDE DEF OwnBar, WatchBar, StageBar, Seen, StageOf
<1> QED  BY <1>1, <1>2, <1>3, <1>4, <1>5, <1>6, <1>7, <1>8 DEF Shared_!SharedNext

\* What is seen changes where the handles and the targets do.
LEMMA SeenSame ==
  ASSUME \A w \in Watching : ptr'[w] = ptr[w],
         \A o \in Object : \/ life'[o] = life[o]
                           \/ life[o] = "alive" /\ life'[o] = "destroying"
  PROVE  WatchBar' = WatchBar /\ StageBar' = StageBar
<1>1. \A w \in Watching : Seen(w)' = Seen(w)
  BY DEF Seen
<1>2. \A o \in Object : StageOf(o)' = StageOf(o)
  BY DEF StageOf
<1> QED  BY <1>1, <1>2 DEF WatchBar, StageBar

\* One strong handle changes, two exchange, or none does.
LEMMA OwnChanges ==
  /\ \A h \in StrongHandle : OwnBar[h] = ptr[h]
  /\ (\A g \in StrongHandle : ptr'[g] = ptr[g]) => OwnBar' = OwnBar
  /\ \A x \in StrongHandle : (\A g \in StrongHandle \ {x} : ptr'[g] = ptr[g])
       => OwnBar' = [OwnBar EXCEPT ![x] = ptr'[x]]
  /\ \A x \in StrongHandle, y \in StrongHandle :
       (\A g \in StrongHandle \ {x, y} : ptr'[g] = ptr[g]) /\ ptr'[x] = ptr[y] /\ ptr'[y] = ptr[x]
       => OwnBar' = [OwnBar EXCEPT ![x] = OwnBar[y], ![y] = OwnBar[x]]
BY DEF OwnBar

\* One watcher changes.
LEMMA WatchChanges ==
  /\ \A w \in Watching : WatchBar[w] = Seen(w)
  /\ \A w \in Watching : (\A v \in Watching \ {w} : Seen(v)' = Seen(v))
       => \A u : (Seen(w)' = u => WatchBar' = [WatchBar EXCEPT ![w] = u])
BY DEF WatchBar

\* One target's stage changes.
LEMMA StageChanges ==
  /\ \A o \in Object : StageBar[o] = StageOf(o)
  /\ \A o \in Object : (\A p \in Object \ {o} : life'[p] = life[p])
       => \A u : (StageOf(o)' = u => StageBar' = [StageBar EXCEPT ![o] = u])
<1>1. ASSUME NEW o \in Object, \A p \in Object \ {o} : life'[p] = life[p],
             NEW u, StageOf(o)' = u
      PROVE  StageBar' = [StageBar EXCEPT ![o] = u]
  <2>1. \A p \in Object \ {o} : StageOf(p)' = StageOf(p)
    BY <1>1 DEF StageOf
  <2> QED  BY <1>1, <2>1 DEF StageBar
<1> QED  BY <1>1 DEF StageBar

\* A release gives up the reference of its handle.
LEMMA ReleaseShares ==
  ASSUME GraphInv, NEW h \in StrongHandle, NEW s, NEW dst, NEW src, NEW kept,
         Release(h, s, dst, src, kept)
  PROVE  Shared_!SharedNext
<1> USE HandleFacts
<1>1. ptr' = [ptr EXCEPT ![h] = NULL] /\ GraphTypeOK
  BY DEF Release, GraphInv
<1>2. /\ ptr'[h] = NULL /\ \A g \in (StrongHandle \cup Watching) \ {h} : ptr'[g] = ptr[g]
  BY <1>1, AssignHandle
<1>3. \A g \in Watching : ptr'[g] = ptr[g]
  BY <1>2 DEF Watching
<1>4. \A o \in Object : life'[o] = life[o] \/ (life[o] = "alive" /\ life'[o] = "destroying")
  <2>1. ptr[h] # NULL => life[ptr[h]] = "alive"
    BY DEF GraphInv, HandleInv
  <2> QED  BY <1>1, <2>1 DEF Release, GraphTypeOK
<1>5. OwnBar' = [OwnBar EXCEPT ![h] = NULL]
  BY <1>2, OwnChanges
<1> QED  BY <1>3, <1>4, <1>5, SeenSame, SharedSteps

\* A weak release gives up what its handle watches.
LEMMA ReleaseWeakShares ==
  ASSUME GraphInv, NEW h \in WeakHandle, NEW s, ReleaseWeak(h, s)
  PROVE  Shared_!SharedNext
<1> USE HandleFacts
<1>1. ptr' = [ptr EXCEPT ![h] = NULL] /\ life' = life /\ GraphTypeOK
  BY DEF ReleaseWeak, GraphInv
<1>2. /\ ptr'[h] = NULL /\ \A g \in (StrongHandle \cup Watching) \ {h} : ptr'[g] = ptr[g]
  BY <1>1, AssignHandle
<1>3. Seen(h)' = NULL /\ \A v \in Watching \ {h} : Seen(v)' = Seen(v)
  BY <1>1, <1>2 DEF Seen
<1>4. WatchBar' = [WatchBar EXCEPT ![h] = NULL] /\ OwnBar' = OwnBar
  BY <1>2, <1>3, WatchChanges, OwnChanges
<1>5. StageBar' = StageBar
  BY <1>1 DEF StageBar, StageOf
<1> QED  BY <1>4, <1>5, SharedSteps

\* The handle x comes to share what handle h owns, or owns nothing.
LEMMA ShareShares ==
  ASSUME GraphInv, NEW x \in StrongHandle, NEW v \in Object \cup {NULL},
         ptr' = [ptr EXCEPT ![x] = v], v # NULL => \E y \in StrongHandle : ptr[y] = v,
         \A o \in Object : \/ life'[o] = life[o]
                           \/ life[o] = "alive" /\ life'[o] = "destroying"
  PROVE  Shared_!SharedNext
<1> USE HandleFacts
<1>1. /\ ptr'[x] = v /\ \A g \in (StrongHandle \cup Watching) \ {x} : ptr'[g] = ptr[g]
  BY AssignHandle DEF GraphInv
<1>2. WatchBar' = WatchBar /\ StageBar' = StageBar
  <2>1. \A g \in Watching : ptr'[g] = ptr[g]
    BY <1>1 DEF Watching
  <2> QED  BY <2>1, SeenSame
<1>3. OwnBar' = [OwnBar EXCEPT ![x] = v]
  BY <1>1, OwnChanges
<1>4. v # NULL => \E y \in StrongHandle : OwnBar[y] = v
  BY OwnChanges
<1> QED  BY <1>2, <1>3, <1>4, SharedSteps

\* What the program does is a step of SharedOwnership, or nothing is seen of it.
LEMMA OperationShares ==
  ASSUME GraphInv, Operation
  PROVE  Shared_!SharedNext \/ (OwnBar' = OwnBar /\ WatchBar' = WatchBar /\ StageBar' = StageBar)
<1> USE HandleFacts
<1>0. GraphTypeOK
  BY DEF GraphInv
<1>1. ASSUME NEW x \in StrongHandle, NEW o \in Object, Make(x, o) PROVE Shared_!SharedNext
  <2>1. /\ ptr[x] = NULL /\ life[o] = "none" /\ ptr' = [ptr EXCEPT ![x] = o, ![o] = o]
        /\ life' = [life EXCEPT ![o] = "alive"] /\ ptr[o] = NULL
    BY <1>1 DEF Make, GraphInv, HandleInv
  <2>2. /\ ptr'[x] = o /\ \A g \in (StrongHandle \cup Watching) \ {x, o} : ptr'[g] = ptr[g]
        /\ life'[o] = "alive" /\ \A p \in Object \ {o} : life'[p] = life[p]
    BY <1>0, <2>1 DEF GraphTypeOK
  <2>3. \A w \in Watching : Seen(w)' = Seen(w)
    <3>1. Seen(o)' = NULL /\ Seen(o) = NULL
      BY <2>1, <2>2 DEF Seen
    <3>2. \A w \in Watching \ {o} : Seen(w)' = Seen(w)
      BY <2>2 DEF Seen, Watching
    <3> QED  BY <3>1, <3>2
  <2>4. WatchBar' = WatchBar
    BY <2>3 DEF WatchBar
  <2>5. OwnBar[x] = NULL /\ OwnBar' = [OwnBar EXCEPT ![x] = o]
    BY <2>1, <2>2, OwnChanges
  <2>6. StageOf(o) = "none" /\ StageOf(o)' = "live"
    BY <2>1, <2>2 DEF StageOf
  <2>7. StageBar[o] = "none" /\ StageBar' = [StageBar EXCEPT ![o] = "live"]
    BY <2>2, <2>6, StageChanges
  <2> QED  BY <2>4, <2>5, <2>7, SharedSteps
<1>2. ASSUME NEW x \in StrongHandle, NEW y \in StrongHandle, Copy(x, y) PROVE Shared_!SharedNext
  <2>1. ptr' = [ptr EXCEPT ![x] = ptr[y]] /\ ptr[y] \in Object \cup {NULL}
    BY <1>0, <1>2 DEF Copy, GraphTypeOK
  <2>2. \A o \in Object : life'[o] = life[o] \/ (life[o] = "alive" /\ life'[o] = "destroying")
    <3>1. ptr[x] # NULL => life[ptr[x]] = "alive"
      BY DEF GraphInv, HandleInv
    <3> QED  BY <1>0, <1>2, <3>1 DEF Copy, GraphTypeOK
  <2> QED  BY <2>1, <2>2, ShareShares
<1>3. ASSUME NEW x \in StrongHandle, NEW y \in StrongHandle, Swap(x, y) PROVE Shared_!SharedNext
  <2>1. ptr' = [ptr EXCEPT ![x] = ptr[y], ![y] = ptr[x]] /\ life' = life
    BY <1>3 DEF Swap
  <2>2. /\ ptr'[x] = ptr[y] /\ ptr'[y] = ptr[x]
        /\ \A g \in (StrongHandle \cup Watching) \ {x, y} : ptr'[g] = ptr[g]
    BY <1>0, <2>1 DEF GraphTypeOK
  <2>3. WatchBar' = WatchBar /\ StageBar' = StageBar
    <3>1. \A g \in Watching : ptr'[g] = ptr[g]
      BY <2>2 DEF Watching
    <3> QED  BY <2>1, <3>1, SeenSame
  <2>4. OwnBar' = [OwnBar EXCEPT ![x] = OwnBar[y], ![y] = OwnBar[x]]
    BY <2>2, OwnChanges
  <2> QED  BY <2>3, <2>4, SharedSteps
<1>4. ASSUME NEW x \in StrongHandle, NEW w \in WeakHandle, Lock(x, w) PROVE Shared_!SharedNext
  <2>1. /\ ptr' = [ptr EXCEPT ![x] = ptr[w]] /\ ptr[w] \in Object \cup {NULL} /\ life' = life
        /\ \E y \in StrongHandle : ptr[y] = ptr[w]
    BY <1>0, <1>4 DEF Lock, Owned, GraphTypeOK
  <2> QED  BY <2>1, ShareShares
<1>5. ASSUME NEW w \in WeakHandle, NEW h \in StrongHandle \cup WeakHandle, Watch(w, h)
      PROVE  Shared_!SharedNext \/ (OwnBar' = OwnBar /\ WatchBar' = WatchBar /\ StageBar' = StageBar)
  <2>1. ptr' = [ptr EXCEPT ![w] = ptr[h]] /\ ptr[w] = NULL /\ life' = life
    BY <1>5 DEF Watch
  <2>2. /\ ptr'[w] = ptr[h] /\ \A g \in (StrongHandle \cup Watching) \ {w} : ptr'[g] = ptr[g]
    BY <1>0, <2>1 DEF GraphTypeOK
  <2>3. OwnBar' = OwnBar /\ StageBar' = StageBar
    BY <2>1, <2>2, OwnChanges DEF StageBar, StageOf
  <2>4. Seen(w) = NULL /\ Seen(w)' = ptr[h] /\ \A v \in Watching \ {w} : Seen(v)' = Seen(v)
    BY <2>1, <2>2 DEF Seen
  <2>5. CASE ptr[h] = NULL
    <3>1. \A v \in Watching : Seen(v)' = Seen(v)
      BY <2>4, <2>5
    <3> QED  BY <2>3, <3>1 DEF WatchBar
  <2>6. CASE ptr[h] # NULL
    <3>1. PICK o \in Object : o = ptr[h]
      BY <1>0, <2>6 DEF GraphTypeOK
    <3>2. WatchBar[w] = NULL /\ WatchBar' = [WatchBar EXCEPT ![w] = o]
      BY <2>4, <3>1, WatchChanges
    <3>3. (\E x \in StrongHandle : OwnBar[x] = o) \/ (\E v \in Watching : WatchBar[v] = o)
      <4>1. CASE h \in StrongHandle
        BY <3>1, <4>1, OwnChanges
      <4>2. CASE h \in WeakHandle
        <5>1. Seen(h) = o
          BY <3>1, <4>2 DEF Seen
        <5> QED  BY <4>2, <5>1, WatchChanges
      <4> QED  BY <4>1, <4>2
    <3> QED  BY <2>3, <3>2, <3>3, SharedSteps
  <2> QED  BY <2>5, <2>6
<1>6. ASSUME NEW x \in StrongHandle, NEW y \in StrongHandle, MoveAssign(x, y)
      PROVE  Shared_!SharedNext
  BY <1>6, ReleaseShares DEF MoveAssign
<1>7. ASSUME NEW x \in StrongHandle, Reset(x) PROVE Shared_!SharedNext
  BY <1>7, ReleaseShares DEF Reset
<1>8. ASSUME NEW w \in WeakHandle, WeakReset(w) PROVE Shared_!SharedNext
  BY <1>8, ReleaseWeakShares DEF WeakReset
<1> QED
  BY <1>1, <1>2, <1>3, <1>4, <1>5, <1>6, <1>7, <1>8, ScopeFacts DEF Operation

\* How destructions and assignments go on is a step of SharedOwnership, or nothing is
\* seen of it.
LEMMA StepShares ==
  ASSUME GraphInv, AssignInv, Step
  PROVE  Shared_!SharedNext \/ (OwnBar' = OwnBar /\ WatchBar' = WatchBar /\ StageBar' = StageBar)
<1> USE HandleFacts
<1>0. GraphTypeOK
  BY DEF GraphInv
<1>1. ASSUME NEW h \in (Object \X StrongField) \cup (Object \X WeakField), DestroyMember(h)
      PROVE  Shared_!SharedNext
  BY <1>1, ReleaseShares, ReleaseWeakShares DEF DestroyMember, StrongHandle, WeakHandle
<1>2. ASSUME BodyReturns
      PROVE  OwnBar' = OwnBar /\ WatchBar' = WatchBar /\ StageBar' = StageBar
  <2>1. ptr' = ptr /\ life' = life
    BY <1>2 DEF BodyReturns
  <2> QED  BY <2>1, SeenSame, OwnChanges
<1>3. ASSUME DestroyBase PROVE Shared_!SharedNext
  <2>1. PICK o \in Object : o = Top.obj /\ life[o] = "destroying"
    BY <1>3, GotoFrame DEF DestroyBase, At, FrameInv, Nesting
  <2>2. life' = [life EXCEPT ![o] = "destroyed"] /\ ptr' = ptr
    BY <1>3, <2>1 DEF DestroyBase
  <2>3. life'[o] = "destroyed" /\ \A p \in Object \ {o} : life'[p] = life[p]
    BY <1>0, <2>2 DEF GraphTypeOK
  <2>4. StageBar[o] = "live" /\ StageBar' = [StageBar EXCEPT ![o] = "dead"]
    <3>1. StageOf(o) = "live" /\ StageOf(o)' = "dead"
      BY <2>1, <2>3 DEF StageOf
    <3> QED  BY <2>3, <3>1, StageChanges
  <2>5. OwnBar' = OwnBar /\ \A x \in StrongHandle : OwnBar[x] # o
    BY <2>1, <2>2, OwnChanges DEF GraphInv, HandleInv
  <2>6. WatchBar[o] = NULL /\ WatchBar' = [WatchBar EXCEPT ![o] = o]
    <3>1. ptr[o] = o
      BY <2>1 DEF GraphInv, HandleInv
    <3>2. Seen(o) = NULL /\ Seen(o)' = o
      BY <2>1, <2>2, <2>3, <3>1 DEF Seen
    <3>3. \A w \in Watching \ {o} : Seen(w)' = Seen(w)
      BY <2>2, <2>3 DEF Seen
    <3> QED  BY <3>2, <3>3, WatchChanges
  <2> QED  BY <2>4, <2>5, <2>6, SharedSteps
<1>4. ASSUME ReleaseBase PROVE Shared_!SharedNext
  <2>1. PICK o \in Object : o = Top.obj /\ life[o] = "destroyed"
    BY <1>4, GotoFrame DEF ReleaseBase, At, FrameInv
  <2>2. ptr' = [ptr EXCEPT ![o] = NULL] /\ life' = life
    BY <1>4, <2>1 DEF ReleaseBase
  <2>3. /\ ptr'[o] = NULL /\ \A g \in (StrongHandle \cup Watching) \ {o} : ptr'[g] = ptr[g]
    BY <1>0, <2>2 DEF GraphTypeOK
  <2>4. Seen(o)' = NULL /\ \A v \in Watching \ {o} : Seen(v)' = Seen(v)
    BY <2>2, <2>3 DEF Seen
  <2>5. WatchBar' = [WatchBar EXCEPT ![o] = NULL] /\ OwnBar' = OwnBar
    BY <2>3, <2>4, WatchChanges, OwnChanges
  <2>6. StageBar' = StageBar
    BY <2>2 DEF StageBar, StageOf
  <2> QED  BY <2>5, <2>6, SharedSteps
<1>5. ASSUME FreeBlock PROVE Shared_!SharedNext
  <2>1. PICK o \in Object : o = Top.obj /\ life[o] = "destroyed" /\ \A w \in Watching : ptr[w] # o
    BY <1>5, GotoFrame DEF FreeBlock, At, FrameInv
  <2>2. life' = [life EXCEPT ![o] = "reclaimed"] /\ ptr' = ptr
    BY <1>5, <2>1 DEF FreeBlock
  <2>3. life'[o] = "reclaimed" /\ \A p \in Object \ {o} : life'[p] = life[p]
    BY <1>0, <2>2 DEF GraphTypeOK
  <2>4. StageBar[o] = "dead" /\ StageBar' = [StageBar EXCEPT ![o] = "reclaimed"]
    <3>1. StageOf(o) = "dead" /\ StageOf(o)' = "reclaimed"
      BY <2>1, <2>3 DEF StageOf
    <3> QED  BY <2>3, <3>1, StageChanges
  <2>5. OwnBar' = OwnBar
    BY <2>2, OwnChanges
  <2>6. WatchBar' = WatchBar /\ \A w \in Watching : WatchBar[w] # o
    <3>1. \A w \in Watching : Seen(w)' = Seen(w) /\ Seen(w) # o
      BY <2>1, <2>2, <2>3 DEF Seen
    <3> QED  BY <3>1 DEF WatchBar
  <2> QED  BY <2>4, <2>5, <2>6, SharedSteps
<1>6. ASSUME Take
      PROVE  Shared_!SharedNext \/ (OwnBar' = OwnBar /\ WatchBar' = WatchBar /\ StageBar' = StageBar)
  <2>1. stack # <<>> /\ Top.src # NULL /\ Top.dst \in StrongHandle /\ Top.src \in StrongHandle
        /\ life' = life
    BY <1>6, GotoFrame DEF Take, At, FrameInv, Frame
  <2>2. PICK x \in StrongHandle, y \in StrongHandle : x = Top.dst /\ y = Top.src
    BY <2>1
  <2>3. ptr[x] = NULL
    <3>1. Len(stack) \in 1..Len(stack)
      BY <2>1, PopElement DEF GraphInv, GraphTypeOK
    <3> QED  BY <2>1, <2>2, <3>1 DEF AssignInv, Top
  <2>4. CASE ptr' = ptr
    BY <2>1, <2>4, SeenSame, OwnChanges
  <2>5. CASE ptr' = [ptr EXCEPT ![x] = ptr[y], ![y] = NULL]
    <3>1. /\ ptr'[x] = ptr[y] /\ ptr'[y] = ptr[x]
          /\ \A g \in (StrongHandle \cup Watching) \ {x, y} : ptr'[g] = ptr[g]
      BY <1>0, <2>3, <2>5 DEF GraphTypeOK
    <3>2. OwnBar' = [OwnBar EXCEPT ![x] = OwnBar[y], ![y] = OwnBar[x]]
      BY <3>1, OwnChanges
    <3>3. \A g \in Watching : ptr'[g] = ptr[g]
      BY <3>1 DEF Watching
    <3> QED  BY <2>1, <3>2, <3>3, SeenSame, SharedSteps
  <2> QED  BY <1>6, <2>2, <2>4, <2>5 DEF Take
<1> QED  BY <1>1, <1>2, <1>3, <1>4, <1>5, <1>6 DEF Step

\* intrusive_ptr.h keeps its promise for handles that are members of targets, with
\* destructors that run inside others and call the program back, for any number.
THEOREM GraphImplementsSharing == GraphSpec => GraphIsSharedOwnership
<1>1. GraphInit => Shared_!SharedInit /\ AssignInv
  <2>1. ASSUME GraphInit PROVE AssignInv
    <3>1. Len(stack) = 0
      BY <2>1 DEF GraphInit
    <3> QED  BY <3>1 DEF AssignInv
  <2>2. ASSUME GraphInit PROVE Shared_!SharedInit
    <3>1. /\ \A h \in StrongHandle \cup Watching : ptr[h] = NULL
          /\ \A o \in Object : life[o] = "none"
      BY <2>2 DEF GraphInit
    <3> QED  BY <3>1 DEF Shared_!SharedInit, Watching
  <2> QED  BY <2>1, <2>2
<1>2. GraphInv /\ AssignInv /\ [GraphNext]_gvars => AssignInv'
  <2>1. UNCHANGED gvars /\ AssignInv => AssignInv'
    BY DEF gvars, AssignInv
  <2> QED  BY <2>1, OperationAssigns, StepAssigns DEF GraphNext
<1>3. GraphInv /\ AssignInv /\ [GraphNext]_gvars => [Shared_!SharedNext]_(Shared_!svars)
  <2>1. ASSUME UNCHANGED gvars
        PROVE  OwnBar' = OwnBar /\ WatchBar' = WatchBar /\ StageBar' = StageBar
    BY <2>1 DEF gvars, OwnBar, WatchBar, StageBar, Seen, StageOf
  <2>2. OwnBar' = OwnBar /\ WatchBar' = WatchBar /\ StageBar' = StageBar
        => UNCHANGED Shared_!svars
    BY DEF Shared_!svars, OwnBar, WatchBar, StageBar, Seen, StageOf
  <2> QED  BY <2>1, <2>2, OperationShares, StepShares DEF GraphNext
<1> QED
  BY GraphInvariant, <1>1, <1>2, <1>3, PTL DEF GraphSpec, GraphIsSharedOwnership, Shared_!SharedSpec

-----------------------------------------------------------------------------
(* Nothing but cycles leaks. *)

\* A call has started to destroy o, and has not done with its members.
Held(o) == \E i \in 1..Len(stack) : stack[i].obj = o /\ stack[i].pc \in Nesting

Made == {o \in Object : life[o] # "none"}

\* Whatever is alive is owned, and a member that owns is not gone.  No destruction is
\* forgotten, and waiting assignments use handles of targets that were made.
LeakInv ==
  /\ \A o \in Object : life[o] = "alive" => Owned(o)
  /\ \A h \in Object \X StrongField : ptr[h] # NULL => life[h[1]] \in {"alive", "destroying"}
  /\ \A o \in Object : life[o] = "destroying" => Held(o)
  /\ \A i \in 1..Len(stack) :
       \A h \in {stack[i].dst, stack[i].src} \ (StrongVar \cup {NULL}) : h[1] \in Made
  /\ IsFiniteSet(Made)

\* A call that begins leaves the others where they are.
LEMMA GrownStack ==
  ASSUME GraphInv, NEW s, Like(s), stack' = s \/ \E f \in Frame : stack' = Append(s, f)
  PROVE  /\ \A i \in 1..Len(stack) :
              /\ i \in 1..Len(stack') /\ stack'[i].obj = stack[i].obj /\ stack'[i].pc = stack[i].pc
              /\ stack'[i].dst = stack[i].dst /\ stack'[i].src = stack[i].src
         /\ \A f \in Frame : stack' = Append(s, f) =>
              Len(stack) + 1 \in 1..Len(stack') /\ stack'[Len(stack) + 1] = f
         /\ \A i \in 1..Len(stack') : i \notin 1..Len(stack) =>
              \E f \in Frame : stack' = Append(s, f) /\ stack'[i] = f
<1>1. Len(stack) \in Nat /\ Len(s) = Len(stack)
  BY LenProperties DEF GraphInv, GraphTypeOK, Like
<1>2. CASE stack' = s
  <2>1. \A f \in Frame : s # Append(s, f)
    <3>1. SUFFICES ASSUME NEW f \in Frame PROVE s # Append(s, f)
      OBVIOUS
    <3>2. Len(Append(s, f)) = Len(s) + 1
      BY PushElement DEF Like
    <3> QED  BY <1>1, <3>2
  <2> QED  BY <1>2, <2>1 DEF Like
<1>3. ASSUME NEW f \in Frame, stack' = Append(s, f)
      PROVE  /\ Len(stack') = Len(stack) + 1 /\ stack'[Len(stack) + 1] = f
             /\ \A i \in 1..Len(stack) : stack'[i] = s[i]
  BY <1>3, PushElement DEF Like
<1>4. ASSUME NEW f \in Frame, stack' = Append(s, f)
      PROVE  /\ \A i \in 1..Len(stack) : i \in 1..Len(stack') /\ stack'[i] = s[i]
             /\ Len(stack) + 1 \in 1..Len(stack')
             /\ \A i \in 1..Len(stack') : i \notin 1..Len(stack) => stack'[i] = f
  <2>1. \A i \in 1..Len(stack') : i \notin 1..Len(stack) => i = Len(stack) + 1
    BY <1>1, <1>3, <1>4
  <2> QED  BY <1>1, <1>3, <1>4, <2>1
<1> QED  BY <1>2, <1>3, <1>4 DEF Like

\* A call that goes on or returns leaves the others where they are.
LEMMA TopMoves ==
  ASSUME GraphInv, stack # <<>>,
         Return \/ \E pc \in {"members", "base", "free", "take"} : Goto(pc)
  PROVE  /\ \A i \in 1..Len(stack) : i # Len(stack) => i \in 1..Len(stack') /\ stack'[i] = stack[i]
         /\ \A i \in 1..Len(stack') :
              i \in 1..Len(stack) /\ stack'[i].dst = stack[i].dst /\ stack'[i].src = stack[i].src
         /\ Goto("members") =>
              /\ Len(stack) \in 1..Len(stack')
              /\ stack'[Len(stack)].obj = Top.obj /\ stack'[Len(stack)].pc = "members"
<1>1. Len(stack) \in 1..Len(stack) /\ stack \in Seq(Frame) /\ Len(stack) \in Nat
  BY PopElement, LenProperties DEF GraphInv, GraphTypeOK
<1>2. ASSUME NEW pc \in {"members", "base", "free", "take"}, Goto(pc)
      PROVE  /\ Len(stack') = Len(stack)
             /\ \A i \in 1..Len(stack) : i # Len(stack) => stack'[i] = stack[i]
             /\ stack'[Len(stack)].obj = Top.obj /\ stack'[Len(stack)].pc = pc
             /\ stack'[Len(stack)].dst = Top.dst /\ stack'[Len(stack)].src = Top.src
  <2>1. PICK f \in Frame : /\ stack' = [stack EXCEPT ![Len(stack)] = f]
                           /\ f.pc = pc /\ f.obj = Top.obj /\ f.src = Top.src /\ f.dst = Top.dst
    BY <1>2, GotoFrame
  <2> QED  BY <1>1, <2>1, ReplaceElement
<1>3. ASSUME Return
      PROVE  /\ Len(stack') = Len(stack) - 1
             /\ \A i \in 1..(Len(stack) - 1) : stack'[i] = stack[i]
  BY <1>1, <1>3, PopElement DEF Return
<1>4. ASSUME Return
      PROVE  /\ \A i \in 1..Len(stack) : i # Len(stack) => i \in 1..Len(stack') /\ stack'[i] = stack[i]
             /\ \A i \in 1..Len(stack') : i \in 1..Len(stack) /\ stack'[i] = stack[i]
  BY <1>1, <1>3, <1>4
<1>5. ASSUME Return PROVE ~Goto("members")
  BY <1>1, <1>2, <1>3, <1>5
<1> QED  BY <1>2, <1>4, <1>5 DEF Top

\* The targets of handles that the program can name are there.
LEMMA ScopeIsMade ==
  ASSUME GraphInv, NEW x \in StrongHandle \cap InScope, x \notin StrongVar
  PROVE  x[1] \in Object /\ life[x[1]] \in {"alive", "destroying"} /\ x[1] \in Made
<1>1. \A o \in Here : life[o] = "destroying"
  BY GotoFrame DEF Here, FrameInv, Nesting
<1>2. Roots \in SUBSET StrongHandle
  BY ScopeFacts DEF Roots, StrongHandle
<1>3. \A o \in Kept(Roots, NULL) : life[o] = "alive"
  BY <1>2, KeptAlive
<1>4. x \notin WeakVar
  BY GraphAssumption DEF Watching, WeakHandle
<1>5. x[1] \in Kept(Roots, NULL) \cup Here
  BY <1>4 DEF InScope
<1> QED  BY <1>1, <1>3, <1>5, FieldFacts DEF Made

\* A step that makes nothing and destroys nothing, in which calls may begin.
LEMMA LeakStays ==
  ASSUME GraphInv, LeakInv, NEW s, Like(s), life' = life,
         stack' = s \/ \E f \in Frame : stack' = Append(s, f)
                         /\ \A h \in {f.dst, f.src} \ (StrongVar \cup {NULL}) : h[1] \in Made,
         \A o \in Object : life[o] = "alive" => Owned(o)',
         \A h \in Object \X StrongField :
           ptr'[h] # NULL /\ ptr'[h] # ptr[h] => life[h[1]] \in {"alive", "destroying"}
  PROVE  LeakInv'
<1>0. \A i \in 1..Len(stack) :
        /\ i \in 1..Len(stack') /\ stack'[i].obj = stack[i].obj /\ stack'[i].pc = stack[i].pc
        /\ stack'[i].dst = stack[i].dst /\ stack'[i].src = stack[i].src
  <2>1. stack' = s \/ \E f \in Frame : stack' = Append(s, f)
    OBVIOUS
  <2> QED  BY <2>1, GrownStack
<1>1. ASSUME NEW o \in Object, life[o] = "destroying" PROVE Held(o)'
  <2>1. PICK i \in 1..Len(stack) : stack[i].obj = o /\ stack[i].pc \in Nesting
    BY <1>1 DEF LeakInv, Held
  <2> QED  BY <1>0, <2>1 DEF Held
<1>2. Made' = Made
  BY DEF Made
<1>3. \A i \in 1..Len(stack') :
        \A h \in {stack'[i].dst, stack'[i].src} \ (StrongVar \cup {NULL}) : h[1] \in Made
  <2>1. SUFFICES ASSUME NEW i \in 1..Len(stack'),
                        NEW h \in {stack'[i].dst, stack'[i].src} \ (StrongVar \cup {NULL})
                 PROVE  h[1] \in Made
    OBVIOUS
  <2>2. CASE i \in 1..Len(stack)
    <3>1. h \in {stack[i].dst, stack[i].src} \ (StrongVar \cup {NULL})
      BY <1>0, <2>1, <2>2
    <3> QED  BY <2>2, <3>1 DEF LeakInv
  <2>3. CASE i \notin 1..Len(stack)
    <3>1. PICK f \in Frame : stack' = Append(s, f) /\ stack'[i] = f
      BY <2>3, GrownStack
    <3>2. \A g \in Frame : stack' = Append(s, g) => g = f
      BY <3>1, GrownStack
    <3>3. stack' # s
      <4>1. Len(Append(s, f)) = Len(s) + 1 /\ Len(s) \in Nat
        BY PushElement, LenProperties DEF Like
      <4> QED  BY <3>1, <4>1
    <3> QED  BY <2>1, <3>1, <3>2, <3>3
  <2> QED  BY <2>2, <2>3
<1> QED  BY <1>1, <1>2, <1>3 DEF LeakInv

\* A step in which the destruction of one target begins, of which no handle is left.
LEMMA LeakBegins ==
  ASSUME GraphInv, LeakInv, NEW s, Like(s), NEW o \in Object, life[o] = "alive",
         life' = [life EXCEPT ![o] = "destroying"],
         NEW f \in Frame, stack' = Append(s, f), f.pc = "body", f.obj = o,
         \A h \in {f.dst, f.src} \ (StrongVar \cup {NULL}) : h[1] \in Made,
         \A p \in Object \ {o} : life[p] = "alive" => Owned(p)',
         \A h \in Object \X StrongField :
           ptr'[h] # NULL /\ ptr'[h] # ptr[h] => life[h[1]] \in {"alive", "destroying"}
  PROVE  LeakInv'
<1>0. /\ \A i \in 1..Len(stack) :
           /\ i \in 1..Len(stack') /\ stack'[i].obj = stack[i].obj /\ stack'[i].pc = stack[i].pc
           /\ stack'[i].dst = stack[i].dst /\ stack'[i].src = stack[i].src
      /\ Len(stack) + 1 \in 1..Len(stack') /\ stack'[Len(stack) + 1] = f
      /\ \A i \in 1..Len(stack') : i \notin 1..Len(stack) => stack'[i] = f
  <2>1. \A g \in Frame : stack' = Append(s, g) => g = f
    BY GrownStack
  <2> QED  BY <2>1, GrownStack
<1>1. life'[o] = "destroying" /\ \A p \in Object \ {o} : life'[p] = life[p]
  BY DEF GraphInv, GraphTypeOK
<1>2. \A p \in Object : life'[p] = "destroying" => Held(p)'
  <2>1. Held(o)'
    BY <1>0 DEF Held, Nesting
  <2>2. ASSUME NEW p \in Object, life[p] = "destroying" PROVE Held(p)'
    <3>1. PICK i \in 1..Len(stack) : stack[i].obj = p /\ stack[i].pc \in Nesting
      BY <2>2 DEF LeakInv, Held
    <3> QED  BY <1>0, <3>1 DEF Held
  <2> QED  BY <1>1, <2>1, <2>2
<1>3. Made' = Made
  BY <1>1 DEF Made
<1>4. \A i \in 1..Len(stack') :
        \A h \in {stack'[i].dst, stack'[i].src} \ (StrongVar \cup {NULL}) : h[1] \in Made
  <2>1. SUFFICES ASSUME NEW i \in 1..Len(stack'),
                        NEW h \in {stack'[i].dst, stack'[i].src} \ (StrongVar \cup {NULL})
                 PROVE  h[1] \in Made
    OBVIOUS
  <2>2. CASE i \in 1..Len(stack)
    <3>1. h \in {stack[i].dst, stack[i].src} \ (StrongVar \cup {NULL})
      BY <1>0, <2>1, <2>2
    <3> QED  BY <2>2, <3>1 DEF LeakInv
  <2>3. CASE i \notin 1..Len(stack)
    BY <1>0, <2>1, <2>3
  <2> QED  BY <2>2, <2>3
<1>5. \A h \in Object \X StrongField :
        ptr'[h] # NULL => h[1] \in Object /\ life'[h[1]] \in {"alive", "destroying"}
  BY <1>1 DEF LeakInv
<1>6. \A p \in Object : life'[p] = "alive" => Owned(p)'
  BY <1>1
<1> QED  BY <1>2, <1>3, <1>4, <1>5, <1>6 DEF LeakInv

\* A release leaves what others own alive, and begins a destruction otherwise.
LEMMA ReleaseLeaks ==
  ASSUME GraphInv, LeakInv, NEW h \in StrongHandle, NEW s, Like(s),
         NEW dst \in StrongHandle \cup {NULL}, NEW src \in StrongHandle \cup {NULL},
         \A g \in {dst, src} \ (StrongVar \cup {NULL}) : g[1] \in Made,
         NEW kept \in BOOLEAN, Release(h, s, dst, src, kept)
  PROVE  LeakInv'
<1> USE HandleFacts
<1>1. ptr' = [ptr EXCEPT ![h] = NULL] /\ GraphTypeOK
  BY DEF Release, GraphInv
<1>2. ptr'[h] = NULL /\ \A g \in (StrongHandle \cup Watching) \ {h} : ptr'[g] = ptr[g]
  BY <1>1, AssignHandle
<1>3. \A g \in Object \X StrongField : ptr'[g] # NULL => ptr'[g] = ptr[g]
  BY <1>2 DEF StrongHandle
<1>4. \A p \in Object : life[p] = "alive" /\ p # ptr[h] => Owned(p)'
  BY <1>2 DEF LeakInv, Owned
<1>5. PICK o \in Object \cup {NULL} : o = ptr[h]
  BY <1>1 DEF GraphTypeOK
<1>6. CASE o # NULL /\ LastStrong(h)
  <2>1. life' = [life EXCEPT ![o] = "destroying"] /\ life[o] = "alive" /\ o \in Object
    BY <1>5, <1>6 DEF Release, GraphInv, HandleInv
  <2>2. PICK f \in Frame : /\ f = NewFrame("body", o, dst, src, kept)
                           /\ f.pc = "body" /\ f.obj = o /\ f.dst = dst /\ f.src = src
    BY NewFrameTyped
  <2>3. stack' = Append(s, f)
    BY <1>5, <1>6, <2>2 DEF Release
  <2> QED  BY <1>3, <1>4, <1>5, <2>1, <2>2, <2>3, LeakBegins
<1>7. CASE ~(o # NULL /\ LastStrong(h))
  <2>1. life' = life
    BY <1>5, <1>7 DEF Release
  <2>2. PICK f \in Frame : /\ f = NewFrame("take", NULL, dst, src, kept)
                           /\ f.dst = dst /\ f.src = src
    BY NewFrameTyped
  <2>3. stack' = s \/ stack' = Append(s, f)
    BY <1>5, <1>7, <2>2 DEF Release
  <2>4. \A p \in Object : life[p] = "alive" => Owned(p)'
    <3>1. o # NULL => \E g \in StrongHandle \ {h} : ptr[g] = o
      BY <1>5, <1>7 DEF LastStrong
    <3>2. o # NULL => Owned(o)'
      BY <1>2, <3>1 DEF Owned
    <3> QED  BY <1>4, <1>5, <3>2
  <2>5. stack' = s \/ \E e \in Frame : stack' = Append(s, e)
                         /\ \A g \in {e.dst, e.src} \ (StrongVar \cup {NULL}) : g[1] \in Made
    BY <2>2, <2>3
  <2> QED  BY <1>3, <2>1, <2>4, <2>5, LeakStays
<1> QED  BY <1>6, <1>7

\* A weak release has no part in what is owned.
LEMMA ReleaseWeakLeaks ==
  ASSUME GraphInv, LeakInv, NEW h \in WeakHandle, NEW s, Like(s), ReleaseWeak(h, s)
  PROVE  LeakInv'
<1> USE HandleFacts
<1>1. /\ ptr' = [ptr EXCEPT ![h] = NULL] /\ GraphTypeOK /\ life' = life
      /\ ptr[h] \in Object \cup {NULL}
  BY DEF ReleaseWeak, GraphInv, GraphTypeOK
<1>2. \A g \in StrongHandle : ptr'[g] = ptr[g]
  BY <1>1, AssignHandle
<1> DEFINE f == NewFrame("free", ptr[h], NULL, NULL, FALSE)
<1>3. f \in Frame /\ f.dst = NULL /\ f.src = NULL
  BY <1>1 DEF NewFrame, Frame
<1>4. stack' = s \/ stack' = Append(s, f)
  BY DEF ReleaseWeak
<1> HIDE DEF f
<1>5. stack' = s \/ \E e \in Frame : stack' = Append(s, e)
                       /\ \A g \in {e.dst, e.src} \ (StrongVar \cup {NULL}) : g[1] \in Made
  BY <1>3, <1>4
<1>6. \A p \in Object : life[p] = "alive" => Owned(p)'
  BY <1>2 DEF LeakInv, Owned
<1> QED  BY <1>1, <1>2, <1>5, <1>6, LeakStays DEF StrongHandle

\* make_intrusive: one target more.
LEMMA MakeLeaks ==
  ASSUME GraphInv, LeakInv, NEW x \in StrongHandle \cap InScope, NEW o \in Object, Make(x, o)
  PROVE  LeakInv'
<1> USE HandleFacts
<1>1. /\ GraphTypeOK /\ life[o] = "none" /\ ptr[x] = NULL /\ stack' = Disturbed
      /\ ptr' = [ptr EXCEPT ![x] = o, ![o] = o] /\ life' = [life EXCEPT ![o] = "alive"]
  BY DEF Make, GraphInv
<1>2. /\ ptr'[x] = o /\ \A g \in StrongHandle \ {x} : ptr'[g] = ptr[g]
      /\ life'[o] = "alive" /\ \A p \in Object \ {o} : life'[p] = life[p]
  BY <1>1 DEF GraphTypeOK
<1>3. \A p \in Object : life'[p] = "alive" => Owned(p)'
  <2>1. \E h \in StrongHandle : ptr'[h] = o
    BY <1>2
  <2>2. ASSUME NEW p \in Object \ {o}, life'[p] = "alive"
        PROVE  \E h \in StrongHandle : ptr'[h] = p
    <3>1. PICK h \in StrongHandle : ptr[h] = p
      BY <1>2, <2>2 DEF LeakInv, Owned
    <3>2. h # x
      BY <1>1, <3>1
    <3> QED  BY <1>2, <3>1, <3>2
  <2> QED  BY <2>1, <2>2 DEF Owned
<1>4. \A h \in Object \X StrongField : ptr'[h] # NULL => life'[h[1]] \in {"alive", "destroying"}
  <2>1. SUFFICES ASSUME NEW h \in Object \X StrongField, ptr'[h] # NULL
                 PROVE  life'[h[1]] \in {"alive", "destroying"}
    OBVIOUS
  <2>2. CASE h = x
    <3>1. x \notin StrongVar /\ h[1] \in Object
      BY <2>1, <2>2, GraphAssumption
    <3> QED  BY <1>2, <2>2, <3>1, ScopeIsMade
  <2>3. CASE h # x
    <3>1. h[1] \in Object /\ ptr[h] # NULL
      BY <1>2, <2>1, <2>3 DEF StrongHandle
    <3> QED  BY <1>1, <1>2, <2>1, <3>1 DEF LeakInv
  <2> QED  BY <2>2, <2>3
<1>5. \A i \in 1..Len(stack) :
        i \in 1..Len(stack') /\ stack'[i].obj = stack[i].obj /\ stack'[i].pc = stack[i].pc
        /\ stack'[i].dst = stack[i].dst /\ stack'[i].src = stack[i].src
  BY <1>1, DisturbedLike DEF Like
<1>6. \A p \in Object : life'[p] = "destroying" => Held(p)'
  BY <1>2, <1>5 DEF LeakInv, Held
<1>7. Made' = Made \cup {o}
  BY <1>1, <1>2 DEF Made
<1>8. IsFiniteSet(Made')
  BY <1>7, FS_AddElement DEF LeakInv
<1>9. Len(stack') = Len(stack)
  BY <1>1, DisturbedLike DEF Like
<1> QED  BY <1>3, <1>4, <1>5, <1>6, <1>7, <1>8, <1>9 DEF LeakInv

\* The operations of the program.
LEMMA OperationLeaks ==
  ASSUME GraphInv, LeakInv, Operation
  PROVE  LeakInv'
<1> USE HandleFacts
<1>0. GraphTypeOK /\ Like(Disturbed)
  BY DisturbedLike DEF GraphInv
<1>1. ASSUME NEW x \in StrongHandle \cap InScope, NEW h \in Object \X StrongField, h = x
      PROVE  life[h[1]] \in {"alive", "destroying"}
  <2>1. x \notin StrongVar
    BY <1>1, GraphAssumption
  <2> QED  BY <1>1, <2>1, ScopeIsMade
<1>2. ASSUME life' = life, stack' = Disturbed,
             \A o \in Object : life[o] = "alive" => Owned(o)',
             NEW x \in StrongHandle \cap InScope, NEW y \in StrongHandle \cap InScope,
             \A g \in StrongHandle \ {x, y} : ptr'[g] = ptr[g]
      PROVE  LeakInv'
  <2>1. \A h \in Object \X StrongField :
          ptr'[h] # NULL /\ ptr'[h] # ptr[h] => life[h[1]] \in {"alive", "destroying"}
    BY <1>1, <1>2 DEF StrongHandle
  <2> QED  BY <1>0, <1>2, <2>1, LeakStays
<1>3. ASSUME NEW x \in StrongHandle \cap InScope, NEW y \in StrongHandle \cap InScope, Copy(x, y)
      PROVE  LeakInv'
  <2>1. /\ ptr' = [ptr EXCEPT ![x] = ptr[y]] /\ x # y
        /\ ptr[x] \in Object \cup {NULL} /\ ptr[y] \in Object \cup {NULL}
    BY <1>0, <1>3 DEF Copy, GraphTypeOK
  <2>2. /\ ptr'[x] = ptr[y] /\ ptr'[y] = ptr[y]
        /\ \A g \in (StrongHandle \cup Watching) \ {x} : ptr'[g] = ptr[g]
    BY <1>0, <2>1, AssignHandle
  <2>3. \A p \in Object : life[p] = "alive" /\ p # ptr[x] => Owned(p)'
    BY <2>2 DEF LeakInv, Owned
  <2>4. \A h \in Object \X StrongField :
          ptr'[h] # NULL /\ ptr'[h] # ptr[h] => life[h[1]] \in {"alive", "destroying"}
    BY <1>1, <2>2 DEF StrongHandle
  <2>5. PICK old \in Object \cup {NULL} : old = ptr[x]
    BY <2>1
  <2>6. CASE old # NULL /\ old # ptr[y] /\ LastStrong(x)
    <3>1. life' = [life EXCEPT ![old] = "destroying"] /\ life[old] = "alive" /\ old \in Object
      BY <1>3, <2>5, <2>6 DEF Copy, GraphInv, HandleInv
    <3> DEFINE f == NewFrame("body", old, NULL, NULL, FALSE)
    <3>2. f \in Frame /\ f.pc = "body" /\ f.obj = old /\ f.dst = NULL /\ f.src = NULL
      BY <3>1 DEF NewFrame, Frame
    <3>3. stack' = Append(Disturbed, f)
      BY <1>3, <2>5, <2>6 DEF Copy
    <3> HIDE DEF f
    <3> QED  BY <1>0, <2>3, <2>4, <2>5, <3>1, <3>2, <3>3, LeakBegins
  <2>7. CASE ~(old # NULL /\ old # ptr[y] /\ LastStrong(x))
    <3>1. life' = life /\ stack' = Disturbed
      BY <1>3, <2>5, <2>7 DEF Copy
    <3>2. old # NULL => Owned(old)'
      <4>1. CASE old = ptr[y]
        BY <2>2, <4>1 DEF Owned
      <4>2. CASE old # NULL /\ ~LastStrong(x)
        BY <2>2, <2>5, <4>2 DEF Owned, LastStrong
      <4> QED  BY <2>7, <4>1, <4>2
    <3> QED  BY <1>2, <2>2, <2>3, <2>5, <3>1, <3>2
  <2> QED  BY <2>6, <2>7
<1>4. ASSUME NEW x \in StrongHandle \cap InScope, NEW y \in StrongHandle \cap InScope, Swap(x, y)
      PROVE  LeakInv'
  <2>1. /\ ptr' = [ptr EXCEPT ![x] = ptr[y], ![y] = ptr[x]] /\ life' = life
        /\ stack' = Disturbed
    BY <1>4 DEF Swap
  <2>2. /\ ptr'[x] = ptr[y] /\ ptr'[y] = ptr[x]
        /\ \A g \in StrongHandle \ {x, y} : ptr'[g] = ptr[g]
    BY <1>0, <2>1 DEF GraphTypeOK
  <2>3. \A p \in Object : life[p] = "alive" => Owned(p)'
    BY <2>2 DEF LeakInv, Owned
  <2> QED  BY <1>2, <2>1, <2>2, <2>3
<1>5. ASSUME NEW x \in StrongHandle \cap InScope, NEW w \in WeakHandle, Lock(x, w)
      PROVE  LeakInv'
  <2>1. /\ ptr' = [ptr EXCEPT ![x] = ptr[w]] /\ life' = life /\ stack' = Disturbed
        /\ ptr[x] = NULL
    BY <1>5 DEF Lock
  <2>2. \A g \in StrongHandle \ {x} : ptr'[g] = ptr[g]
    BY <1>0, <2>1 DEF GraphTypeOK
  <2>3. \A p \in Object : life[p] = "alive" => Owned(p)'
    BY <2>1, <2>2 DEF LeakInv, Owned
  <2> QED  BY <1>2, <2>1, <2>2, <2>3
<1>6. ASSUME NEW w \in WeakHandle, NEW h \in InScope, Watch(w, h)
      PROVE  LeakInv'
  <2>1. ptr' = [ptr EXCEPT ![w] = ptr[h]] /\ life' = life /\ stack' = Disturbed
    BY <1>6 DEF Watch
  <2>2. \A g \in StrongHandle : ptr'[g] = ptr[g]
    BY <1>0, <2>1 DEF GraphTypeOK
  <2>3. \A p \in Object : life[p] = "alive" => Owned(p)'
    BY <2>2 DEF LeakInv, Owned
  <2> QED  BY <1>0, <2>1, <2>2, <2>3, LeakStays DEF StrongHandle
<1>7. ASSUME NEW x \in StrongHandle \cap InScope, NEW y \in StrongHandle \cap InScope,
             MoveAssign(x, y)
      PROVE  LeakInv'
  <2>1. PICK kept \in BOOLEAN : Release(x, Disturbed, x, y, kept)
    BY <1>7 DEF MoveAssign, Survives
  <2>2. \A g \in {x, y} \ (StrongVar \cup {NULL}) : g[1] \in Made
    BY ScopeIsMade
  <2> QED  BY <1>0, <2>1, <2>2, ReleaseLeaks
<1>8. ASSUME NEW x \in StrongHandle, Reset(x) PROVE LeakInv'
  <2>1. PICK kept \in BOOLEAN : Release(x, Disturbed, NULL, NULL, kept)
    BY <1>8 DEF Reset
  <2> QED  BY <1>0, <2>1, ReleaseLeaks
<1>9. ASSUME NEW w \in WeakHandle, WeakReset(w) PROVE LeakInv'
  BY <1>0, <1>9, ReleaseWeakLeaks DEF WeakReset
<1> QED
  BY <1>3, <1>4, <1>5, <1>6, <1>7, <1>8, <1>9, MakeLeaks DEF Operation

\* The latest call goes on or returns.  What it ends is not destroying any more, and the
\* handles change in the ways of a member function's end.
LEMMA TopLeaks ==
  ASSUME GraphInv, LeakInv, stack # <<>>,
         Return \/ \E pc \in {"members", "base", "free", "take"} : Goto(pc),
         \A o \in Object : \/ life'[o] = life[o]
                           \/ o = Top.obj /\ life[o] # "none" /\ life'[o] \in {"destroyed", "reclaimed"},
         Top.pc \in Nesting => Goto("members") \/ life'[Top.obj] # "destroying",
         \A o \in Object : life'[o] = "alive" => Owned(o)',
         \A h \in Object \X StrongField : ptr'[h] # NULL => life'[h[1]] \in {"alive", "destroying"}
  PROVE  LeakInv'
<1>1. Made' = Made
  BY DEF Made
<1>2. ASSUME NEW o \in Object, life'[o] = "destroying" PROVE Held(o)'
  <2>1. life[o] = "destroying"
    BY <1>2
  <2>2. PICK i \in 1..Len(stack) : stack[i].obj = o /\ stack[i].pc \in Nesting
    BY <2>1 DEF LeakInv, Held
  <2>3. CASE i # Len(stack)
    BY <2>2, <2>3, TopMoves DEF Held
  <2>4. CASE i = Len(stack)
    <3>1. Goto("members")
      BY <1>2, <2>2, <2>4 DEF Top
    <3> QED  BY <2>2, <2>4, <3>1, TopMoves DEF Held, Top, Nesting
  <2> QED  BY <2>3, <2>4
<1>3. \A i \in 1..Len(stack') :
        \A h \in {stack'[i].dst, stack'[i].src} \ (StrongVar \cup {NULL}) : h[1] \in Made
  BY TopMoves DEF LeakInv
<1> QED  BY <1>1, <1>2, <1>3 DEF LeakInv

\* How destructions and assignments go on.
LEMMA StepLeaks ==
  ASSUME GraphInv, AssignInv, LeakInv, Step
  PROVE  LeakInv'
<1> USE HandleFacts
<1>0. GraphTypeOK /\ Like(stack)
  BY DisturbedLike DEF GraphInv
<1>1. ASSUME NEW h \in (Object \X StrongField) \cup (Object \X WeakField), DestroyMember(h)
      PROVE  LeakInv'
  <2>1. CASE h \in StrongHandle
    <3>1. PICK kept \in BOOLEAN : Release(h, stack, NULL, NULL, kept)
      BY <1>1, <2>1 DEF DestroyMember
    <3> QED  BY <1>0, <2>1, <3>1, ReleaseLeaks
  <2>2. CASE h \notin StrongHandle
    BY <1>0, <1>1, <2>2, ReleaseWeakLeaks DEF DestroyMember, StrongHandle, WeakHandle
  <2> QED  BY <2>1, <2>2
<1>2. ASSUME BodyReturns PROVE LeakInv'
  <2>1. stack # <<>> /\ Goto("members") /\ ptr' = ptr /\ life' = life
    BY <1>2 DEF BodyReturns, At
  <2>2. \A o \in Object : life'[o] = "alive" => Owned(o)'
    BY <2>1 DEF LeakInv, Owned
  <2> QED  BY <2>1, <2>2, TopLeaks DEF LeakInv
<1>3. ASSUME DestroyBase PROVE LeakInv'
  <2>1. PICK o \in Object : o = Top.obj /\ life[o] = "destroying"
    BY <1>3, GotoFrame DEF DestroyBase, At, FrameInv, Nesting
  <2>2. /\ life' = [life EXCEPT ![o] = "destroyed"] /\ ptr' = ptr /\ stack # <<>>
        /\ Goto("base") /\ MembersGone(o)
    BY <1>3, <2>1 DEF DestroyBase, At
  <2>3. life'[o] = "destroyed" /\ \A p \in Object \ {o} : life'[p] = life[p]
    BY <1>0, <2>2 DEF GraphTypeOK
  <2>4. \A p \in Object : life'[p] = "alive" => Owned(p)'
    BY <2>2, <2>3 DEF LeakInv, Owned
  <2>5. \A h \in Object \X StrongField : ptr'[h] # NULL => life'[h[1]] \in {"alive", "destroying"}
    <3>1. SUFFICES ASSUME NEW h \in Object \X StrongField, ptr[h] # NULL
                   PROVE  life'[h[1]] \in {"alive", "destroying"}
      BY <2>2
    <3>2. h[1] \in Object /\ h[1] # o
      BY <2>2, <3>1 DEF MembersGone
    <3> QED  BY <2>3, <3>1, <3>2 DEF LeakInv
  <2> QED  BY <2>1, <2>2, <2>3, <2>4, <2>5, TopLeaks
<1>4. ASSUME ReleaseBase \/ FreeBlock PROVE LeakInv'
  <2>1. PICK o \in Object : o = Top.obj /\ life[o] = "destroyed"
    BY <1>4, GotoFrame DEF ReleaseBase, FreeBlock, At, FrameInv
  <2>2. stack # <<>> /\ Top.pc \notin Nesting
        /\ (Return \/ \E pc \in {"members", "base", "free", "take"} : Goto(pc))
    BY <1>4 DEF ReleaseBase, FreeBlock, At, Done, Nesting
  <2>3. \A p \in Object : \/ life'[p] = life[p]
                          \/ p = Top.obj /\ life[p] # "none" /\ life'[p] \in {"destroyed", "reclaimed"}
    BY <1>0, <1>4, <2>1 DEF ReleaseBase, FreeBlock, GraphTypeOK
  <2>4. \A h \in StrongHandle : ptr'[h] = ptr[h]
    BY <1>0, <1>4, <2>1 DEF ReleaseBase, FreeBlock, GraphTypeOK
  <2>5. \A p \in Object : life'[p] = "alive" => Owned(p)'
    BY <2>3, <2>4 DEF LeakInv, Owned
  <2>6. \A h \in Object \X StrongField : ptr'[h] # NULL => life'[h[1]] \in {"alive", "destroying"}
    <3>1. SUFFICES ASSUME NEW h \in Object \X StrongField, ptr'[h] # NULL
                   PROVE  life'[h[1]] \in {"alive", "destroying"}
      OBVIOUS
    <3>2. h[1] \in Object /\ ptr[h] # NULL
      BY <2>4, <3>1 DEF StrongHandle
    <3>3. life[h[1]] \in {"alive", "destroying"}
      BY <3>1, <3>2 DEF LeakInv
    <3> QED  BY <2>1, <2>3, <3>2, <3>3
  <2> QED  BY <2>2, <2>3, <2>5, <2>6, TopLeaks
<1>5. ASSUME Take PROVE LeakInv'
  <2>1. /\ stack # <<>> /\ Top.src # NULL /\ Top.dst \in StrongHandle /\ Top.src \in StrongHandle
        /\ life' = life /\ Return /\ Top.pc \notin Nesting
    BY <1>5, GotoFrame DEF Take, At, FrameInv, Frame, Nesting
  <2>2. PICK x \in StrongHandle, y \in StrongHandle : x = Top.dst /\ y = Top.src
    BY <2>1
  <2>3. Len(stack) \in 1..Len(stack)
    BY <2>1, PopElement DEF GraphInv, GraphTypeOK
  <2>4. ptr[x] = NULL
    BY <2>1, <2>2, <2>3 DEF AssignInv, Top
  <2>5. CASE ptr' = ptr
    <3>1. \A p \in Object : life'[p] = "alive" => Owned(p)'
      BY <2>1, <2>5 DEF LeakInv, Owned
    <3> QED  BY <2>1, <2>5, <3>1, TopLeaks DEF LeakInv
  <2>6. CASE ptr' # ptr
    <3>1. ptr' = [ptr EXCEPT ![x] = ptr[y], ![y] = NULL] /\ ~Gone(x)
      BY <1>5, <2>2, <2>6 DEF Take
    <3>2. /\ ptr'[x] = ptr[y] /\ ptr'[y] = ptr[x]
          /\ \A g \in StrongHandle \ {x, y} : ptr'[g] = ptr[g]
      BY <1>0, <2>4, <3>1 DEF GraphTypeOK
    <3>3. \A p \in Object : life'[p] = "alive" => Owned(p)'
      BY <2>1, <3>2 DEF LeakInv, Owned
    <3>4. \A h \in Object \X StrongField : ptr'[h] # NULL => life'[h[1]] \in {"alive", "destroying"}
      <4>1. SUFFICES ASSUME NEW h \in Object \X StrongField, ptr'[h] # NULL
                     PROVE  life[h[1]] \in {"alive", "destroying"}
        BY <2>1
      <4>2. CASE h = x
        <5>1. x \notin StrongVar /\ x # NULL /\ h[1] \in Object
          BY <4>1, <4>2, GraphAssumption
        <5>2. h[1] \in Made
          BY <2>2, <2>3, <4>2, <5>1 DEF LeakInv, Top
        <5> QED  BY <1>0, <3>1, <4>2, <5>1, <5>2 DEF Gone, Made, GraphTypeOK, Life
      <4>3. CASE h # x
        <5>1. ptr[h] # NULL
          BY <2>4, <3>2, <4>1, <4>3 DEF StrongHandle
        <5> QED  BY <5>1 DEF LeakInv
      <4> QED  BY <4>2, <4>3
    <3> QED  BY <2>1, <3>3, <3>4, TopLeaks
  <2> QED  BY <2>5, <2>6
<1> QED  BY <1>1, <1>2, <1>3, <1>4, <1>5 DEF Step

\* When every call has returned, what is alive and out of the program's reach is owned
\* by a member of something that is out of its reach as well.
LEMMA LostOwner ==
  ASSUME GraphInv, LeakInv, stack = <<>>,
         NEW o \in Object, life[o] = "alive", o \notin Kept(StrongVar, NULL)
  PROVE  \E q \in Object : /\ life[q] = "alive" /\ q \notin Kept(StrongVar, NULL)
                           /\ o \in Kept(Fields(q), NULL)
<1>1. GraphTypeOK /\ StrongVar \in SUBSET StrongHandle /\ o # NULL
  BY HandleFacts DEF GraphInv, StrongHandle
<1>2. PICK h \in StrongHandle : ptr[h] = o
  BY DEF LeakInv, Owned
<1>3. h \notin StrongVar
  BY <1>1, <1>2, KeptClosed
<1>4. PICK q \in Object : h \in Fields(q) /\ q = h[1] /\ h \in Object \X StrongField
  BY <1>3, FieldFacts DEF StrongHandle
<1>5. \A p \in Object : ~Held(p)
  <2>1. Len(stack) = 0
    OBVIOUS
  <2> QED  BY <2>1 DEF Held
<1>6. life[q] = "alive"
  BY <1>1, <1>2, <1>4, <1>5 DEF LeakInv
<1>7. q \notin Kept(StrongVar, NULL)
  BY <1>1, <1>2, <1>4, KeptClosed
<1>8. o \in Kept(Fields(q), NULL)
  BY <1>1, <1>2, <1>4, KeptClosed, FieldFacts
<1> QED  BY <1>6, <1>7, <1>8

\* Going from owner to owner never ends, and there are finitely many targets: a cycle.
\* Of the owners of o, the one with the fewest owners of its own is on one.
LEMMA LostCycle ==
  ASSUME GraphInv, LeakInv, stack = <<>>,
         NEW o \in Object, life[o] = "alive", o \notin Kept(StrongVar, NULL)
  PROVE  \E p \in Object : OnCycle(p) /\ (o = p \/ o \in Kept(Fields(p), NULL))
<1> DEFINE E(p) == Kept(Fields(p), NULL)
           A == {p \in Object : /\ life[p] = "alive" /\ p \notin Kept(StrongVar, NULL)
                                /\ (p = o \/ o \in E(p))}
           Above(p) == {q \in A : p \in E(q)}
           Few == {Cardinality(Above(p)) : p \in A}
<1>1. \A p, q \in Object : p \in E(q) => E(p) \subseteq E(q)
  <2>1. SUFFICES ASSUME NEW p \in Object, NEW q \in Object, p \in E(q) PROVE E(p) \subseteq E(q)
    OBVIOUS
  <2>2. Fields(q) \in SUBSET StrongHandle
    BY FieldFacts
  <2> QED  BY <2>1, <2>2, KeptThrough DEF GraphInv
<1>2. \A p \in A : \E q \in A : p \in E(q)
  <2>1. SUFFICES ASSUME NEW p \in A PROVE \E q \in A : p \in E(q)
    OBVIOUS
  <2>2. PICK q \in Object : life[q] = "alive" /\ q \notin Kept(StrongVar, NULL) /\ p \in E(q)
    BY LostOwner
  <2>3. o \in E(q)
    BY <1>1, <2>2
  <2> QED  BY <2>2, <2>3
<1>3. IsFiniteSet(A)
  <2>1. A \in SUBSET Made
    BY DEF Made
  <2> QED  BY <2>1, FS_Subset DEF LeakInv
<1>4. \A p \in A : IsFiniteSet(Above(p)) /\ Cardinality(Above(p)) \in Nat
  <2>1. \A p \in A : Above(p) \in SUBSET A
    OBVIOUS
  <2> HIDE DEF A, Above
  <2> QED  BY <1>3, <2>1, FS_Subset, FS_CardinalityType
<1>5. PICK p \in A : \A q \in A : Cardinality(Above(p)) <= Cardinality(Above(q))
  <2>1. Few \subseteq Nat /\ Few # {}
    <3>1. o \in A
      OBVIOUS
    <3> QED  BY <1>4, <3>1
  <2> HIDE DEF Few
  <2>2. PICK m \in Few : \A k \in Few : m <= k
    BY <2>1, LeastElement
  <2> HIDE DEF A, Above
  <2>3. PICK p \in A : Cardinality(Above(p)) = m
    BY <2>2 DEF Few
  <2> QED  BY <2>2, <2>3 DEF Few
<1>6. PICK q \in A : p \in E(q)
  BY <1>2
<1>7. Above(q) \in SUBSET Above(p)
  BY <1>1, <1>6
<1>8. q \in Above(p)
  BY <1>6
<1>9. Above(q) = Above(p)
  <2> HIDE DEF A, Above
  <2>1. /\ Cardinality(Above(q)) \in Nat /\ Cardinality(Above(p)) \in Nat
        /\ IsFiniteSet(Above(p)) /\ Cardinality(Above(p)) <= Cardinality(Above(q))
    BY <1>4, <1>5
  <2>2. /\ Cardinality(Above(q)) <= Cardinality(Above(p))
        /\ Cardinality(Above(p)) = Cardinality(Above(q)) => Above(p) = Above(q)
    BY <1>7, <2>1, FS_Subset
  <2> QED  BY <2>1, <2>2
<1> QED  BY <1>8, <1>9 DEF OnCycle

\* What the program has let go of is destroyed when the calls have returned, unless it
\* owns itself in a cycle or hangs on one that does: for any number of targets, and
\* destructors that run inside others and call the program back.
THEOREM LeaksAreCycles == GraphSpec => []OnlyCyclesLeak
<1>1. GraphInit => AssignInv /\ LeakInv
  <2>1. SUFFICES ASSUME GraphInit PROVE AssignInv /\ LeakInv
    OBVIOUS
  <2>2. /\ Len(stack) = 0 /\ (\A o \in Object : life[o] = "none")
        /\ \A h \in StrongHandle : ptr[h] = NULL
    BY <2>1 DEF GraphInit
  <2>3. IsFiniteSet(Made)
    <3>1. Made = {}
      BY <2>2 DEF Made
    <3> QED  BY <3>1, FS_EmptySet
  <2> QED  BY <2>2, <2>3 DEF AssignInv, LeakInv, StrongHandle
<1>2. GraphInv /\ AssignInv /\ LeakInv /\ [GraphNext]_gvars => AssignInv' /\ LeakInv'
  <2>1. UNCHANGED gvars /\ AssignInv /\ LeakInv => AssignInv' /\ LeakInv'
    BY DEF gvars, AssignInv, LeakInv, Made, Held, Owned
  <2> QED  BY <2>1, OperationAssigns, StepAssigns, OperationLeaks, StepLeaks DEF GraphNext
<1>3. GraphInv /\ LeakInv => OnlyCyclesLeak
  <2>1. SUFFICES ASSUME GraphInv, LeakInv, stack = <<>>, NEW o \in Object,
                        life[o] \in {"alive", "destroying"}, o \notin Kept(StrongVar, NULL)
                 PROVE  \E p \in Object : OnCycle(p) /\ (o = p \/ o \in Kept(Fields(p), NULL))
    BY DEF OnlyCyclesLeak
  <2>2. life[o] = "alive"
    <3>1. Len(stack) = 0
      BY <2>1
    <3> QED  BY <2>1, <3>1 DEF LeakInv, Held
  <2> QED  BY <2>1, <2>2, LostCycle
<1> QED  BY GraphInvariant, <1>1, <1>2, <1>3, PTL DEF GraphSpec
=============================================================================
