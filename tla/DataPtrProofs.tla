---------------------------- MODULE DataPtrProofs ----------------------------
(***************************************************************************)
(* Proofs about DataPtr, for any handles, pieces of memory and nesting of  *)
(* deleters.  What makes the properties inductive is that the handles of a *)
(* call that waits for its deleter belong to that call alone and stay what *)
(* they were when it began.                                                *)
(***************************************************************************)
EXTENDS CpuAllocator, SequenceTheorems, Induction

\* What a waiting call has given to its deleter is still what its handle has.
Waiting(f) ==
  /\ f.src # f.dst
  /\ f.data = ptr[f.dst].data /\ f.context = ptr[f.dst].context
  /\ f.deleter = ptr[f.dst].deleter
  /\ deletions[f.data] = IF f.done THEN 1 ELSE 0

Disjoint(f, g) == {f.dst, f.src} \cap ({g.dst, g.src} \ {NULL}) = {}

StackInv ==
  /\ \A i \in 1..Len(stack) : Waiting(stack[i])
  /\ \A i, j \in 1..Len(stack) : i # j => Disjoint(stack[i], stack[j])

\* A handle has what its memory was made with, and no other handle has the same.
Holds(x) ==
  IF ptr[x].data = NULL THEN ptr[x] = Empty
  ELSE /\ ptr[x] = made[ptr[x].data]
       /\ \A y \in Handle \ {x} : ptr[y].data # ptr[x].data

MemoryInv ==
  /\ \A b \in Block : made[b] = Empty \/ made[b].data = b
  /\ \A b \in Block : made[b] = Empty => deletions[b] = 0
  /\ \A x \in Handle : Holds(x)
  /\ \A x \in Handle : ptr[x].data # NULL /\ deletions[ptr[x].data] > 0 => Stale(x)

DataInv == TypeOK /\ StackInv /\ MemoryInv /\ NoLeak

-----------------------------------------------------------------------------
(* The stack of calls. *)

\* Adding, removing and replacing the last element of a sequence.
LEMMA PushElement ==
  ASSUME NEW S, NEW s \in Seq(S), NEW e \in S
  PROVE  /\ Append(s, e) \in Seq(S) /\ Len(Append(s, e)) = Len(s) + 1
         /\ \A i \in 1..Len(s) : Append(s, e)[i] = s[i]
         /\ Append(s, e)[Len(s) + 1] = e
BY AppendProperties

LEMMA PopElement ==
  ASSUME NEW S, NEW s \in Seq(S), s # <<>>
  PROVE  /\ SubSeq(s, 1, Len(s) - 1) \in Seq(S)
         /\ Len(SubSeq(s, 1, Len(s) - 1)) = Len(s) - 1
         /\ \A i \in 1..(Len(s) - 1) : SubSeq(s, 1, Len(s) - 1)[i] = s[i]
         /\ Len(s) \in 1..Len(s) /\ s[Len(s)] \in S
<1>1. Len(s) \in 1..Len(s)
  BY EmptySeq, LenProperties
<1> DEFINE n == Len(s) - 1
<1>2. n \in Int /\ n \in Nat
  BY <1>1
<1>3. \A i \in 1..n : s[i] \in S
  BY <1>1, ElementOfSeq
<1>4. /\ SubSeq(s, 1, n) \in Seq(S)
      /\ Len(SubSeq(s, 1, n)) = IF 1 <= n THEN n - 1 + 1 ELSE 0
      /\ \A i \in 1..(n - 1 + 1) : SubSeq(s, 1, n)[i] = s[1 + i - 1]
  <2> HIDE DEF n
  <2> QED  BY <1>2, <1>3, SubSeqProperties
<1>5. Len(SubSeq(s, 1, n)) = n /\ \A i \in 1..n : SubSeq(s, 1, n)[i] = s[i]
  <2> HIDE DEF n
  <2> QED  BY <1>2, <1>4
<1> QED  BY <1>1, <1>4, <1>5, ElementOfSeq

LEMMA ReplaceElement ==
  ASSUME NEW S, NEW s \in Seq(S), s # <<>>, NEW e \in S
  PROVE  /\ [s EXCEPT ![Len(s)] = e] \in Seq(S)
         /\ Len([s EXCEPT ![Len(s)] = e]) = Len(s)
         /\ \A i \in 1..Len(s) : [s EXCEPT ![Len(s)] = e][i] = IF i = Len(s) THEN e ELSE s[i]
BY PopElement, ExceptSeq

\* A call is marked when its deleter has freed the memory.
LEMMA MarkedFrame ==
  ASSUME NEW f \in Frame
  PROVE  /\ [f EXCEPT !.done = TRUE] \in Frame
         /\ [f EXCEPT !.done = TRUE].done
         /\ [f EXCEPT !.done = TRUE].dst = f.dst
         /\ [f EXCEPT !.done = TRUE].src = f.src
         /\ [f EXCEPT !.done = TRUE].data = f.data
         /\ [f EXCEPT !.done = TRUE].context = f.context
         /\ [f EXCEPT !.done = TRUE].deleter = f.deleter
BY DEF Frame

-----------------------------------------------------------------------------
(* The operations. *)

\* An empty DataPtr is a value like others.
LEMMA EmptyValue == Empty \in Value /\ Empty.data = NULL /\ Empty.deleter = NULL
BY DataPtrAssumption DEF Empty, Value

\* The frames are those of calls: their handles and memory exist.
LEMMA FrameTyped ==
  ASSUME TypeOK, NEW i \in 1..Len(stack)
  PROVE  /\ stack[i] \in Frame
         /\ stack[i].dst \in Handle /\ stack[i].data \in Block /\ stack[i].data # NULL
<1>1. stack[i] \in Frame
  BY ElementOfSeq DEF TypeOK
<1> QED  BY <1>1, DataPtrAssumption DEF Frame

\* A constructed handle is the only one that refers to its memory.
LEMMA ConstructStep ==
  ASSUME DataInv, NEW x \in Handle, NEW b \in Block, NEW value \in Value, value.data = b,
         Construct(x, b, value)
  PROVE  DataInv'
<1> USE DEF Construct, DataInv
<1>1. TypeOK'
  BY DEF TypeOK
<1>2. b # NULL /\ ptr'[x] = value /\ made'[b] = value
  BY DataPtrAssumption DEF TypeOK
<1>3. \A y \in Handle \ {x} : ptr'[y] = ptr[y]
  BY DEF TypeOK
<1>4. \A c \in Block \ {b} : made'[c] = made[c]
  BY DEF TypeOK
<1>5. \A y \in Handle : ptr[y].data # b
  BY <1>2, EmptyValue DEF MemoryInv, Holds, Unused
<1>6. StackInv'
  <2>1. ASSUME NEW i \in 1..Len(stack) PROVE Waiting(stack[i])'
    <3>1. stack[i].dst \in Handle /\ stack[i].dst # x
      BY FrameTyped DEF Free
    <3> QED  BY <1>3, <3>1 DEF StackInv, Waiting
  <2> QED  BY <2>1 DEF StackInv, Disjoint
<1>7. MemoryInv'
  <2>1. \A c \in Block : made'[c] = Empty \/ made'[c].data = c
    BY <1>2, <1>4 DEF MemoryInv
  <2>2. \A c \in Block : made'[c] = Empty => deletions'[c] = 0
    BY <1>2, <1>4, EmptyValue DEF MemoryInv
  <2>3. Holds(x)'
    BY <1>2, <1>3, <1>5 DEF Holds
  <2>4. ASSUME NEW y \in Handle \ {x} PROVE Holds(y)'
    <3>1. ptr'[y] = ptr[y] /\ Holds(y)
      BY <1>3 DEF MemoryInv
    <3>2. ptr[y].data \in Block \cup {NULL}
      BY DEF TypeOK, Value
    <3> QED  BY <1>2, <1>3, <1>4, <1>5, <3>1, <3>2 DEF Holds
  <2>5. ASSUME NEW y \in Handle, ptr'[y].data # NULL, deletions'[ptr'[y].data] > 0
        PROVE  Stale(y)'
    <3>1. CASE y = x
      BY <1>2, <2>5, <3>1, EmptyValue DEF MemoryInv, Unused
    <3>2. CASE y # x
      BY <1>3, <2>5, <3>2 DEF MemoryInv, Stale
    <3> QED  BY <3>1, <3>2
  <2> QED  BY <2>1, <2>2, <2>3, <2>4, <2>5 DEF MemoryInv
<1>8. NoLeak'
  <2>1. ASSUME NEW c \in Block, made'[c].deleter # NULL, deletions'[c] = 0
        PROVE  \E y \in Handle : ptr'[y].data = c
    <3>1. CASE c = b
      BY <1>2, <3>1
    <3>2. CASE c # b
      <4>1. PICK y \in Handle : ptr[y].data = c
        BY <1>4, <2>1, <3>2 DEF NoLeak
      <4>2. y # x
        BY <4>1, EmptyValue, DataPtrAssumption
      <4> QED  BY <1>3, <4>1, <4>2
    <3> QED  BY <3>1, <3>2
  <2> QED  BY <2>1 DEF NoLeak
<1> QED  BY <1>1, <1>6, <1>7, <1>8

\* Two handles that no call waits for exchange what they have.
LEMMA SwapStep ==
  ASSUME DataInv, NEW x \in Handle, NEW y \in Handle, Free(x), Free(y),
         ptr' \in [Handle -> Value], ptr'[x] = ptr[y], ptr'[y] = ptr[x],
         \A h \in Handle \ {x, y} : ptr'[h] = ptr[h],
         made' = made, deletions' = deletions, stack' = stack
  PROVE  DataInv'
<1> USE DEF DataInv
<1>1. TypeOK'
  BY DEF TypeOK
<1>2. StackInv'
  <2>1. ASSUME NEW i \in 1..Len(stack) PROVE Waiting(stack[i])'
    <3>1. stack[i].dst \in Handle \ {x, y}
      BY FrameTyped DEF Free
    <3>2. ptr'[stack[i].dst] = ptr[stack[i].dst] /\ Waiting(stack[i])
      BY <3>1 DEF StackInv
    <3> QED  BY <3>2 DEF Waiting
  <2> QED  BY <2>1 DEF StackInv, Disjoint
<1>3. ~Stale(x) /\ ~Stale(y)
  BY DEF Free, Stale
<1>4. MemoryInv'
  <2>1. ASSUME NEW h \in Handle PROVE Holds(h)'
    <3>1. Holds(x) /\ Holds(y) /\ Holds(h)
      BY DEF MemoryInv
    <3>2. CASE h \in {x, y}
      BY <3>1, <3>2 DEF Holds
    <3>3. CASE h \notin {x, y}
      <4>1. ptr'[h] = ptr[h]
        BY <3>3
      <4>2. \A g \in Handle \ {h} : ptr[h].data # NULL => ptr'[g].data # ptr[h].data
        BY <3>1, <3>3 DEF Holds
      <4> QED  BY <3>1, <4>1, <4>2 DEF Holds
    <3> QED  BY <3>2, <3>3
  <2>2. ASSUME NEW h \in Handle, ptr'[h].data # NULL, deletions'[ptr'[h].data] > 0
        PROVE  Stale(h)'
    <3>1. h \notin {x, y}
      BY <1>3, <2>2 DEF MemoryInv
    <3> QED  BY <2>2, <3>1 DEF MemoryInv, Stale
  <2> QED  BY <2>1, <2>2 DEF MemoryInv
<1>5. NoLeak'
  BY DEF NoLeak
<1> QED  BY <1>1, <1>2, <1>4, <1>5

\* A handle whose memory is gone, or needs no deleter, is cleared or assigned to.
LEMMA ClearStep ==
  ASSUME DataInv, NEW x \in Handle, NEW y \in Handle \cup {NULL}, x # y,
         ptr[x].data = NULL \/ ptr[x].deleter = NULL \/ deletions[ptr[x].data] = 1,
         ptr' = Clear(x, y), made' = made, deletions' = deletions,
         stack' \in Seq(Frame),
         \A i \in 1..Len(stack') : /\ i \in 1..Len(stack) /\ stack'[i] = stack[i]
                                   /\ stack[i].dst # x /\ stack[i].dst # y,
         \A h \in Handle \ {x} : Stale(h) => Stale(h)',
         y # NULL => ~Stale(y)
  PROVE  DataInv'
<1> USE DEF DataInv
<1>1. /\ ptr' \in [Handle -> Value]
      /\ ptr'[x] = IF y = NULL THEN Empty ELSE ptr[y]
      /\ y # NULL => ptr'[y] = Empty
      /\ \A h \in Handle \ {x, y} : ptr'[h] = ptr[h]
  <2>1. ptr \in [Handle -> Value] /\ Empty \in Value /\ NULL \notin Handle
    BY EmptyValue, DataPtrAssumption DEF TypeOK
  <2>2. CASE y = NULL
    <3>1. ptr' = [ptr EXCEPT ![x] = Empty]
      BY <2>2 DEF Clear
    <3> QED  BY <2>1, <2>2, <3>1
  <2>3. CASE y # NULL
    <3>1. ptr' = [ptr EXCEPT ![x] = ptr[y], ![y] = Empty]
      BY <2>3 DEF Clear
    <3> QED  BY <2>1, <2>3, <3>1
  <2> QED  BY <2>2, <2>3
<1>2. TypeOK'
  BY <1>1 DEF TypeOK
<1>3. StackInv'
  <2>1. ASSUME NEW i \in 1..Len(stack') PROVE Waiting(stack[i])'
    <3>1. i \in 1..Len(stack) /\ stack'[i] = stack[i]
      OBVIOUS
    <3>2. stack[i].dst \in Handle \ {x, y}
      BY <3>1, FrameTyped
    <3>3. ptr'[stack[i].dst] = ptr[stack[i].dst] /\ Waiting(stack[i])
      BY <1>1, <3>1, <3>2 DEF StackInv
    <3> QED  BY <3>1, <3>3 DEF Waiting
  <2>2. \A i, j \in 1..Len(stack') : i # j => Disjoint(stack'[i], stack'[j])
    BY DEF StackInv
  <2> QED  BY <2>1, <2>2 DEF StackInv, Disjoint
<1>4. MemoryInv'
  <2>1. ASSUME NEW h \in Handle PROVE Holds(h)'
    <3>1. Holds(h) /\ \A g \in Handle : Holds(g)
      BY DEF MemoryInv
    <3>2. CASE h = x /\ y # NULL
      <4>1. Holds(y) /\ ptr'[h] = ptr[y]
        BY <1>1, <3>1, <3>2
      <4>2. \A g \in Handle \ {h} : ptr[y].data # NULL => ptr'[g].data # ptr[y].data
        BY <1>1, <3>2, <4>1, EmptyValue DEF Holds
      <4> QED  BY <4>1, <4>2 DEF Holds
    <3>3. CASE h = y \/ (h = x /\ y = NULL)
      <4>1. ptr'[h] = Empty
        BY <1>1, DataPtrAssumption, <3>3
      <4> QED  BY <4>1, EmptyValue DEF Holds
    <3>4. CASE h \notin {x, y}
      <4>1. ptr'[h] = ptr[h]
        BY <1>1, <3>4
      <4>2. \A g \in Handle \ {h} : ptr[h].data # NULL => ptr'[g].data # ptr[h].data
        BY <1>1, DataPtrAssumption, <3>1, <3>4, EmptyValue DEF Holds
      <4> QED  BY <3>1, <4>1, <4>2 DEF Holds
    <3> QED  BY <3>2, <3>3, <3>4
  <2>2. ASSUME NEW h \in Handle, ptr'[h].data # NULL, deletions'[ptr'[h].data] > 0
        PROVE  Stale(h)'
    <3>1. h # y
      BY <1>1, DataPtrAssumption, <2>2, EmptyValue
    <3>2. h # x
      <4>1. SUFFICES ASSUME h = x PROVE FALSE
        OBVIOUS
      <4>2. y # NULL /\ ptr'[h] = ptr[y]
        BY <1>1, <2>2, <4>1, EmptyValue
      <4> QED  BY <2>2, <4>2 DEF MemoryInv
    <3>3. Stale(h)
      BY <1>1, <2>2, <3>1, <3>2 DEF MemoryInv
    <3> QED  BY <3>2, <3>3
  <2> QED  BY <2>1, <2>2 DEF MemoryInv
<1>5. NoLeak'
  <2>1. ASSUME NEW c \in Block, made'[c].deleter # NULL, deletions'[c] = 0
        PROVE  \E h \in Handle : ptr'[h].data = c
    <3>1. PICK h \in Handle : ptr[h].data = c
      BY <2>1 DEF NoLeak
    <3>2. c # NULL /\ ptr[h] = made[c]
      BY <3>1, DataPtrAssumption DEF MemoryInv, Holds
    <3>3. h # x
      BY <2>1, <3>1, <3>2
    <3>4. CASE h = y
      <4>1. ptr'[x] = ptr[y]
        BY <1>1, <3>4, DataPtrAssumption
      <4> QED  BY <3>1, <3>4, <4>1
    <3>5. CASE h # y
      BY <1>1, <3>1, <3>3, <3>5
    <3> QED  BY <3>4, <3>5
  <2> QED  BY <2>1 DEF NoLeak
<1> QED  BY <1>2, <1>3, <1>4, <1>5

\* reset() calls the deleter of a handle that no other call waits for.
LEMMA CallStep ==
  ASSUME DataInv, NEW x \in Handle, NEW y \in Handle \cup {NULL}, x # y, Free(x),
         y # NULL => Free(y), ptr[x].data # NULL, ptr[x].deleter # NULL,
         stack' = Append(stack, [dst |-> x, src |-> y, data |-> ptr[x].data,
           context |-> ptr[x].context, deleter |-> ptr[x].deleter, done |-> FALSE]),
         ptr' = ptr, made' = made, deletions' = deletions
  PROVE  DataInv'
<1> USE DEF DataInv
<1> DEFINE f == [dst |-> x, src |-> y, data |-> ptr[x].data, context |-> ptr[x].context,
                 deleter |-> ptr[x].deleter, done |-> FALSE]
           n == Len(stack) + 1
<1>1. f \in Frame
  <2>1. ptr[x] \in Value
    BY DEF TypeOK
  <2> QED  BY <2>1 DEF Frame, Value
<1>2. /\ f.dst = x /\ f.src = y /\ f.data = ptr[x].data /\ f.context = ptr[x].context
      /\ f.deleter = ptr[x].deleter /\ f.done = FALSE
  OBVIOUS
<1>3. stack' = Append(stack, f) /\ stack \in Seq(Frame)
  BY DEF TypeOK
<1> HIDE DEF f
<1>4. /\ stack' \in Seq(Frame) /\ Len(stack') = n /\ stack'[n] = f
      /\ \A i \in 1..Len(stack) : stack'[i] = stack[i]
      /\ Len(stack) \in Nat
  BY <1>1, <1>3, PushElement, LenProperties
<1>5. TypeOK'
  BY <1>4 DEF TypeOK
<1>6. Waiting(f)
  <2>1. ~Stale(x)
    BY DEF Stale, Free
  <2>2. ptr[x].data \in Block
    BY DEF TypeOK, Value
  <2>3. deletions[ptr[x].data] = 0
    BY <2>1, <2>2 DEF MemoryInv, TypeOK
  <2> QED  BY <1>2, <2>3 DEF Waiting
<1>7. StackInv'
  <2>1. ASSUME NEW i \in 1..n PROVE Waiting(stack[i])'
    <3>1. i \in 1..Len(stack) \/ i = n
      BY <1>4
    <3>2. (Waiting(stack[i]) /\ stack'[i] = stack[i]) \/ stack'[i] = f
      BY <1>4, <3>1 DEF StackInv
    <3> QED  BY <1>6, <3>2 DEF Waiting
  <2>2. ASSUME NEW i \in 1..Len(stack) PROVE Disjoint(stack[i], f) /\ Disjoint(f, stack[i])
    <3>1. x # stack[i].dst /\ x # stack[i].src
      BY DEF Free
    <3>2. y # NULL => y # stack[i].dst /\ y # stack[i].src
      BY DEF Free
    <3>3. stack[i].dst # NULL
      BY FrameTyped, DataPtrAssumption
    <3> QED  BY <1>2, <3>1, <3>2, <3>3, DataPtrAssumption DEF Disjoint
  <2>3. ASSUME NEW i \in 1..n, NEW j \in 1..n, i # j PROVE Disjoint(stack'[i], stack'[j])
    <3>1. (i \in 1..Len(stack) \/ i = n) /\ (j \in 1..Len(stack) \/ j = n)
      BY <1>4
    <3> QED  BY <1>4, <2>2, <2>3, <3>1 DEF StackInv
  <2>4. \A i \in 1..Len(stack') : Waiting(stack[i])'
    BY <1>4, <2>1
  <2>5. \A i, j \in 1..Len(stack') : i # j => Disjoint(stack[i], stack[j])'
    BY <1>4, <2>3 DEF Disjoint
  <2> QED  BY <2>4, <2>5 DEF StackInv
<1>8. \A h \in Handle : Stale(h) => Stale(h)'
  <2>1. SUFFICES ASSUME NEW h \in Handle, NEW i \in 1..Len(stack), stack[i].dst = h, stack[i].done
                 PROVE  Stale(h)'
    BY DEF Stale
  <2>2. i \in 1..Len(stack')
    BY <1>4
  <2> QED  BY <1>4, <2>1, <2>2 DEF Stale
<1>9. MemoryInv'
  BY <1>8 DEF MemoryInv, Holds
<1>10. NoLeak'
  BY DEF NoLeak
<1> QED  BY <1>5, <1>7, <1>9, <1>10

\* The deleter of the latest call frees the memory it was given.
LEMMA FreesStep ==
  ASSUME DataInv, DeleterFrees
  PROVE  DataInv'
<1> USE DEF DataInv
<1> DEFINE n == Len(stack)
           g == [stack[n] EXCEPT !.done = TRUE]
           b == stack[n].data
<1>1. /\ stack # <<>> /\ stack \in Seq(Frame) /\ n \in 1..n /\ stack[n] \in Frame
      /\ stack' = [stack EXCEPT ![n] = g] /\ ~stack[n].done
      /\ deletions' = [deletions EXCEPT ![b] = @ + 1]
      /\ ptr' = ptr /\ made' = made
  <2>1. stack # <<>> /\ stack \in Seq(Frame)
    BY DEF DeleterFrees, TypeOK
  <2>2. n \in 1..n /\ stack[n] \in Frame
    BY <2>1, PopElement
  <2> QED  BY <2>1, <2>2 DEF DeleterFrees, Top
<1>2. /\ g \in Frame /\ g.done /\ g.dst = stack[n].dst /\ g.src = stack[n].src /\ g.data = b
      /\ g.context = stack[n].context /\ g.deleter = stack[n].deleter
  BY <1>1, MarkedFrame
<1> HIDE DEF g
<1>3. /\ stack' \in Seq(Frame) /\ Len(stack') = n
      /\ \A i \in 1..n : stack'[i] = IF i = n THEN g ELSE stack[i]
  BY <1>1, <1>2, ReplaceElement
<1>4. Waiting(stack[n]) /\ b \in Block /\ b # NULL /\ b = ptr[stack[n].dst].data
      /\ stack[n].dst \in Handle
  BY <1>1, FrameTyped DEF StackInv, Waiting
<1>5. deletions[b] = 0 /\ deletions'[b] = 1 /\ deletions \in [Block -> 0..1]
      /\ \A c \in Block \ {b} : deletions'[c] = deletions[c]
  <2>1. deletions[b] = 0
    BY <1>1, <1>4 DEF Waiting
  <2> QED  BY <1>1, <1>4, <2>1 DEF TypeOK
<1>6. \A c \in Block : deletions'[c] = IF c = b THEN 1 ELSE deletions[c]
  BY <1>5
<1>7. TypeOK'
  <2>1. deletions' \in [Block -> 0..1]
    BY <1>1, <1>4, <1>5 DEF TypeOK
  <2> QED  BY <1>1, <1>3, <2>1 DEF TypeOK
<1>8. StackInv'
  <2>1. ASSUME NEW i \in 1..n PROVE Waiting(stack[i])'
    <3>1. CASE i = n
      <4>1. stack'[i] = g
        BY <1>3, <3>1
      <4> QED  BY <1>1, <1>2, <1>4, <1>5, <4>1 DEF Waiting
    <3>2. CASE i # n
      <4>1. stack'[i] = stack[i] /\ Waiting(stack[i]) /\ Disjoint(stack[i], stack[n])
        BY <1>1, <1>3, <3>2 DEF StackInv
      <4>2. stack[i].dst \in Handle /\ stack[i].data \in Block /\ stack[i].data # NULL
        BY FrameTyped
      <4>3. stack[n].dst # NULL
        BY <1>4, DataPtrAssumption
      <4>4. stack[i].dst # stack[n].dst
        BY <4>1, <4>3 DEF Disjoint
      <4>5. stack[i].data # b
        BY <1>4, <4>1, <4>2, <4>4 DEF MemoryInv, Holds, Waiting
      <4>6. deletions'[stack[i].data] = deletions[stack[i].data]
        BY <1>5, <4>2, <4>5
      <4> QED  BY <1>1, <4>1, <4>6 DEF Waiting
    <3> QED  BY <3>1, <3>2
  <2>2. ASSUME NEW i \in 1..n PROVE stack'[i].dst = stack[i].dst /\ stack'[i].src = stack[i].src
    BY <1>2, <1>3
  <2>3. ASSUME NEW i \in 1..n, NEW j \in 1..n, i # j PROVE Disjoint(stack'[i], stack'[j])
    <3>1. Disjoint(stack[i], stack[j])
      BY <2>3 DEF StackInv
    <3> QED  BY <2>2, <3>1 DEF Disjoint
  <2> QED  BY <1>3, <2>1, <2>3 DEF StackInv, Disjoint
<1>9. MemoryInv'
  <2>1. \A h \in Handle : Holds(h)'
    BY <1>1 DEF MemoryInv, Holds
  <2>2. made[b] # Empty
    BY <1>4, EmptyValue DEF MemoryInv, Holds
  <2>3. \A c \in Block : made'[c] = Empty => deletions'[c] = 0
    BY <1>1, <1>6, <2>2 DEF MemoryInv
  <2>4. ASSUME NEW h \in Handle, ptr'[h].data # NULL, deletions'[ptr'[h].data] > 0
        PROVE  Stale(h)'
    <3>1. CASE h = stack[n].dst
      <4>1. stack'[n].dst = h /\ stack'[n].done
        BY <1>1, <1>2, <1>3, <3>1
      <4> QED  BY <1>1, <1>3, <4>1 DEF Stale
    <3>2. CASE h # stack[n].dst
      <4>1. ptr[h].data # b /\ ptr[h].data \in Block /\ ptr[h].data # NULL
        BY <1>1, <1>4, <2>4, <3>2 DEF MemoryInv, Holds, TypeOK, Value
      <4>2. Stale(h)
        BY <1>1, <1>6, <2>4, <4>1 DEF MemoryInv
      <4>3. PICK i \in 1..n : stack[i].dst = h /\ stack[i].done
        BY <4>2 DEF Stale
      <4>4. stack'[i] = stack[i]
        BY <1>3, <3>2, <4>3
      <4> QED  BY <1>3, <4>3, <4>4 DEF Stale
    <3> QED  BY <3>1, <3>2
  <2>5. \A c \in Block : made'[c] = Empty \/ made'[c].data = c
    BY <1>1 DEF MemoryInv
  <2> QED  BY <2>1, <2>3, <2>4, <2>5 DEF MemoryInv
<1>10. NoLeak'
  BY <1>1, <1>6 DEF NoLeak
<1> QED  BY <1>7, <1>8, <1>9, <1>10

\* The deleter returns, and its reset() or move assignment ends.
LEMMA ReturnsStep ==
  ASSUME DataInv, DeleterReturns
  PROVE  DataInv'
<1> DEFINE n == Len(stack)
           x == stack[n].dst
           y == stack[n].src
<1>1. /\ stack \in Seq(Frame) /\ stack # <<>> /\ stack[n].done
      /\ ptr' = Clear(x, y) /\ stack' = SubSeq(stack, 1, n - 1)
      /\ made' = made /\ deletions' = deletions
  BY DEF DataInv, TypeOK, DeleterReturns, Top
<1>2. /\ n \in 1..n /\ stack[n] \in Frame /\ stack' \in Seq(Frame) /\ Len(stack') = n - 1
      /\ \A i \in 1..(n - 1) : stack'[i] = stack[i]
  BY <1>1, PopElement
<1>3. x \in Handle /\ y \in Handle \cup {NULL} /\ x # NULL
  BY <1>2, DataPtrAssumption DEF Frame
<1>4. Waiting(stack[n])
  BY <1>2 DEF DataInv, StackInv
<1>5. \A i \in 1..(n - 1) : i \in 1..n /\ i # n
  BY <1>2
<1>6. ASSUME NEW i \in 1..(n - 1) PROVE stack[i].dst # x /\ stack[i].dst # y
  <2>1. Disjoint(stack[i], stack[n]) /\ stack[i].dst \in Handle
    BY <1>2, <1>5, FrameTyped DEF DataInv, StackInv
  <2> QED  BY <1>3, <2>1, DataPtrAssumption DEF Disjoint
<1>7. ASSUME NEW h \in Handle \ {x}, Stale(h) PROVE Stale(h)'
  <2>1. PICK i \in 1..n : stack[i].dst = h /\ stack[i].done
    BY <1>7 DEF Stale
  <2>2. i \in 1..(n - 1)
    BY <1>2, <2>1
  <2> QED  BY <1>2, <2>1, <2>2 DEF Stale
<1>8. ASSUME y # NULL PROVE ~Stale(y)
  <2>1. SUFFICES ASSUME NEW i \in 1..n, stack[i].dst = y PROVE FALSE
    BY DEF Stale
  <2>2. i = n
    BY <1>2, <1>6, <2>1
  <2> QED  BY <1>4, <2>1, <2>2 DEF Waiting
<1>9. x # y /\ deletions[ptr[x].data] = 1
  BY <1>1, <1>4 DEF Waiting
<1>10. \A i \in 1..Len(stack') : i \in 1..Len(stack) /\ stack'[i] = stack[i]
                                 /\ stack[i].dst # x /\ stack[i].dst # y
  BY <1>2, <1>5, <1>6
<1> HIDE DEF x, y, n
<1> QED  BY <1>1, <1>2, <1>3, <1>7, <1>8, <1>9, <1>10, ClearStep

\* reset(), also by a move assignment: the deleter is called, or there is none.
LEMMA BeginStep ==
  ASSUME DataInv, NEW x \in Handle, NEW y \in Handle \cup {NULL}, x # y,
         y # NULL => Free(y), BeginReset(x, y)
  PROVE  DataInv'
<1>1. Free(x) /\ made' = made /\ deletions' = deletions
  BY DEF BeginReset
<1>2. CASE ptr[x].data # NULL /\ ptr[x].deleter # NULL
  <2>1. /\ stack' = Append(stack, [dst |-> x, src |-> y, data |-> ptr[x].data,
             context |-> ptr[x].context, deleter |-> ptr[x].deleter, done |-> FALSE])
        /\ ptr' = ptr
    BY <1>2 DEF BeginReset
  <2> QED  BY <1>1, <1>2, <2>1, CallStep
<1>3. CASE ptr[x].data = NULL \/ ptr[x].deleter = NULL
  <2>1. ptr' = Clear(x, y) /\ stack' = stack
    BY <1>3 DEF BeginReset
  <2>2. stack' \in Seq(Frame) /\ \A i \in 1..Len(stack') : i \in 1..Len(stack) /\ stack'[i] = stack[i]
    BY <2>1 DEF DataInv, TypeOK
  <2>3. \A i \in 1..Len(stack') : stack[i].dst # x /\ stack[i].dst # y
    <3>1. SUFFICES ASSUME NEW i \in 1..Len(stack) PROVE stack[i].dst # x /\ stack[i].dst # y
      BY <2>1
    <3>2. stack[i].dst # NULL
      BY FrameTyped, DataPtrAssumption DEF DataInv
    <3> QED  BY <1>1, <3>2 DEF Free
  <2>4. \A h \in Handle \ {x} : Stale(h) => Stale(h)'
    BY <2>1 DEF Stale
  <2>5. y # NULL => ~Stale(y)
    BY DEF Free, Stale
  <2> QED  BY <1>1, <1>3, <2>1, <2>2, <2>3, <2>4, <2>5, ClearStep
<1> QED  BY <1>2, <1>3

\* Two handles exchange what they have, one being empty in a move construction.
LEMMA MoveStep ==
  ASSUME DataInv, NEW x \in Handle, NEW y \in Handle, MoveConstruct(x, y) \/ Swap(x, y)
  PROVE  DataInv'
<1>1. /\ Free(x) /\ Free(y) /\ made' = made /\ deletions' = deletions /\ stack' = stack
      /\ ptr' = [ptr EXCEPT ![x] = ptr[y], ![y] = ptr[x]]
  BY DEF MoveConstruct, Swap
<1>2. ptr \in [Handle -> Value]
  BY DEF DataInv, TypeOK
<1>3. /\ ptr' \in [Handle -> Value] /\ ptr'[x] = ptr[y] /\ ptr'[y] = ptr[x]
      /\ \A h \in Handle \ {x, y} : ptr'[h] = ptr[h]
  BY <1>1, <1>2
<1> QED  BY <1>1, <1>3, SwapStep

\* Every step of the handles keeps the invariant.
LEMMA NextStep ==
  ASSUME DataInv, Next
  PROVE  DataInv'
<1>1. CASE \E x \in Handle, b \in Block : Own(x, b)
  <2>1. PICK x \in Handle, b \in Block : Own(x, b)
    BY <1>1
  <2>2. PICK n \in Bytes, d \in Device, c \in Context \cup {NULL}, f \in {"deleter", NULL} :
          Construct(x, b, [data |-> b, bytes |-> n, device |-> d, context |-> c, deleter |-> f])
    BY <2>1 DEF Own
  <2> DEFINE value == [data |-> b, bytes |-> n, device |-> d, context |-> c, deleter |-> f]
  <2>3. value \in Value /\ value.data = b
    BY DEF Value, Deleter
  <2> HIDE DEF value
  <2>4. Construct(x, b, value)
    BY <2>2 DEF value
  <2> QED  BY <2>3, <2>4, ConstructStep
<1>2. CASE \E x, y \in Handle : MoveConstruct(x, y) \/ Swap(x, y) \/ MoveAssign(x, y)
  <2>1. PICK x \in Handle, y \in Handle : MoveConstruct(x, y) \/ Swap(x, y) \/ MoveAssign(x, y)
    BY <1>2
  <2>2. CASE MoveAssign(x, y)
    BY <2>2, BeginStep DEF MoveAssign
  <2> QED  BY <2>1, <2>2, MoveStep
<1>3. CASE \E x \in Handle : Reset(x)
  <2>1. \A x \in Handle : x # NULL
    BY DataPtrAssumption
  <2> QED  BY <1>3, <2>1, BeginStep DEF Reset
<1> QED  BY <1>1, <1>2, <1>3, FreesStep, ReturnsStep DEF Next

\* Nothing is owned and nothing runs in the beginning.
LEMMA InitialData ==
  ASSUME Init
  PROVE  DataInv
<1>1. stack = <<>> /\ Len(stack) = 0 /\ stack \in Seq(Frame)
  BY DEF Init
<1>2. /\ \A x \in Handle : ptr[x] = Empty
      /\ \A b \in Block : made[b] = Empty /\ deletions[b] = 0
  BY DEF Init
<1>3. TypeOK
  BY <1>1, EmptyValue DEF Init, TypeOK
<1>4. StackInv
  BY <1>1 DEF StackInv
<1>5. MemoryInv /\ NoLeak
  BY <1>2, EmptyValue DEF MemoryInv, Holds, NoLeak
<1> QED  BY <1>3, <1>4, <1>5 DEF DataInv

\* What a difference of pointers can express is less than what a size can.
LEMMA PtrdiffFits ==
  /\ PtrdiffMax \in Nat /\ PtrdiffMax < 2^Width - 1
  /\ SizeT \subseteq Nat /\ 0 \in SizeT /\ 2^Width - 1 \in SizeT
<1>1. Width - 1 \in Nat /\ (Width - 1) + 1 = Width
  BY AllocatorAssumption
<1>2. 2^Width = 2^(Width - 1) + 2^(Width - 1) /\ 2^(Width - 1) \in Nat \ {0}
  BY <1>1, PowerDoubles, PowerPositive
<1> QED  BY <1>2 DEF PtrdiffMax, SizeT

\* An allocation constructs a handle, or nothing changes.
LEMMA AllocatorStep ==
  ASSUME DataInv, [AllocatorNext]_<<dvars, avars>>
  PROVE  DataInv'
<1>1. CASE UNCHANGED dvars
  <2>1. ptr' = ptr /\ made' = made /\ deletions' = deletions /\ stack' = stack
    BY <1>1 DEF dvars
  <2>2. TypeOK' /\ NoLeak'
    BY <2>1 DEF DataInv, TypeOK, NoLeak
  <2>3. StackInv'
    BY <2>1 DEF DataInv, StackInv, Waiting, Disjoint
  <2>4. MemoryInv'
    BY <2>1 DEF DataInv, MemoryInv, Holds, Stale
  <2> QED  BY <2>2, <2>3, <2>4 DEF DataInv
<1>2. CASE Next
  BY <1>2, NextStep
<1>3. ASSUME NEW x \in Handle, NEW n \in Bytes \cup {0, 2^Width - 1}, NEW a \in SizeT,
             NEW d \in Device, NEW b \in Block, Allocated(x, n, a, d, b)
      PROVE  DataInv'
  <2> DEFINE value == [data |-> b, bytes |-> n, device |-> d, context |-> NULL,
                       deleter |-> "free_cpu_memory"]
  <2>1. Construct(x, b, value)
    BY <1>3 DEF Allocated
  <2>2. n \in Bytes \cup {0}
    BY <1>3, AllocatorAssumption, DataPtrAssumption, PtrdiffFits DEF Allocated, Refusal
  <2>3. value \in Value /\ value.data = b
    BY <2>2 DEF Value, Deleter
  <2> HIDE DEF value
  <2> QED  BY <2>1, <2>3, ConstructStep
<1> QED
  <2>1. ASSUME NEW x \in Handle, NEW n \in Bytes \cup {0, 2^Width - 1}, NEW a \in SizeT,
               NEW d \in Device, Allocate(x, n, a, d)
        PROVE  DataInv'
    BY <1>1, <1>3, <2>1 DEF Allocate, Refused, Exhausted
  <2> QED  BY <1>1, <1>2, <2>1 DEF AllocatorNext

-----------------------------------------------------------------------------
(* What the handles promise. *)

\* DataInv holds throughout, for a program that brings its own memory and asks the
\* allocator for more.
THEOREM DataInvariant == AllocatorSpec => []DataInv
<1>1. AllocatorInit => DataInv
  BY InitialData DEF AllocatorInit
<1>2. DataInv /\ [AllocatorNext]_<<dvars, avars>> => DataInv'
  BY AllocatorStep
<1> QED  BY <1>1, <1>2, PTL DEF AllocatorSpec

\* move construction, swap, move assignment and reset() of data_ptr.h: a handle has
\* all members its memory was made with, alone, and so has the deleter it calls.
THEOREM HandlesStayIntact == AllocatorSpec => []HandleIntact
<1>1. DataInv => HandleIntact
  <2> SUFFICES ASSUME DataInv PROVE HandleIntact
    OBVIOUS
  <2> USE DEF DataInv
  <2>1. \A x \in Handle :
          IF ptr[x].data = NULL THEN ptr[x] = Empty
          ELSE ptr[x] = made[ptr[x].data] /\ \A y \in Handle \ {x} : ptr[y].data # ptr[x].data
    BY DEF MemoryInv, Holds
  <2>2. ASSUME NEW i \in 1..Len(stack)
        PROVE  /\ stack[i].data = made[stack[i].data].data
               /\ stack[i].context = made[stack[i].data].context
               /\ stack[i].deleter = made[stack[i].data].deleter
    <3>1. stack[i].dst \in Handle /\ stack[i].data # NULL
      BY FrameTyped
    <3>2. Waiting(stack[i]) /\ ptr[stack[i].dst] = made[ptr[stack[i].dst].data]
      BY <2>1, <3>1 DEF StackInv, Waiting
    <3> QED  BY <3>2 DEF Waiting
  <2> QED  BY <2>1, <2>2 DEF HandleIntact
<1> QED  BY <1>1, DataInvariant, PTL

\* reset() and the deleter: memory is freed at most once, and a handle to freed
\* memory is one whose reset() has not returned.
THEOREM MemoryFreedOnce == AllocatorSpec => []FreedOnce
<1>1. DataInv => FreedOnce
  BY DEF DataInv, TypeOK, MemoryInv, FreedOnce
<1> QED  BY <1>1, DataInvariant, PTL

\* Memory with a deleter is never lost by a move or an assignment.
THEOREM MemoryNotLost == AllocatorSpec => []NoLeak
<1>1. DataInv => NoLeak
  BY DEF DataInv
<1> QED  BY <1>1, DataInvariant, PTL

-----------------------------------------------------------------------------
(* What the allocator promises. *)

\* A value without a common bit with the value before it has one bit.
LEMMA OneBit ==
  ASSUME NEW a \in SizeT, IsPowerOfTwo(a)
  PROVE  \E k \in 0..(Width - 1) : a = 2^k
<1> DEFINE S == {m \in Nat : a < 2^m}
<1>1. a \in Nat /\ a # 0 /\ a < 2^Width /\ Width \in Nat \ {0}
  <2>1. Width \in Nat \ {0} /\ 2^Width \in Nat
    BY AllocatorAssumption, PowerPositive
  <2> QED  BY <2>1 DEF SizeT, IsPowerOfTwo
<1>2. PICK m \in S : \A k \in S : m <= k
  <2>1. S \subseteq Nat /\ S # {}
    BY <1>1
  <2> HIDE DEF S
  <2> QED  BY <2>1, LeastElement
<1>3. m \in Nat /\ a < 2^m /\ m <= Width
  BY <1>1, <1>2
<1>4. m # 0
  <2>1. m = 0 => a < 1
    BY <1>3, PowerZero
  <2> QED  BY <1>1, <2>1
<1> DEFINE k == m - 1
<1>5. k \in Nat /\ k + 1 = m /\ k \in 0..(Width - 1)
  BY <1>1, <1>3, <1>4
<1> HIDE DEF k
<1>6. 2^k \in Nat \ {0} /\ 2^m = 2^k + 2^k
  BY <1>5, PowerDoubles, PowerPositive
<1>7. 2^k <= a
  <2>1. k \notin S
    BY <1>2, <1>5
  <2> QED  BY <1>1, <1>5, <1>6, <2>1
<1>8. ASSUME NEW v \in Nat, 2^k <= v, v < 2^k + 2^k PROVE k \in Bits(v)
  <2>1. v \div 2^k = 1
    <3> DEFINE p == 2^k
    <3>1. p \in Nat \ {0} /\ p <= v /\ v < p + p
      BY <1>6, <1>8
    <3> HIDE DEF p
    <3>2. \A q, r \in Int : v = q * p + r /\ 0 <= r /\ r < p => q = 1
      <4>1. ASSUME NEW q \in Int, NEW r \in Int, v = q * p + r, 0 <= r, r < p PROVE q = 1
        <5>1. q >= 2 => q * p >= 2 * p
          <6>1. q >= 2 => (q - 2) * p >= 0
            BY <3>1
          <6> QED  BY <3>1, <6>1
        <5>2. q <= 0 => q * p <= 0
          BY <3>1
        <5> QED  BY <3>1, <4>1, <5>1, <5>2
      <4> QED  BY <4>1
    <3>3. v = (v \div p) * p + (v % p) /\ v % p \in 0..(p - 1) /\ v \div p \in Int
      BY <3>1
    <3>4. v \div p = 1
      BY <3>1, <3>2, <3>3
    <3> QED  BY <3>4 DEF p
  <2>2. (v \div 2^k) % 2 = 1
    BY <2>1
  <2> QED  BY <1>5, <2>2, Zenon DEF Bits
<1>9. k \in Bits(a)
  BY <1>1, <1>3, <1>6, <1>7, <1>8
<1>10. k \notin Bits(a - 1)
  BY <1>9 DEF IsPowerOfTwo
<1>11. a = 2^k
  <2>1. SUFFICES ASSUME a # 2^k PROVE FALSE
    OBVIOUS
  <2>2. a - 1 \in Nat /\ 2^k <= a - 1 /\ a - 1 < 2^k + 2^k
    BY <1>1, <1>3, <1>6, <1>7, <2>1
  <2> QED  BY <1>8, <1>10, <2>2
<1> QED  BY <1>5, <1>11

\* The larger of two powers of two is a multiple of both.
LEMMA AlignedToBoth ==
  ASSUME NEW a \in SizeT, NEW k \in 0..(Width - 1), a = 2^k
  PROVE  /\ ActualAlignment(a) \in SizeT
         /\ ActualAlignment(a) % MaxAlign = 0 /\ ActualAlignment(a) % a = 0
<1>1. PICK m \in 0..(Width - 1) : MaxAlign = 2^m
  BY AllocatorAssumption
<1>2. Width \in Nat /\ k \in Nat /\ m \in Nat
  BY AllocatorAssumption
<1>3. a \in Nat \ {0} /\ MaxAlign \in Nat \ {0} /\ MaxAlign \in SizeT
  BY <1>1, <1>2, PowerPositive, AllocatorAssumption
<1>4. ASSUME NEW p \in Nat \ {0}, NEW q \in Nat \ {0} PROVE (q * p) % p = 0 /\ q * p >= p
  <2> DEFINE x == q * p
  <2>1. x \in Nat /\ x >= p
    <3>1. (q - 1) * p >= 0 /\ q * p \in Nat
      OBVIOUS
    <3> QED  BY <3>1
  <2>2. x = (x \div p) * p + (x % p) /\ x % p \in 0..(p - 1) /\ x \div p \in Int
    <3> HIDE DEF x
    <3> QED  BY <2>1
  <2>3. (q - (x \div p)) * p = x % p
    BY <2>2
  <2>4. x % p = 0
    <3> DEFINE z == q - (x \div p)
               r == x % p
    <3>1. z \in Int /\ r \in 0..(p - 1) /\ z * p = r
      BY <2>2, <2>3
    <3> HIDE DEF z, r
    <3>2. z >= 1 => z * p >= p
      <4>1. z >= 1 => (z - 1) * p >= 0
        BY <3>1
      <4> QED  BY <3>1, <4>1
    <3>3. z <= -1 => z * p < 0
      BY <3>1
    <3>4. z = 0 => r = 0
      BY <3>1
    <3>5. r = 0
      BY <3>1, <3>2, <3>3, <3>4
    <3> QED  BY <3>5 DEF r
  <2> QED  BY <2>1, <2>4
<1>5. CASE m <= k
  <2>1. PICK q \in Nat \ {0} : a = q * MaxAlign
    BY <1>1, <1>2, <1>5, PowerDivides
  <2>2. a % MaxAlign = 0 /\ a >= MaxAlign /\ a % a = 0
    <3>1. 1 * a = a
      BY <1>3
    <3> QED  BY <1>3, <1>4, <2>1, <3>1
  <2> QED  BY <1>3, <2>2 DEF ActualAlignment
<1>6. CASE k <= m
  <2>1. PICK q \in Nat \ {0} : MaxAlign = q * a
    BY <1>1, <1>2, <1>6, PowerDivides
  <2>2. MaxAlign % a = 0 /\ MaxAlign >= a /\ MaxAlign % MaxAlign = 0
    <3>1. 1 * MaxAlign = MaxAlign
      BY <1>3
    <3> QED  BY <1>3, <1>4, <2>1, <3>1
  <2>3. ActualAlignment(a) = MaxAlign
    BY <1>3, <2>2 DEF ActualAlignment
  <2> QED  BY <1>3, <2>2, <2>3
<1> QED  BY <1>2, <1>5, <1>6

AllocInv ==
  /\ DataInv /\ AllocationSound
  /\ alignment \in [Block -> SizeT] /\ asked \in [Block -> SizeT]
  /\ reply \in {NULL, "empty", "memory", "InvalidArgument", "ResourceExhausted"}

\* What an allocation was made for says so.
LEMMA AllocatedSound ==
  ASSUME AllocInv, NEW x \in Handle, NEW n \in Bytes \cup {0, 2^Width - 1}, NEW a \in SizeT,
         NEW d \in Device, NEW b \in Block, Allocated(x, n, a, d, b)
  PROVE  AllocInv'
<1> DEFINE value == [data |-> b, bytes |-> n, device |-> d, context |-> NULL,
                     deleter |-> "free_cpu_memory"]
<1>1. DataInv'
  BY AllocatorStep DEF AllocInv, AllocatorNext, Allocate
<1>2. Refusal(n, a, d) = NULL
  BY DEF Allocated
<1>3. d = Cpu0 /\ IsPowerOfTwo(a) /\ n # 0 /\ ~(n > PtrdiffMax)
  BY <1>2, AllocatorAssumption DEF Refusal
<1>4. PICK k \in 0..(Width - 1) : a = 2^k
  BY <1>3, OneBit
<1>5. /\ ActualAlignment(a) \in SizeT
      /\ ActualAlignment(a) % MaxAlign = 0 /\ ActualAlignment(a) % a = 0
  BY <1>4, AlignedToBoth
<1>6. n \in 1..PtrdiffMax
  BY <1>3, PtrdiffFits, DataPtrAssumption
<1>7. /\ made \in [Block -> Value] /\ alignment \in [Block -> SizeT] /\ asked \in [Block -> SizeT]
  BY DEF AllocInv, DataInv, TypeOK
<1>8. /\ made' = [made EXCEPT ![b] = value]
      /\ alignment' = [alignment EXCEPT ![b] = ActualAlignment(a)]
      /\ asked' = [asked EXCEPT ![b] = a] /\ reply' = "memory"
  BY DEF Allocated, Construct
<1>9. alignment' \in [Block -> SizeT] /\ asked' \in [Block -> SizeT]
  BY <1>5, <1>7, <1>8
<1>10. ASSUME NEW c \in Block, made'[c].deleter = "free_cpu_memory"
       PROVE  /\ \E i \in 0..(Width - 1) : asked'[c] = 2^i
              /\ alignment'[c] % MaxAlign = 0 /\ alignment'[c] % asked'[c] = 0
              /\ made'[c].bytes \in 1..PtrdiffMax /\ made'[c].device = Cpu0
  <2>1. CASE c = b
    <3>1. made'[b] = value /\ alignment'[b] = ActualAlignment(a) /\ asked'[b] = a
      BY <1>7, <1>8
    <3>2. value.bytes = n /\ value.device = d
      OBVIOUS
    <3> HIDE DEF value
    <3> QED  BY <1>3, <1>4, <1>5, <1>6, <2>1, <3>1, <3>2
  <2>2. CASE c # b
    <3>1. made'[c] = made[c] /\ alignment'[c] = alignment[c] /\ asked'[c] = asked[c]
      BY <1>7, <1>8, <2>2
    <3> QED  BY <1>10, <3>1 DEF AllocInv, AllocationSound
  <2> QED  BY <2>1, <2>2
<1>11. AllocationSound'
  BY <1>10 DEF AllocationSound
<1> QED  BY <1>1, <1>8, <1>9, <1>11 DEF AllocInv

\* What a program constructs from memory of its own says nothing of the allocator.
LEMMA OwnSound ==
  ASSUME AllocInv, Next, UNCHANGED avars
  PROVE  AllocInv'
<1>1. DataInv'
  BY NextStep DEF AllocInv
<1>2. alignment' = alignment /\ asked' = asked /\ reply' = reply
  BY DEF avars
<1>3. \A c \in Block : made'[c].deleter = "free_cpu_memory" => made'[c] = made[c]
  <2>1. CASE made' = made
    BY <2>1
  <2>2. CASE \E x \in Handle, b \in Block : Own(x, b)
    <3>1. PICK x \in Handle, b \in Block : Own(x, b)
      BY <2>2
    <3>2. PICK n \in Bytes, d \in Device, c \in Context \cup {NULL}, f \in {"deleter", NULL} :
                 made' = [made EXCEPT ![b] = [data |-> b, bytes |-> n, device |-> d,
                                              context |-> c, deleter |-> f]]
      BY <3>1 DEF Own, Construct
    <3>3. f # "free_cpu_memory"
      BY DataPtrAssumption DEF Deleter
    <3>4. made \in [Block -> Value]
      BY DEF AllocInv, DataInv, TypeOK
    <3> QED  BY <3>2, <3>3, <3>4
  <2>3. made' = made \/ \E x \in Handle, b \in Block : Own(x, b)
    BY DEF Next, MoveConstruct, Swap, MoveAssign, Reset, BeginReset, DeleterFrees,
       DeleterReturns
  <2> QED  BY <2>1, <2>2, <2>3
<1>4. AllocationSound'
  BY <1>2, <1>3 DEF AllocInv, AllocationSound
<1> QED  BY <1>1, <1>2, <1>4 DEF AllocInv

\* Every step, of the allocator and of the handles, keeps both invariants.
LEMMA AllocIsInductive == AllocatorSpec => []AllocInv
<1>1. ASSUME AllocatorInit PROVE AllocInv
  <2>1. \A b \in Block : made[b].deleter # "free_cpu_memory"
    BY <1>1, DataPtrAssumption DEF AllocatorInit, Init, Empty, Deleter
  <2> QED
    BY <1>1, <2>1, InitialData, PtrdiffFits DEF AllocatorInit, AllocInv, AllocationSound
<1>2. ASSUME AllocInv, [AllocatorNext]_<<dvars, avars>> PROVE AllocInv'
  <2>1. CASE UNCHANGED <<dvars, avars>>
    <3>1. DataInv'
      BY <1>2, <2>1, AllocatorStep DEF AllocInv
    <3> QED  BY <1>2, <2>1, <3>1 DEF AllocInv, AllocationSound, dvars, avars
  <2>2. CASE Next /\ UNCHANGED avars
    BY <1>2, <2>2, OwnSound
  <2>3. ASSUME NEW x \in Handle, NEW n \in Bytes \cup {0, 2^Width - 1}, NEW a \in SizeT,
               NEW d \in Device, Allocate(x, n, a, d)
        PROVE  AllocInv'
    <3>1. CASE \E b \in Block : Allocated(x, n, a, d, b)
      BY <1>2, <3>1, AllocatedSound
    <3>2. CASE Refused(x, n, a, d) \/ Exhausted(x, n, a, d)
      <4>1. /\ UNCHANGED <<dvars, alignment, asked>>
            /\ reply' \in {"empty", "InvalidArgument", "ResourceExhausted"}
        BY <3>2 DEF Refused, Exhausted, Refusal
      <4>2. DataInv'
        BY <1>2, AllocatorStep DEF AllocInv
      <4> QED  BY <1>2, <4>1, <4>2 DEF AllocInv, AllocationSound, dvars
    <3> QED  BY <2>3, <3>1, <3>2 DEF Allocate
  <2> QED  BY <1>2, <2>1, <2>2, <2>3 DEF AllocatorNext
<1> QED  BY <1>1, <1>2, PTL DEF AllocatorSpec

\* The state of CpuAllocator::allocate, the handles' included, has its type.
THEOREM AllocatorTypeCorrect == AllocatorSpec => []AllocatorTypeOK
<1>1. AllocInv => AllocatorTypeOK
  BY DEF AllocInv, DataInv, AllocatorTypeOK
<1> QED  BY <1>1, AllocIsInductive, PTL

\* CpuAllocator::allocate: whatever the request, and whatever the width of a size, memory
\* comes from it only for a power of two as alignment and is aligned to it and for any
\* type, is not empty, is small enough for pointer differences, and is on cpu:0.
THEOREM AllocationsSound == AllocatorSpec => []AllocationSound
<1>1. AllocInv => AllocationSound
  BY DEF AllocInv
<1> QED  BY <1>1, AllocIsInductive, PTL
=============================================================================
