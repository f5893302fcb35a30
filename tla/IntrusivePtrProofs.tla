------------------------- MODULE IntrusivePtrProofs -------------------------
(***************************************************************************)
(* The reference counts of IntrusivePtr are exact and every access is safe *)
(* for any number of threads, targets and handles, as long as there are    *)
(* not more strong holders than a count can tell apart; and what a user of *)
(* the handles has from that.                                              *)
(***************************************************************************)
EXTENDS IntrusivePtrInv, FiniteSetTheorems, FunctionTheorems, TLAPS

-----------------------------------------------------------------------------
(* Holders and locals. *)

\* A local is none of the handles, objects or other locals.
LEMMA LocalFacts ==
  ASSUME NEW k \in Kind, NEW t \in Thread
  PROVE  /\ Local(k, t) \in Holder(k)
         /\ Local(k, t) \in StrongHolder \cup WeakHolder
         /\ Local(k, t) \notin StrongHandle /\ Local(k, t) \notin WeakHandle
         /\ Local(k, t) \notin Object
         /\ \A j \in Kind, u \in Thread : Local(j, u) = Local(k, t) => j = k /\ u = t
  BY ConstantsAssumption
     DEF Kind, Local, Locals, Holder, StrongHolder, WeakHolder

\* The handles of a kind are holders of that kind, and never null.
LEMMA HandleFacts ==
  ASSUME NEW k \in Kind, NEW x \in Handle(k)
  PROVE  /\ x \in Holder(k) /\ x \in StrongHolder \cup WeakHolder
         /\ x \in StrongHandle \cup WeakHandle
         /\ x # NULL /\ x \notin Object
  BY ConstantsAssumption DEF Kind, Handle, Holder, StrongHolder, WeakHolder

-----------------------------------------------------------------------------
(* Type correctness, with the shape of the running calls. *)

\* An update of one thread's frame keeps the frames well-formed.
LEMMA FrameUpdate ==
  ASSUME TypeOK, ShapeInv, NEW t \in Thread, NEW f \in Frame, FrameShape(f),
         call' = [call EXCEPT ![t] = f]
  PROVE  call' \in [Thread -> Frame] /\ ShapeInv'
  BY DEF TypeOK, ShapeInv

\* The frame of a thread that runs no call.
LEMMA IdleType == Idle \in Frame /\ FrameShape(Idle)
  BY ConstantsAssumption DEF Idle, Frame, Label, Kind, FrameShape

\* Nobody is running a call at the start.
LEMMA InitType == Init => TypeOK /\ ShapeInv
<1>1. Idle \in Frame /\ FrameShape(Idle)
  BY IdleType
<1> SUFFICES ASSUME Init PROVE TypeOK /\ ShapeInv
  OBVIOUS
<1>2. 0 \in 0 .. MaxRefs
  BY ConstantsAssumption
<1>3. refs \in [Kind -> [Object -> 0 .. MaxRefs]]
  BY <1>2 DEF Init
<1>4. call \in [Thread -> Frame] /\ ShapeInv
  BY <1>1 DEF Init, ShapeInv
<1>5. terminated \in BOOLEAN
  BY DEF Init
<1> QED
  BY <1>3, <1>4, <1>5 DEF Init, TypeOK

\* A frame whose label changes.
LEMMA GotoType ==
  ASSUME TypeOK, ShapeInv, NEW t \in Thread, NEW l \in Label,
         Goto(t, l), FrameShape([call[t] EXCEPT !.pc = l])
  PROVE  call' \in [Thread -> Frame] /\ ShapeInv'
<1> DEFINE f == [call[t] EXCEPT !.pc = l]
<1>1. f \in Frame
  BY DEF TypeOK, Frame
<1>2. call' = [call EXCEPT ![t] = f]
  BY DEF Goto, TypeOK
<1> QED
  BY <1>1, <1>2, FrameUpdate

\* The end of a release.
LEMMA ReturnType ==
  ASSUME TypeOK, ShapeInv, NEW t \in Thread, Return(t), ~At(t, "idle")
  PROVE  call' \in [Thread -> Frame] /\ ShapeInv'
<1>1. Idle \in Frame /\ FrameShape(Idle)
  BY IdleType
<1> DEFINE f == [call[t] EXCEPT !.pc = "take"]
<1>2. call[t].moving => f \in Frame /\ FrameShape(f)
  <2>1. call[t] \in Frame /\ FrameShape(call[t]) /\ call[t].pc # "idle"
    BY DEF TypeOK, ShapeInv, At
  <2>2. /\ f \in Frame /\ f.pc = "take" /\ f.moving = call[t].moving /\ f.kind = call[t].kind
        /\ f.dst = call[t].dst /\ f.src = call[t].src /\ f.cb = call[t].cb
    BY <2>1 DEF Frame, Label
  <2> HIDE DEF f
  <2> QED
    BY <2>1, <2>2 DEF FrameShape
<1>3. CASE call[t].moving
  BY <1>2, <1>3, FrameUpdate DEF Return
<1>4. CASE ~call[t].moving
  BY <1>1, <1>4, FrameUpdate DEF Return
<1> QED
  BY <1>3, <1>4

\* A call that begins.
LEMMA BeginType ==
  ASSUME TypeOK, ShapeInv, NEW t \in Thread, NEW f \in Frame, FrameShape(f), Begin(t, f)
  PROVE  call' \in [Thread -> Frame] /\ ShapeInv'
  BY FrameUpdate DEF Begin

\* Swapping two holders, or filling one, keeps the holders well-typed.
LEMMA PtrType ==
  ASSUME ptr \in [StrongHolder \cup WeakHolder -> Object \cup {NULL}],
         NEW x \in StrongHolder \cup WeakHolder, NEW y \in StrongHolder \cup WeakHolder
  PROVE  /\ ptr[x] \in Object \cup {NULL}
         /\ Swapped(x, y) \in [StrongHolder \cup WeakHolder -> Object \cup {NULL}]
         /\ \A o \in Object \cup {NULL} :
              [ptr EXCEPT ![x] = o] \in [StrongHolder \cup WeakHolder -> Object \cup {NULL}]
  BY DEF Swapped

\* Reading and writing a count.
LEMMA CountType ==
  ASSUME TypeOK, NEW k \in Kind, NEW o \in Object
  PROVE  /\ refs[k][o] \in 0 .. MaxRefs
         /\ Minus1(refs[k][o]) \in 0 .. MaxRefs
         /\ Plus1(refs[k][o]) \in 0 .. MaxRefs
         /\ refs[k][o] # MaxRefs => refs[k][o] + 1 \in 0 .. MaxRefs
         /\ \A n \in 0 .. MaxRefs :
              [refs EXCEPT ![k][o] = n] \in [Kind -> [Object -> 0 .. MaxRefs]]
<1>1. refs[k][o] \in 0 .. MaxRefs
  BY DEF TypeOK
<1>2. Minus1(refs[k][o]) \in 0 .. MaxRefs /\ Plus1(refs[k][o]) \in 0 .. MaxRefs
  BY <1>1, ConstantsAssumption DEF Minus1, Plus1
<1>3. refs[k][o] # MaxRefs => refs[k][o] + 1 \in 0 .. MaxRefs
  BY <1>1, ConstantsAssumption
<1> QED
  BY <1>1, <1>2, <1>3 DEF TypeOK

-----------------------------------------------------------------------------
\* The type invariant over the calls that begin ...
LEMMA CallType ==
  ASSUME TypeOK, ShapeInv, NEW t \in Thread, Call(t)
  PROVE  TypeOK' /\ ShapeInv'
<1> USE DEF Handle, Kind
<1>1. ASSUME NEW x \in StrongHandle, NEW o \in Object, BeginConstruct(t, x, o)
      PROVE  TypeOK' /\ ShapeInv'
  <2> DEFINE f == [Idle EXCEPT !.pc = "ctor", !.cb = o, !.dst = x]
  <2>1. f \in Frame
    BY IdleType DEF Frame, Label
  <2>5. FrameShape(f)
    BY ConstantsAssumption DEF Idle, FrameShape
  <2>2. call' \in [Thread -> Frame] /\ ShapeInv'
    BY <1>1, <2>1, <2>5, BeginType DEF BeginConstruct
  <2>3. ptr' \in [StrongHolder \cup WeakHolder -> Object \cup {NULL}]
    BY <1>1 DEF BeginConstruct, TypeOK
  <2>4. refs' \in [Kind -> [Object -> 0 .. MaxRefs]]
    BY <1>1, ConstantsAssumption DEF BeginConstruct, TypeOK
  <2> QED
    BY <1>1, <2>2, <2>3, <2>4 DEF BeginConstruct, TypeOK
<1>2. ASSUME NEW k \in Kind, NEW x \in Handle(k), NEW y \in Handle(k), Copy(t, k, x, y)
      PROVE  TypeOK' /\ ShapeInv'
  <2> DEFINE f == [Idle EXCEPT !.pc = IF ptr[y] = NULL THEN "install" ELSE "load",
                               !.kind = k, !.cb = ptr[y], !.dst = x, !.src = y]
  <2>1. ptr[y] \in Object \cup {NULL}
    BY HandleFacts, PtrType DEF TypeOK
  <2>2. f \in Frame
    BY <1>2, <2>1, HandleFacts, IdleType DEF Frame, Label
  <2>5. FrameShape(f)
    BY <1>2, <2>1, HandleFacts, ConstantsAssumption DEF Idle, FrameShape, Copy
  <2>3. call' \in [Thread -> Frame] /\ ShapeInv'
    BY <1>2, <2>2, <2>5, BeginType DEF Copy
  <2> QED
    BY <1>2, <2>3 DEF Copy, TypeOK
<1>3. ASSUME NEW k \in Kind, NEW x \in Handle(k), NEW y \in Handle(k), MoveConstruct(t, x, y)
      PROVE  TypeOK' /\ ShapeInv'
  BY <1>3, HandleFacts, PtrType DEF MoveConstruct, TypeOK, ShapeInv
<1>4. ASSUME NEW k \in Kind, NEW x \in Handle(k), NEW y \in Handle(k), Swap(t, x, y)
      PROVE  TypeOK' /\ ShapeInv'
  BY <1>4, HandleFacts, PtrType DEF Swap, TypeOK, ShapeInv
<1>5. ASSUME NEW k \in Kind, NEW x \in Handle(k), NEW y \in Handle(k), MoveAssign(t, k, x, y)
      PROVE  TypeOK' /\ ShapeInv'
  <2> DEFINE f == [Idle EXCEPT !.pc = IF ptr[x] = NULL THEN "take" ELSE "release",
                               !.kind = k, !.cb = ptr[x], !.dst = x, !.src = y,
                               !.moving = TRUE]
  <2>1. ptr[x] \in Object \cup {NULL}
    BY HandleFacts, PtrType DEF TypeOK
  <2>2. f \in Frame
    BY <1>5, <2>1, HandleFacts, IdleType DEF Frame, Label
  <2>5. FrameShape(f)
    BY <1>5, <2>1, HandleFacts, ConstantsAssumption DEF Idle, FrameShape, MoveAssign
  <2>3. call' \in [Thread -> Frame] /\ ShapeInv'
    BY <1>5, <2>2, <2>5, BeginType DEF MoveAssign
  <2>4. ptr' \in [StrongHolder \cup WeakHolder -> Object \cup {NULL}]
    BY <1>5, HandleFacts, LocalFacts, PtrType DEF MoveAssign, TypeOK
  <2> QED
    BY <1>5, <2>3, <2>4 DEF MoveAssign, TypeOK
<1>6. ASSUME NEW x \in WeakHandle, NEW y \in StrongHandle, WeakFromStrong(t, x, y)
      PROVE  TypeOK' /\ ShapeInv'
  <2> DEFINE f == [Idle EXCEPT !.pc = "load", !.kind = "weak",
                               !.cb = ptr[y], !.dst = x, !.src = y]
  <2>1. ptr[y] \in Object
    BY <1>6 DEF TypeOK, WeakFromStrong, StrongHolder
  <2>2. f \in Frame
    BY <2>1, IdleType DEF Frame, Label
  <2>5. FrameShape(f)
    BY <2>1, ConstantsAssumption DEF Idle, FrameShape
  <2>3. call' \in [Thread -> Frame] /\ ShapeInv'
    BY <1>6, <2>2, <2>5, BeginType DEF WeakFromStrong
  <2> QED
    BY <1>6, <2>3 DEF WeakFromStrong, TypeOK
<1>7. ASSUME NEW x \in WeakHandle, NEW y \in StrongHandle, Lock(t, y, x)
      PROVE  TypeOK' /\ ShapeInv'
  <2> DEFINE f == [Idle EXCEPT !.pc = "lock_load", !.cb = ptr[x], !.dst = y, !.src = x]
  <2>1. ptr[x] \in Object
    BY <1>7 DEF TypeOK, Lock, WeakHolder
  <2>2. f \in Frame
    BY <2>1, IdleType DEF Frame, Label
  <2>5. FrameShape(f)
    BY <2>1, ConstantsAssumption DEF Idle, FrameShape
  <2>3. call' \in [Thread -> Frame] /\ ShapeInv'
    BY <1>7, <2>2, <2>5, BeginType DEF Lock
  <2> QED
    BY <1>7, <2>3 DEF Lock, TypeOK
<1>8. ASSUME NEW k \in Kind, NEW x \in Handle(k), Reset(t, k, x)
      PROVE  TypeOK' /\ ShapeInv'
  <2> DEFINE f == [Idle EXCEPT !.pc = "release", !.kind = k, !.cb = ptr[x], !.dst = x]
  <2>1. ptr[x] \in Object
    BY <1>8, HandleFacts, PtrType DEF TypeOK, Reset
  <2>2. f \in Frame
    BY <2>1, HandleFacts, IdleType DEF Frame, Label
  <2>5. FrameShape(f)
    BY <2>1, HandleFacts, ConstantsAssumption DEF Idle, FrameShape
  <2>3. call' \in [Thread -> Frame] /\ ShapeInv'
    BY <1>8, <2>2, <2>5, BeginType DEF Reset
  <2>4. ptr' \in [StrongHolder \cup WeakHolder -> Object \cup {NULL}]
    BY <1>8, HandleFacts, LocalFacts, PtrType DEF Reset, TypeOK
  <2> QED
    BY <1>8, <2>3, <2>4 DEF Reset, TypeOK
<1> QED
  BY <1>1, <1>2, <1>3, <1>4, <1>5, <1>6, <1>7, <1>8
  DEF Call, StrongCopy, WeakCopy, StrongMoveConstruct, WeakMoveConstruct,
      StrongSwap, WeakSwap, StrongMoveAssign, WeakMoveAssign, StrongReset, WeakReset

\* ... and over the steps that go on with one.
LEMMA StepType ==
  ASSUME TypeOK, ShapeInv, NEW t \in Thread, Step(t)
  PROVE  TypeOK' /\ ShapeInv'
<1> DEFINE f == call[t]
<1> DEFINE FrameStep == call' \in [Thread -> Frame] /\ ShapeInv'
<1>f. f \in Frame /\ FrameShape(f) /\ f.kind \in Kind
  BY DEF TypeOK, ShapeInv, Frame
<1>h. /\ Local(f.kind, t) \in StrongHolder \cup WeakHolder
      /\ Local("strong", t) \in StrongHolder \cup WeakHolder
      /\ Local("weak", t) \in StrongHolder \cup WeakHolder
  BY <1>f, LocalFacts DEF Kind
<1>c. ~At(t, "idle") => f.pc # "idle"
  BY DEF At
<1>1. CASE FinishConstruct(t)
  <2>1. FrameStep
    <3>1. FrameShape([f EXCEPT !.pc = "install"]) /\ "install" \in Label
      BY <1>1, <1>f DEF FinishConstruct, Runs, At, Frame, FrameShape, Label
    <3> QED
      BY <1>1, <3>1, GotoType DEF FinishConstruct
  <2> QED
    BY <1>1, <2>1 DEF FinishConstruct, TypeOK
<1>2. CASE ConstructThrows(t)
  <2> DEFINE g == [Idle EXCEPT !.pc = "release", !.kind = "weak", !.cb = f.cb]
  <2>1. f.cb \in Object
    BY <1>2, <1>f DEF ConstructThrows, Runs, At, FrameShape
  <2>2. g \in Frame
    BY <2>1, IdleType DEF Frame, Label, Kind
  <2>3. FrameShape(g)
    BY <2>1 DEF Idle, FrameShape
  <2>4. FrameStep
    BY <1>2, <2>2, <2>3, FrameUpdate DEF ConstructThrows
  <2>5. ptr' \in [StrongHolder \cup WeakHolder -> Object \cup {NULL}]
    BY <1>2, <2>1 DEF ConstructThrows, TypeOK
  <2> QED
    BY <1>2, <2>4, <2>5 DEF ConstructThrows, TypeOK
<1>3. CASE Load(t)
  <2> DEFINE g == [f EXCEPT !.pc = "cas", !.seen = refs[f.kind][f.cb]]
  <2>1. f.cb \in Object
    BY <1>3, <1>f DEF Load, Runs, At, FrameShape
  <2>2. g \in Frame
    BY <2>1, <1>f, CountType DEF Frame, Label
  <2>3. FrameShape(g)
    BY <1>3, <1>f DEF Load, Runs, At, Frame, FrameShape
  <2>4. FrameStep
    <3>1. call' = [call EXCEPT ![t] = g]
      BY <1>3 DEF Load, TypeOK
    <3> QED
      BY <2>2, <2>3, <3>1, FrameUpdate
  <2> QED
    BY <1>3, <2>4 DEF Load, TypeOK
<1>4. CASE Terminate(t)
  BY <1>4 DEF Terminate, TypeOK, ShapeInv
<1>5. CASE CasSucceeds(t)
  <2>1. f.cb \in Object
    BY <1>5, <1>f DEF CasSucceeds, Runs, At, FrameShape
  <2>2. FrameStep
    <3>1. FrameShape([f EXCEPT !.pc = "install"]) /\ "install" \in Label
      BY <1>5, <1>f DEF CasSucceeds, Runs, At, Frame, FrameShape, Label
    <3> QED
      BY <1>5, <3>1, GotoType DEF CasSucceeds
  <2>3. refs' \in [Kind -> [Object -> 0 .. MaxRefs]]
    BY <1>5, <2>1, <1>f, CountType DEF CasSucceeds
  <2>4. ptr' \in [StrongHolder \cup WeakHolder -> Object \cup {NULL}]
    BY <1>5, <2>1, <1>h DEF CasSucceeds, TypeOK
  <2> QED
    BY <1>5, <2>2, <2>3, <2>4 DEF CasSucceeds, TypeOK
<1>6. CASE CasFails(t)
  <2> DEFINE g == [f EXCEPT !.seen = refs[f.kind][f.cb]]
  <2>1. f.cb \in Object
    BY <1>6, <1>f DEF CasFails, Runs, At, FrameShape
  <2>2. g \in Frame
    BY <2>1, <1>f, CountType DEF Frame
  <2>3. FrameShape(g)
    BY <1>6, <1>f DEF CasFails, Runs, At, Frame, FrameShape
  <2>4. FrameStep
    <3>1. call' = [call EXCEPT ![t] = g]
      BY <1>6 DEF CasFails, TypeOK
    <3> QED
      BY <2>2, <2>3, <3>1, FrameUpdate
  <2> QED
    BY <1>6, <2>4 DEF CasFails, TypeOK
<1>7. CASE Install(t)
  <2> DEFINE old == ptr[f.dst]
  <2>1. f.dst \in Handle(f.kind) /\ ~f.moving
    BY <1>7, <1>f DEF Install, Runs, At, FrameShape
  <2>2. old \in Object \cup {NULL} /\ f.dst \in StrongHolder \cup WeakHolder
    BY <2>1, <1>f, HandleFacts, PtrType DEF TypeOK
  <2>3. ptr' \in [StrongHolder \cup WeakHolder -> Object \cup {NULL}]
    BY <1>7, <2>2, <1>h, PtrType DEF Install, TypeOK
  <2>4. ASSUME old = NULL PROVE FrameStep
    <3>1. Return(t) /\ ~At(t, "idle")
      BY <1>7, <2>4 DEF Install, Runs, At
    <3> QED
      BY <3>1, ReturnType
  <2>5. ASSUME old # NULL PROVE FrameStep
    <3> DEFINE g == [f EXCEPT !.pc = "release", !.cb = old]
    <3>1. g \in Frame
      BY <2>2, <1>f DEF Frame, Label
    <3>2. FrameShape(g)
      BY <1>7, <2>1, <2>2, <2>5, <1>f DEF Install, Runs, At, Frame, FrameShape
    <3>3. call' = [call EXCEPT ![t] = g]
      BY <1>7, <2>5 DEF Install, TypeOK
    <3> QED
      BY <3>1, <3>2, <3>3, FrameUpdate
  <2> QED
    BY <1>7, <2>3, <2>4, <2>5 DEF Install, TypeOK
<1>8. ASSUME NEW n \in 0 .. MaxRefs, LockSees(t, n), At(t, "lock_load") \/ At(t, "lock_cas")
      PROVE  FrameStep
  <2>1. CASE n = 0
    BY <1>8, <2>1, IdleType, FrameUpdate DEF LockSees
  <2>2. CASE n # 0
    <3> DEFINE g == [f EXCEPT !.pc = "lock_cas", !.seen = n]
    <3>1. g \in Frame
      BY <1>f DEF Frame, Label
    <3>2. FrameShape(g)
      BY <1>8, <2>2, <1>f DEF At, Frame, FrameShape
    <3> QED
      BY <1>8, <2>2, <3>1, <3>2, FrameUpdate DEF LockSees
  <2> QED
    BY <2>1, <2>2
<1>9. CASE LockLoad(t)
  <2>1. f.cb \in Object
    BY <1>9, <1>f DEF LockLoad, Runs, At, FrameShape
  <2>2. FrameStep
    BY <1>9, <1>8, <2>1, CountType DEF LockLoad, Runs, Kind
  <2> QED
    BY <1>9, <2>2 DEF LockLoad, TypeOK
<1>10. CASE LockCasSucceeds(t)
  <2>1. f.cb \in Object
    BY <1>10, <1>f DEF LockCasSucceeds, Runs, At, FrameShape
  <2>2. FrameStep
    <3>1. FrameShape([f EXCEPT !.pc = "lock_target"]) /\ "lock_target" \in Label
      BY <1>10, <1>f DEF LockCasSucceeds, Runs, At, Frame, FrameShape, Label
    <3> QED
      BY <1>10, <3>1, GotoType DEF LockCasSucceeds
  <2>3. refs' \in [Kind -> [Object -> 0 .. MaxRefs]]
    <3>1. "strong" \in Kind
      BY DEF Kind
    <3> QED
      BY <1>10, <2>1, <3>1, CountType DEF LockCasSucceeds
  <2>4. ptr' \in [StrongHolder \cup WeakHolder -> Object \cup {NULL}]
    BY <1>10, <2>1, <1>h DEF LockCasSucceeds, TypeOK
  <2> QED
    BY <1>10, <2>2, <2>3, <2>4 DEF LockCasSucceeds, TypeOK
<1>11. CASE LockCasFails(t)
  <2>1. f.cb \in Object
    BY <1>11, <1>f DEF LockCasFails, Runs, At, FrameShape
  <2>2. FrameStep
    BY <1>11, <1>8, <2>1, CountType DEF LockCasFails, Runs, Kind
  <2> QED
    BY <1>11, <2>2 DEF LockCasFails, TypeOK
<1>12. CASE LockTarget(t)
  <2>1. f.cb \in Object
    BY <1>12, <1>f DEF LockTarget, Runs, At, FrameShape
  <2>2. FrameStep
    <3>1. FrameShape([f EXCEPT !.pc = "install"]) /\ "install" \in Label
      BY <1>12, <1>f DEF LockTarget, Runs, At, Frame, FrameShape, Label
    <3> QED
      BY <1>12, <3>1, GotoType DEF LockTarget
  <2> QED
    BY <1>12, <2>1, <2>2, <1>h DEF LockTarget, TypeOK
<1>13. CASE Release(t)
  <2>1. f.cb \in Object
    BY <1>13, <1>f DEF Release, Runs, At, FrameShape
  <2>2. FrameStep
    <3> DEFINE last == IF f.kind = "strong" THEN "exchange" ELSE "free"
    <3>1. FrameShape([f EXCEPT !.pc = last]) /\ last \in Label
      BY <1>13, <1>f DEF Release, Runs, At, Frame, FrameShape, Label, Kind
    <3>2. CASE Goto(t, last)
      BY <3>1, <3>2, GotoType
    <3>3. CASE Return(t)
      BY <1>13, <3>3, ReturnType DEF Release, Runs, At
    <3> QED
      BY <1>13, <3>2, <3>3 DEF Release
  <2>3. refs' \in [Kind -> [Object -> 0 .. MaxRefs]]
    <3>1. refs' = [refs EXCEPT ![f.kind][f.cb] = Minus1(refs[f.kind][f.cb])]
      BY <1>13 DEF Release
    <3> QED
      BY <2>1, <3>1, <1>f, CountType
  <2>4. ptr' \in [StrongHolder \cup WeakHolder -> Object \cup {NULL}]
    BY <1>13, <1>h DEF Release, TypeOK
  <2> QED
    BY <1>13, <2>2, <2>3, <2>4 DEF Release, TypeOK
<1>14. CASE ExchangeTarget(t)
  <2>1. f.cb \in Object
    BY <1>14, <1>f DEF ExchangeTarget, Runs, At, FrameShape
  <2>2. FrameStep
    <3>1. FrameShape([f EXCEPT !.pc = "destroy"]) /\ "destroy" \in Label
      BY <1>14, <1>f DEF ExchangeTarget, Runs, At, Frame, FrameShape, Label
    <3>2. CASE Goto(t, "destroy")
      BY <3>1, <3>2, GotoType
    <3>3. CASE Return(t)
      BY <1>14, <3>3, ReturnType DEF ExchangeTarget, Runs, At
    <3> QED
      BY <1>14, <3>2, <3>3 DEF ExchangeTarget
  <2> QED
    BY <1>14, <2>1, <2>2 DEF ExchangeTarget, TypeOK
<1>15. CASE DestroyBase(t)
  <2>1. f.cb \in Object
    BY <1>15, <1>f DEF DestroyBase, Runs, At, FrameShape
  <2>2. FrameStep
    <3> DEFINE g == [f EXCEPT !.pc = "release", !.kind = "weak"]
    <3>1. g \in Frame
      BY <1>f DEF Frame, Label, Kind
    <3>2. FrameShape(g)
      BY <1>15, <2>1, <1>f DEF DestroyBase, Runs, At, Frame, FrameShape
    <3>3. call' = [call EXCEPT ![t] = g]
      BY <1>15 DEF DestroyBase, TypeOK
    <3> QED
      BY <3>1, <3>2, <3>3, FrameUpdate
  <2>3. ptr' \in [StrongHolder \cup WeakHolder -> Object \cup {NULL}]
    <3>1. f.cb \in StrongHolder \cup WeakHolder
      BY <2>1 DEF WeakHolder
    <3> QED
      BY <1>15, <3>1, <1>h, PtrType DEF DestroyBase, TypeOK
  <2> QED
    BY <1>15, <2>1, <2>2, <2>3 DEF DestroyBase, TypeOK
<1>16. CASE FreeBlock(t)
  <2>1. FrameStep
    BY <1>16, ReturnType DEF FreeBlock, Runs, At
  <2> QED
    BY <1>16, <2>1 DEF FreeBlock, TypeOK
<1>17. CASE Take(t)
  <2>1. FrameStep
    BY <1>17, IdleType, FrameUpdate DEF Take
  <2>2. PICK k \in Kind : f.dst \in Handle(k) /\ f.src \in Handle(k)
    BY <1>17, <1>f DEF Take, Runs, At, FrameShape
  <2>3. f.dst \in StrongHolder \cup WeakHolder /\ f.src \in StrongHolder \cup WeakHolder
    BY <2>2, HandleFacts
  <2>4. ptr' \in [StrongHolder \cup WeakHolder -> Object \cup {NULL}]
    BY <1>17, <2>3 DEF Take, TypeOK
  <2> QED
    BY <1>17, <2>1, <2>4 DEF Take, TypeOK
<1> QED
  BY <1>1, <1>2, <1>3, <1>4, <1>5, <1>6, <1>7, <1>9, <1>10, <1>11, <1>12, <1>13, <1>14,
     <1>15, <1>16, <1>17 DEF Step

\* The state of handles, control blocks, targets and running calls is what the
\* code declares, whatever the number of threads, targets and handles.
THEOREM TypeCorrect == Spec => []TypeOK
<1>1. TypeOK /\ ShapeInv /\ [Next]_vars => TypeOK' /\ ShapeInv'
  <2> SUFFICES ASSUME TypeOK, ShapeInv, [Next]_vars PROVE TypeOK' /\ ShapeInv'
    OBVIOUS
  <2>1. CASE Next
    BY <2>1, CallType, StepType DEF Next
  <2>2. CASE UNCHANGED vars
    BY <2>2 DEF vars, TypeOK, ShapeInv
  <2> QED
    BY <2>1, <2>2
<1> QED
  BY InitType, <1>1, PTL DEF Spec

-----------------------------------------------------------------------------
(* Counting owners. *)

\* The two kinds of holders are different places.
LEMMA HoldersDisjoint == StrongHolder \cap WeakHolder = {}
  BY ConstantsAssumption, LocalFacts DEF Kind, Locals, StrongHolder, WeakHolder

\* There are finitely many holders, so owners can be counted.
LEMMA HoldersFinite ==
  /\ IsFiniteSet(StrongHolder)
  /\ \A k \in Kind : IsFiniteSet(Holder(k))
<1>1. ASSUME NEW k \in Kind PROVE IsFiniteSet(Locals(k))
  <2> DEFINE f == [t \in Thread |-> Local(k, t)]
  <2>1. f \in [Thread -> Locals(k)] /\ \A l \in Locals(k) : \E t \in Thread : f[t] = l
    BY DEF Locals
  <2>2. f \in Surjection(Thread, Locals(k))
    BY <2>1, Fun_IsSurj
  <2> QED
    BY <2>2, FS_Surjection, ConstantsAssumption
<1>2. IsFiniteSet(Locals("strong")) /\ IsFiniteSet(Locals("weak"))
  BY <1>1 DEF Kind
<1>3. IsFiniteSet(StrongHolder)
  BY <1>2, FS_Union, ConstantsAssumption DEF StrongHolder
<1>4. IsFiniteSet(WeakHandle \cup Locals("weak"))
  BY <1>2, FS_Union, ConstantsAssumption
<1>5. IsFiniteSet(WeakHolder)
  BY <1>4, FS_Union, ConstantsAssumption DEF WeakHolder
<1> QED
  BY <1>3, <1>5 DEF Holder, Kind

\* The holders of an object are finitely many, so that they can be counted.
LEMMA OwnersFinite ==
  ASSUME NEW k \in Kind, NEW o
  PROVE  /\ IsFiniteSet(Owners(k, o))
         /\ Cardinality(Owners(k, o)) \in Nat
         /\ Cardinality(Owners(k, o)) = 0 <=> Owners(k, o) = {}
<1>1. Owners(k, o) \subseteq Holder(k)
  BY DEF Owners
<1>2. IsFiniteSet(Owners(k, o))
  BY <1>1, HoldersFinite, FS_Subset
<1> QED
  BY <1>2, FS_CardinalityType, FS_EmptySet

\* A holder that takes its first reference adds one to the count of its target.
LEMMA AddOwner ==
  ASSUME ptr \in [StrongHolder \cup WeakHolder -> Object \cup {NULL}],
         NEW k \in Kind, NEW x \in Holder(k), NEW o \in Object,
         ptr[x] = NULL, ptr' = [ptr EXCEPT ![x] = o]
  PROVE  /\ Cardinality(Owners(k, o)') = Cardinality(Owners(k, o)) + 1
         /\ \A j \in Kind, p \in Object : j # k \/ p # o => Owners(j, p)' = Owners(j, p)
<1>1. x \in StrongHolder \cup WeakHolder /\ NULL \notin Object
  BY ConstantsAssumption DEF Holder
<1>2. Owners(k, o)' = Owners(k, o) \cup {x} /\ x \notin Owners(k, o)
  BY <1>1 DEF Owners, Holder
<1>3. Cardinality(Owners(k, o) \cup {x}) = Cardinality(Owners(k, o)) + 1
  BY <1>2, OwnersFinite, FS_AddElement
<1>4. \A j \in Kind, p \in Object : j # k \/ p # o => Owners(j, p)' = Owners(j, p)
  BY <1>1, HoldersDisjoint DEF Owners, Holder, Kind
<1> QED
  BY <1>2, <1>3, <1>4

\* A holder that gives its reference up takes one from the count of its target.
LEMMA DropOwner ==
  ASSUME ptr \in [StrongHolder \cup WeakHolder -> Object \cup {NULL}],
         NEW k \in Kind, NEW x \in Holder(k), NEW o \in Object,
         ptr[x] = o, ptr' = [ptr EXCEPT ![x] = NULL]
  PROVE  /\ Cardinality(Owners(k, o)') = Cardinality(Owners(k, o)) - 1
         /\ \A j \in Kind, p \in Object : j # k \/ p # o => Owners(j, p)' = Owners(j, p)
<1>1. x \in StrongHolder \cup WeakHolder /\ NULL \notin Object
  BY ConstantsAssumption DEF Holder
<1>2. Owners(k, o)' = Owners(k, o) \ {x} /\ x \in Owners(k, o)
  BY <1>1 DEF Owners, Holder
<1>3. Cardinality(Owners(k, o) \ {x}) = Cardinality(Owners(k, o)) - 1
  BY <1>2, OwnersFinite, FS_RemoveElement
<1>4. \A j \in Kind, p \in Object : j # k \/ p # o => Owners(j, p)' = Owners(j, p)
  BY <1>1, HoldersDisjoint DEF Owners, Holder, Kind
<1> QED
  BY <1>2, <1>3, <1>4

\* A reference that moves from one holder to another of its kind changes no count.
LEMMA MoveOwner ==
  ASSUME NEW k \in Kind, NEW a \in Holder(k), NEW b \in Holder(k), NEW o \in Object,
         ptr[a] = o, ptr[b] # o, ptr'[a] # o, ptr'[b] = o,
         \A z \in Holder(k) \ {a, b} : ptr'[z] = ptr[z]
  PROVE  Cardinality(Owners(k, o)') = Cardinality(Owners(k, o))
<1> DEFINE S == Owners(k, o)
<1>1. S' = (S \ {a}) \cup {b} /\ a \in S /\ b \notin S
  BY DEF Owners
<1>2. Cardinality(S \ {a}) = Cardinality(S) - 1 /\ IsFiniteSet(S \ {a})
  BY <1>1, OwnersFinite, FS_RemoveElement
<1>3. Cardinality((S \ {a}) \cup {b}) = Cardinality(S \ {a}) + 1
  BY <1>1, <1>2, FS_AddElement
<1>4. Cardinality(S) \in Nat
  BY OwnersFinite
<1> QED
  BY <1>1, <1>2, <1>3, <1>4

\* Two holders of a kind that exchange their references change no count.
LEMMA SwapOwners ==
  ASSUME ptr \in [StrongHolder \cup WeakHolder -> Object \cup {NULL}],
         NEW k \in Kind, NEW x \in Holder(k), NEW y \in Holder(k),
         ptr' = Swapped(x, y)
  PROVE  \A j \in Kind, o \in Object :
           Cardinality(Owners(j, o)') = Cardinality(Owners(j, o))
<1>1. x \in StrongHolder \cup WeakHolder /\ y \in StrongHolder \cup WeakHolder
  BY DEF Holder
<1>2. ASSUME NEW o \in Object
      PROVE  Cardinality(Owners(k, o)') = Cardinality(Owners(k, o))
  <2>1. /\ ptr'[x] = ptr[y] /\ ptr'[y] = ptr[x]
        /\ \A z \in Holder(k) \ {x, y} : ptr'[z] = ptr[z]
    BY <1>1 DEF Swapped, Holder
  <2>2. CASE ptr[x] = o /\ ptr[y] # o
    BY <2>1, <2>2, MoveOwner
  <2>3. CASE ptr[y] = o /\ ptr[x] # o
    BY <2>1, <2>3, MoveOwner
  <2>4. CASE ptr[x] = o <=> ptr[y] = o
    <3>1. Owners(k, o)' = Owners(k, o)
      BY <2>1, <2>4 DEF Owners
    <3> QED
      BY <3>1
  <2> QED
    BY <2>2, <2>3, <2>4
<1>3. ASSUME NEW j \in Kind, NEW o \in Object, j # k
      PROVE  Owners(j, o)' = Owners(j, o)
  BY <1>1, <1>3, HoldersDisjoint DEF Owners, Holder, Kind, Swapped
<1> QED
  BY <1>2, <1>3

-----------------------------------------------------------------------------
(* What the invariant says, in the forms the steps use. *)

\* A strong count of zero means that nobody refers to the target.
LEMMA NoOwner ==
  ASSUME IInv, NEW o \in Object, life[o] # "aborted"
  PROVE  refs["strong"][o] = 0 <=> \A x \in StrongHolder : ptr[x] # o
<1>1. refs["strong"][o] = 0 <=> Owners("strong", o) = {}
  BY OwnersFinite DEF IInv, CountInv, Kind
<1> QED
  BY <1>1 DEF Owners, Holder

\* A weak count of zero means that nobody refers to the control block.
LEMMA NoWatcher ==
  ASSUME IInv, NEW o \in Object
  PROVE  refs["weak"][o] = 0 <=> \A x \in WeakHolder : ptr[x] # o
<1>1. refs["weak"][o] = 0 <=> Owners("weak", o) = {}
  BY OwnersFinite DEF IInv, CountInv, Kind
<1> QED
  BY <1>1 DEF Owners, Holder

\* A thread that is not constructing holds strong references to live targets only.
LEMMA OwnedIsAlive ==
  ASSUME IInv, NEW x \in StrongHolder, ptr[x] # NULL,
         \A t \in Thread : x = Local("strong", t) => ~At(t, "ctor")
  PROVE  ptr[x] \in Object /\ life[ptr[x]] = "alive"
  BY DEF IInv, TypeOK, StrongOwnerInv

\* The source of a running call, and what it is known to refer to.
LEMMA SourceIsAlive ==
  ASSUME IInv, NEW t \in Thread,
         call[t].pc \in {"load", "cas", "lock_load", "lock_cas", "lock_target"}
  PROVE  /\ call[t].cb \in Object /\ ptr[call[t].src] = call[t].cb
         /\ call[t].src \in StrongHandle => life[call[t].cb] = "alive"
         /\ call[t].src \in WeakHandle =>
              life[call[t].cb] \in {"alive", "destroying", "destroyed"}
         /\ call[t].src \in StrongHandle \cup WeakHandle
         /\ block[call[t].cb] = "live"
<1> DEFINE f == call[t]
<1>1. f.cb \in Object /\ ptr[f.src] = f.cb /\ f.cb # NULL
  BY ConstantsAssumption DEF IInv, ShapeInv, FrameShape, SourceInv
<1>2. f.src \in StrongHandle \cup WeakHandle
  BY DEF IInv, ShapeInv, FrameShape
<1>3. ASSUME f.src \in StrongHandle PROVE life[f.cb] = "alive"
  BY <1>1, <1>3, LocalFacts, OwnedIsAlive DEF StrongHolder, Kind
<1>4. ASSUME f.src \in WeakHandle
      PROVE  life[f.cb] \in {"alive", "destroying", "destroyed"} /\ block[f.cb] = "live"
  BY <1>1, <1>4 DEF IInv, WeakOwnerInv, WeakHolder
<1>5. ASSUME life[f.cb] = "alive" PROVE block[f.cb] = "live"
  BY <1>1, <1>5 DEF IInv, ObjectInv, TypeOK
<1> QED
  BY <1>1, <1>2, <1>3, <1>4, <1>5

-----------------------------------------------------------------------------
(* What a new frame owes to the other calls. *)

Busy == {"ctor", "exchange", "destroy", "free"}

\* The contract on handles is kept by a call that goes on with its handles, by one
\* that returns, and by one that begins with handles it may use.
LEMMA RaceStep ==
  ASSUME TypeOK, ShapeInv, RaceInv, NEW t \in Thread, NEW g \in Frame, FrameShape(g),
         call' = [call EXCEPT ![t] = g],
         \/ g.dst = call[t].dst /\ g.src = call[t].src /\ g.moving = call[t].moving
         \/ g.dst = NULL /\ g.src = NULL
         \/ /\ Exclusive(g.dst)
            /\ g.src # NULL => IF g.moving THEN Exclusive(g.src) ELSE Shared(g.src)
  PROVE  RaceInv'
<1> DEFINE f == call[t]
<1>1. \A u \in Thread : call'[u] = IF u = t THEN g ELSE call[u]
  BY DEF TypeOK
<1>2. \A u \in Thread : call[u].moving => call[u].src # NULL
  BY HandleFacts DEF ShapeInv, FrameShape
<1>3. g.moving => g.src # NULL
  BY HandleFacts DEF FrameShape
<1>4. CASE g.dst = f.dst /\ g.src = f.src /\ g.moving = f.moving
  BY <1>1, <1>4 DEF RaceInv
<1>5. CASE g.dst = NULL /\ g.src = NULL
  BY <1>1, <1>2, <1>3, <1>5 DEF RaceInv
<1>6. CASE /\ Exclusive(g.dst)
           /\ g.src # NULL => IF g.moving THEN Exclusive(g.src) ELSE Shared(g.src)
  BY <1>1, <1>2, <1>3, <1>6 DEF RaceInv, Exclusive, Shared
<1> QED
  BY <1>4, <1>5, <1>6

\* Nobody else is at the stage that a new frame is at.
LEMMA UniqueStep ==
  ASSUME TypeOK, UniqueInv, NEW t \in Thread, NEW g \in Frame,
         call' = [call EXCEPT ![t] = g],
         \A u \in Thread \ {t} : call[u].cb = g.cb =>
           /\ ~(g.pc = "ctor" /\ At(u, "ctor"))
           /\ ~(g.pc \in {"exchange", "destroy"} /\ call[u].pc \in {"exchange", "destroy"})
           /\ ~(g.pc = "free" /\ At(u, "free"))
  PROVE  UniqueInv'
<1>1. \A u \in Thread : call'[u] = IF u = t THEN g ELSE call[u]
  BY DEF TypeOK
<1> QED
  BY <1>1 DEF UniqueInv, At

\* A call that none of the obligations of DrainInv rests on may go anywhere.
LEMMA DrainStep ==
  ASSUME TypeOK, DrainInv, NEW t \in Thread, NEW g \in Frame,
         call' = [call EXCEPT ![t] = g], UNCHANGED <<refs, block, life>>,
         call[t].pc \notin Busy
  PROVE  DrainInv'
<1>1. \A u \in Thread : call'[u] = IF u = t THEN g ELSE call[u]
  BY DEF TypeOK
<1>2. ASSUME NEW u \in Thread, call[u].pc \in Busy PROVE call'[u] = call[u]
  BY <1>1, <1>2
<1> QED
  BY <1>2 DEF DrainInv, At, Busy

\* What calls know of the handles they read and move to, when no handle changes.
LEMMA SourceStep ==
  ASSUME IInv, NEW t \in Thread, NEW g \in Frame, call' = [call EXCEPT ![t] = g],
         \A x \in StrongHandle \cup WeakHandle : ptr'[x] = ptr[x],
         g.pc \notin {"load", "cas", "lock_load", "lock_cas", "lock_target"},
         g.moving => call[t].moving /\ g.dst = call[t].dst
  PROVE  SourceInv'
<1>1. \A u \in Thread : call'[u] = IF u = t THEN g ELSE call[u]
  BY DEF IInv, TypeOK
<1>2. ASSUME NEW u \in Thread,
             call[u].pc \in {"load", "cas", "lock_load", "lock_cas", "lock_target"}
      PROVE  ptr'[call[u].src] = call[u].cb
  BY <1>2, SourceIsAlive
<1>3. ASSUME NEW u \in Thread, call[u].moving
      PROVE  ptr'[call[u].dst] = NULL
  BY <1>3, HandleFacts DEF IInv, ShapeInv, FrameShape, SourceInv
<1> QED
  BY <1>1, <1>2, <1>3 DEF SourceInv

\* The references in the locals of the other calls, when a step leaves those alone.
LEMMA LocalStep ==
  ASSUME IInv, NEW t \in Thread, NEW g \in Frame, call' = [call EXCEPT ![t] = g],
         \A j \in Kind, u \in Thread \ {t} : ptr'[Local(j, u)] = ptr[Local(j, u)],
         Carries(t)'
  PROVE  LocalInv'
<1>1. ASSUME NEW u \in Thread \ {t} PROVE Carries(u)'
  <2>1. call[u].kind \in Kind /\ call'[u] = call[u]
    BY DEF IInv, TypeOK, Frame
  <2> QED
    BY <2>1 DEF IInv, LocalInv, Carries, OnlyLocal, NoLocals
<1> QED
  BY <1>1 DEF LocalInv

\* A step that changes nothing but the frame of the call it belongs to.
LEMMA CallOnly ==
  ASSUME IInv, TypeOK', ShapeInv', NEW t \in Thread, NEW g \in Frame,
         call' = [call EXCEPT ![t] = g], RaceInv',
         UNCHANGED <<refs, target, block, life, ptr>>,
         call[t].pc \notin Busy, g.pc \notin Busy, ~g.moving,
         Carries(t)',
         g.pc \in {"load", "cas", "lock_load", "lock_cas", "lock_target"} =>
           ptr[g.src] = g.cb,
         g.pc = "install" => ptr[Local("weak", t)] = NULL
  PROVE  IInv'
<1>i. /\ TypeOK /\ ShapeInv /\ CountInv /\ StrongOwnerInv /\ WeakOwnerInv /\ ObjectInv
      /\ LocalInv /\ SourceInv /\ StageInv /\ RaceInv /\ UniqueInv /\ DrainInv
  BY DEF IInv
<1>c. \A u \in Thread : call'[u] = IF u = t THEN g ELSE call[u]
  BY <1>i DEF TypeOK
<1>1. CountInv' /\ WeakOwnerInv' /\ ObjectInv'
  BY <1>i DEF CountInv, WeakOwnerInv, ObjectInv, Owners
<1>2. StrongOwnerInv'
  BY <1>i, <1>c DEF StrongOwnerInv, At, Busy
<1>3. LocalInv'
  BY <1>i, <1>c DEF LocalInv, Carries, OnlyLocal, NoLocals
<1>4. SourceInv'
  BY <1>i, <1>c DEF SourceInv
<1>5. StageInv'
  BY <1>i, <1>c DEF StageInv, At, Busy
<1>6. UniqueInv'
  BY <1>i, UniqueStep DEF Busy
<1>7. DrainInv'
  BY <1>i, DrainStep
<1> QED
  BY <1>1, <1>2, <1>3, <1>4, <1>5, <1>6, <1>7 DEF IInv

\* A step that exchanges the references of two holders of a kind: a handle that no
\* other call uses, and another such handle or a local of the call.
LEMMA SwapStep ==
  ASSUME IInv, TypeOK', ShapeInv', NEW t \in Thread, NEW g \in Frame,
         call' = [call EXCEPT ![t] = g], RaceInv',
         NEW k \in Kind, NEW x \in Handle(k), NEW y \in Handle(k) \cup {Local(k, t)},
         ptr' = Swapped(x, y),
         UNCHANGED <<refs, target, block, life>>,
         call[t].pc \notin Busy, g.pc \in {"idle", "release", "take"},
         \A u \in Thread \ {t} :
           {x, y} \cap Handle(k) \cap {call[u].dst, call[u].src} = {},
         k = "weak" /\ ptr[y] # NULL => life[ptr[y]] \in {"alive", "destroying", "destroyed"},
         Carries(t)',
         g.moving => ptr'[g.dst] = NULL
  PROVE  IInv'
<1>i. /\ TypeOK /\ ShapeInv /\ CountInv /\ StrongOwnerInv /\ WeakOwnerInv /\ ObjectInv
      /\ LocalInv /\ SourceInv /\ StageInv /\ RaceInv /\ UniqueInv /\ DrainInv
  BY DEF IInv
<1>c. \A u \in Thread : call'[u] = IF u = t THEN g ELSE call[u]
  BY <1>i DEF TypeOK
<1>h. /\ x \in Holder(k) /\ y \in Holder(k) /\ x \notin Object /\ y \notin Object
      /\ x \in StrongHolder \cup WeakHolder /\ y \in StrongHolder \cup WeakHolder
  BY HandleFacts, LocalFacts
<1>p. /\ ptr'[x] = ptr[y] /\ ptr'[y] = ptr[x]
      /\ \A z \in StrongHolder \cup WeakHolder : z # x /\ z # y => ptr'[z] = ptr[z]
  BY <1>i, <1>h DEF Swapped, TypeOK
<1>l. \A j \in Kind, u \in Thread \ {t} : ptr'[Local(j, u)] = ptr[Local(j, u)]
  BY <1>p, <1>h, HandleFacts, LocalFacts DEF Kind, Handle
<1>1. CountInv'
  BY <1>i, <1>h, SwapOwners DEF CountInv, TypeOK, Kind
<1>2. StrongOwnerInv'
  <2>1. ASSUME NEW z \in StrongHolder, ptr[z] # NULL, z \in {x, y}
        PROVE  life[ptr[z]] = "alive"
    BY <2>1, HandleFacts, LocalFacts, OwnedIsAlive DEF At, Busy, Kind, Handle
  <2>2. ASSUME NEW z \in StrongHolder, z \in {x, y} PROVE {x, y} \subseteq StrongHolder
    BY <2>2, <1>h, HoldersDisjoint DEF Holder, Kind
  <2>3. ASSUME NEW z \in StrongHolder, ptr'[z] # NULL, z \in {x, y}
        PROVE  life[ptr'[z]] = "alive"
    BY <2>1, <2>2, <2>3, <1>p
  <2>4. ASSUME NEW u \in Thread, At(u, "ctor") PROVE call'[u] = call[u] /\ At(u, "ctor")'
    BY <2>4, <1>c DEF At, Busy
  <2> QED
    BY <2>3, <2>4, <1>i, <1>p DEF StrongOwnerInv
<1>3. WeakOwnerInv'
  <2>1. ASSUME NEW z \in WeakHolder, z \in {x, y} PROVE k = "weak" /\ {x, y} \subseteq WeakHolder
    BY <2>1, <1>h, HoldersDisjoint DEF Holder, Kind
  <2>2. \A z \in WeakHolder : ptr'[z] # NULL => block'[ptr'[z]] = "live"
    BY <2>1, <1>i, <1>p DEF WeakOwnerInv
  <2>3. ASSUME NEW z \in WeakHandle, ptr'[z] # NULL
        PROVE  life[ptr'[z]] \in {"alive", "destroying", "destroyed"}
    <3>1. z \in WeakHolder
      BY DEF WeakHolder
    <3>2. CASE z = x
      BY <3>1, <3>2, <2>1, <2>3, <1>p
    <3>3. CASE z = y
      BY <3>1, <3>3, <2>1, <2>3, <1>i, <1>p DEF WeakOwnerInv, Handle
    <3>4. CASE z \notin {x, y}
      BY <3>1, <3>4, <2>3, <1>i, <1>p DEF WeakOwnerInv
    <3> QED
      BY <3>2, <3>3, <3>4
  <2> QED
    BY <2>2, <2>3 DEF WeakOwnerInv
<1>4. ObjectInv'
  BY <1>i, <1>h, <1>p DEF ObjectInv, WeakHolder
<1>5. LocalInv'
  BY <1>i, <1>c, <1>l DEF LocalInv, Carries, OnlyLocal, NoLocals, TypeOK, Frame
<1>6. SourceInv'
  <2>1. ASSUME NEW u \in Thread \ {t}, NEW z \in StrongHandle \cup WeakHandle,
               z \in {call[u].dst, call[u].src}
        PROVE  ptr'[z] = ptr[z]
    <3>1. z \in StrongHolder \cup WeakHolder /\ z # Local(k, t)
      BY LocalFacts DEF StrongHolder, WeakHolder
    <3>2. z # x /\ (y \in Handle(k) => z # y)
      BY <2>1
    <3> QED
      BY <1>p, <3>1, <3>2
  <2>2. ASSUME NEW u \in Thread \ {t},
               call[u].pc \in {"load", "cas", "lock_load", "lock_cas", "lock_target"}
        PROVE  ptr'[call[u].src] = call[u].cb
    BY <2>1, <2>2, SourceIsAlive
  <2>3. ASSUME NEW u \in Thread \ {t}, call[u].moving
        PROVE  ptr'[call[u].dst] = NULL
    BY <2>1, <2>3, <1>i, HandleFacts DEF ShapeInv, FrameShape, SourceInv
  <2> QED
    BY <2>2, <2>3, <1>c DEF SourceInv
<1>7. StageInv'
  BY <1>i, <1>c, <1>l DEF StageInv, At, Kind
<1>8. UniqueInv'
  BY <1>i, UniqueStep DEF Busy
<1>9. DrainInv'
  BY <1>i, DrainStep
<1> QED
  BY <1>1, <1>2, <1>3, <1>4, <1>5, <1>6, <1>7, <1>8, <1>9 DEF IInv

\* A step that takes a reference for the call's local from the handle it reads.
LEMMA AddStep ==
  ASSUME IInv, TypeOK', ShapeInv', NEW t \in Thread, NEW k \in Kind, NEW o \in Object,
         call[t].kind = k, call[t].cb = o, call[t].pc \in {"cas", "lock_cas"},
         NEW l \in {"install", "lock_target"}, l = "lock_target" => k = "strong",
         Goto(t, l),
         refs[k][o] # 0, refs' = [refs EXCEPT ![k][o] = refs[k][o] + 1],
         ptr' = [ptr EXCEPT ![Local(k, t)] = o],
         UNCHANGED <<target, block, life>>,
         k = "strong" => life[o] = "alive"
  PROVE  IInv'
<1> DEFINE f == call[t]
<1> DEFINE g == [f EXCEPT !.pc = l]
<1>i. /\ TypeOK /\ ShapeInv /\ CountInv /\ StrongOwnerInv /\ WeakOwnerInv /\ ObjectInv
      /\ LocalInv /\ SourceInv /\ StageInv /\ RaceInv /\ UniqueInv /\ DrainInv
  BY DEF IInv
<1>f. f \in Frame
  BY <1>i DEF TypeOK
<1>g. /\ g \in Frame /\ call' = [call EXCEPT ![t] = g]
      /\ g.pc = l /\ g.kind = k /\ g.cb = o
      /\ g.dst = f.dst /\ g.src = f.src /\ g.moving = f.moving
  BY <1>i, <1>f DEF TypeOK, Frame, Label, Goto
<1> HIDE DEF g
<1>c. \A u \in Thread : call'[u] = IF u = t THEN g ELSE call[u]
  BY <1>i, <1>g DEF TypeOK
<1>s. /\ o \in Object /\ ptr[f.src] = o /\ f.src \in StrongHandle \cup WeakHandle
      /\ life[o] \in {"alive", "destroying", "destroyed"} /\ block[o] = "live"
  BY <1>i, SourceIsAlive
<1>h. /\ Local(k, t) \in Holder(k) /\ Local(k, t) \in StrongHolder \cup WeakHolder
      /\ Local(k, t) \notin Object \cup StrongHandle \cup WeakHandle
  BY <1>f, LocalFacts
<1>n. ptr[Local(k, t)] = NULL
  BY <1>i, <1>f DEF LocalInv, Carries, NoLocals
<1>p. /\ ptr'[Local(k, t)] = o
      /\ \A z \in StrongHolder \cup WeakHolder : z # Local(k, t) => ptr'[z] = ptr[z]
  BY <1>i, <1>h DEF TypeOK
<1>r. /\ refs'[k][o] = refs[k][o] + 1
      /\ \A j \in Kind, q \in Object : j # k \/ q # o => refs'[j][q] = refs[j][q]
      /\ refs[k][o] \in Nat
  BY <1>i, <1>f, <1>s DEF TypeOK
<1>l. \A j \in Kind, u \in Thread : u # t \/ j # k => ptr'[Local(j, u)] = ptr[Local(j, u)]
  BY <1>p, <1>f, LocalFacts
<1>1. CountInv'
  <2>1. /\ Cardinality(Owners(k, o)') = Cardinality(Owners(k, o)) + 1
        /\ \A j \in Kind, q \in Object : j # k \/ q # o => Owners(j, q)' = Owners(j, q)
    <3>1. ptr \in [StrongHolder \cup WeakHolder -> Object \cup {NULL}]
      BY <1>i DEF TypeOK
    <3>2. ptr' = [ptr EXCEPT ![Local(k, t)] = o] /\ k \in Kind /\ o \in Object
      OBVIOUS
    <3> QED
      BY ONLY <1>h, <1>n, <3>1, <3>2, AddOwner, ZenonT(60)
  <2> QED
    BY <1>i, <1>f, <1>s, <1>r, <2>1 DEF CountInv, Kind
<1>2. StrongOwnerInv'
  <2>1. ASSUME NEW u \in Thread, At(u, "ctor") PROVE At(u, "ctor")' /\ call'[u] = call[u]
    BY <2>1, <1>c DEF At
  <2>2. Local(k, t) \in StrongHolder => k = "strong"
    BY <1>f, <1>h, HoldersDisjoint DEF Kind, Holder
  <2> QED
    BY <1>i, <1>p, <2>1, <2>2 DEF StrongOwnerInv
<1>3. WeakOwnerInv'
  BY <1>i, <1>h, <1>p, <1>s DEF WeakOwnerInv, WeakHolder
<1>4. ObjectInv'
  BY <1>i, <1>h, <1>p DEF ObjectInv, WeakHolder
<1>5. LocalInv'
  <2>1. \A j \in Kind : ptr[Local(j, t)] = NULL
    BY <1>i DEF LocalInv, Carries, NoLocals
  <2>2. OnlyLocal(t, k, o)'
    BY <1>p, <1>l, <2>1, <1>c, <1>f DEF OnlyLocal
  <2>3. Carries(t)'
    BY <2>2, <1>c, <1>g, <1>p DEF Carries, OnlyLocal
  <2>4. ASSUME NEW u \in Thread, u # t PROVE Carries(u)'
    <3>1. call[u].kind \in Kind /\ call'[u] = call[u]
      BY <1>i, <1>c, <2>4 DEF TypeOK, Frame
    <3> QED
      BY <1>i, <1>l, <2>4, <3>1 DEF LocalInv, Carries, OnlyLocal, NoLocals
  <2> QED
    BY <2>3, <2>4 DEF LocalInv
<1>6. SourceInv'
  <2>1. ASSUME NEW u \in Thread,
               call[u].pc \in {"load", "cas", "lock_load", "lock_cas", "lock_target"}
        PROVE  ptr'[call[u].src] = call[u].cb
    <3>1. call[u].src \in StrongHandle \cup WeakHandle
      BY <2>1, SourceIsAlive
    <3> QED
      BY <2>1, <3>1, <1>h, <1>i, <1>p DEF SourceInv, StrongHolder, WeakHolder
  <2>2. ASSUME NEW u \in Thread, call[u].moving
        PROVE  ptr'[call[u].dst] = NULL
    <3>1. call[u].dst \in StrongHandle \cup WeakHandle
      BY <2>2, <1>i, HandleFacts DEF ShapeInv, FrameShape
    <3> QED
      BY <2>2, <3>1, <1>h, <1>i, <1>p DEF SourceInv, StrongHolder, WeakHolder
  <2> QED
    BY <2>1, <2>2, <1>c, <1>g DEF SourceInv
<1>7. StageInv'
  <2>1. ASSUME NEW u \in Thread, At(u, "exchange") \/ At(u, "free")
        PROVE  /\ call'[u] = call[u] /\ call[u].cb \in Object
               /\ At(u, "exchange") /\ call[u].cb = o => k # "strong"
               /\ At(u, "free") /\ call[u].cb = o => k # "weak"
    BY <2>1, <1>i, <1>c DEF At, StageInv, ShapeInv, FrameShape
  <2>2. ASSUME NEW u \in Thread \ {t}
        PROVE  call'[u] = call[u] /\ ptr'[Local("weak", u)] = ptr[Local("weak", u)]
    BY <1>c, <1>l DEF Kind
  <2>3. call'[t].pc = l /\ call'[t].kind = k
    BY <1>c, <1>g
  <2> QED
    BY <1>i, <1>p, <1>r, <1>s, <2>1, <2>2, <2>3 DEF StageInv, At, Kind
<1>8. RaceInv'
  <2>1. FrameShape(g)
    BY <1>c DEF ShapeInv
  <2> QED
    BY <1>i, <1>g, <2>1, RaceStep
<1>9. UniqueInv'
  BY <1>i, <1>g, UniqueStep
<1>10. DrainInv'
  BY <1>i, <1>c, <1>r, <1>s DEF DrainInv, At, Kind
<1> QED
  BY <1>1, <1>2, <1>3, <1>4, <1>5, <1>6, <1>7, <1>8, <1>9, <1>10 DEF IInv

-----------------------------------------------------------------------------
(* The steps, one lemma each. *)

\* The frame that Return leaves, whatever the release was part of.
LEMMA ReturnFrame ==
  ASSUME IInv, NEW t \in Thread, Return(t), ~At(t, "idle")
  PROVE  \E g \in Frame :
           /\ call' = [call EXCEPT ![t] = g]
           /\ g.pc = IF call[t].moving THEN "take" ELSE "idle"
           /\ g.moving = call[t].moving
           /\ g.moving => g.dst = call[t].dst /\ g.src = call[t].src
           /\ ~g.moving => g.dst = NULL /\ g.src = NULL
<1> DEFINE g == IF call[t].moving THEN [call[t] EXCEPT !.pc = "take"] ELSE Idle
<1>1. call[t] \in Frame
  BY DEF IInv, TypeOK
<1>2. g \in Frame
  BY <1>1, IdleType DEF Frame, Label
<1>3. /\ g.pc = IF call[t].moving THEN "take" ELSE "idle"
      /\ g.moving = call[t].moving
      /\ g.moving => g.dst = call[t].dst /\ g.src = call[t].src
      /\ ~g.moving => g.dst = NULL /\ g.src = NULL
  BY <1>1 DEF Frame, Idle
<1>4. call' = [call EXCEPT ![t] = g]
  BY DEF Return
<1> QED
  BY <1>2, <1>3, <1>4

\* Giving up a reference, which is one of those that are counted.
LEMMA ReleaseInv ==
  ASSUME IInv, NEW t \in Thread, Release(t)
  PROVE  IInv' /\ refs[call[t].kind][call[t].cb] # 0
<1> DEFINE f == call[t]
<1>i. /\ TypeOK /\ ShapeInv /\ CountInv /\ StrongOwnerInv /\ WeakOwnerInv /\ ObjectInv
      /\ LocalInv /\ SourceInv /\ StageInv /\ RaceInv /\ UniqueInv /\ DrainInv
  BY DEF IInv
<1>t. TypeOK' /\ ShapeInv'
  BY <1>i, StepType DEF Step
<1>f. f \in Frame /\ At(t, "release") /\ f.cb \in Object
  BY <1>i DEF TypeOK, Release, Runs, At, ShapeInv, FrameShape
<1>k. PICK k \in Kind : f.kind = k
  BY <1>f DEF Frame
<1>o. PICK o \in Object : f.cb = o
  BY <1>f
<1>h. /\ Local(k, t) \in Holder(k) /\ Local(k, t) \in StrongHolder \cup WeakHolder
      /\ Local(k, t) \notin Object \cup StrongHandle \cup WeakHandle
  BY LocalFacts
<1>n. ptr[Local(k, t)] = o /\ \A j \in Kind \ {k} : ptr[Local(j, t)] = NULL
  BY <1>i, <1>f, <1>k, <1>o DEF LocalInv, Carries, OnlyLocal, At
<1>p. /\ ptr' = [ptr EXCEPT ![Local(k, t)] = NULL]
      /\ ptr'[Local(k, t)] = NULL
      /\ \A z \in StrongHolder \cup WeakHolder : z # Local(k, t) => ptr'[z] = ptr[z]
  BY <1>i, <1>h, <1>k DEF TypeOK, Release
<1>l. \A j \in Kind, u \in Thread : u # t \/ j # k => ptr'[Local(j, u)] = ptr[Local(j, u)]
  BY <1>p, LocalFacts
<1>s. /\ k = "strong" => life[o] = "alive"
      /\ k = "weak" => block[o] = "live"
  <2>1. NULL \notin Object
    BY ConstantsAssumption
  <2>2. ASSUME k = "strong" PROVE life[o] = "alive"
    <3>1. \A u \in Thread : Local(k, t) = Local("strong", u) => ~At(u, "ctor")
      BY <1>f, LocalFacts DEF At, Kind
    <3>2. Local(k, t) \in StrongHolder
      BY <2>2, <1>h DEF Holder
    <3> QED
      BY <1>i, <1>n, <2>1, <3>1, <3>2, OwnedIsAlive
  <2>3. ASSUME k = "weak" PROVE block[o] = "live"
    BY <1>i, <1>n, <1>h, <2>1, <2>3 DEF WeakOwnerInv, Holder
  <2> QED
    BY <2>2, <2>3
<1>1. /\ Cardinality(Owners(k, o)') = Cardinality(Owners(k, o)) - 1
      /\ \A j \in Kind, q \in Object : j # k \/ q # o => Owners(j, q)' = Owners(j, q)
  <2>1. ptr \in [StrongHolder \cup WeakHolder -> Object \cup {NULL}]
    BY <1>i DEF TypeOK
  <2>2. ptr' = [ptr EXCEPT ![Local(k, t)] = NULL] /\ ptr[Local(k, t)] = o
    BY <1>n, <1>p
  <2>3. Local(k, t) \in Holder(k)
    BY <1>h
  <2> QED
    BY <2>1, <2>2, <2>3, DropOwner
<1>c. refs[k][o] = Cardinality(Owners(k, o)) /\ refs[k][o] \in Nat /\ refs[k][o] # 0
  <2>1. refs[k][o] = Cardinality(Owners(k, o))
    BY <1>i, <1>s DEF CountInv, Kind
  <2>2. Local(k, t) \in Owners(k, o)
    BY <1>h, <1>n DEF Owners
  <2> QED
    BY <2>1, <2>2, OwnersFinite
<1>r. /\ refs'[k][o] = refs[k][o] - 1
      /\ \A j \in Kind, q \in Object : j # k \/ q # o => refs'[j][q] = refs[j][q]
  BY <1>i, <1>k, <1>o, <1>c DEF TypeOK, Release, Minus1
<1>u. UNCHANGED <<target, block, life>>
  BY DEF Release
\* The last reference hands the target or the control block to this call.
<1>g. \E g \in Frame :
        /\ call' = [call EXCEPT ![t] = g]
        /\ refs[k][o] = 1 =>
             /\ g.pc = IF k = "strong" THEN "exchange" ELSE "free"
             /\ g.cb = o
        /\ refs[k][o] # 1 => g.pc \in {"take", "idle"}
        /\ g.moving = f.moving
        /\ g.moving => g.dst = f.dst /\ g.src = f.src
        /\ \/ g.dst = f.dst /\ g.src = f.src
           \/ g.dst = NULL /\ g.src = NULL
  <2>1. CASE refs[k][o] = 1
    <3> DEFINE g == [f EXCEPT !.pc = IF k = "strong" THEN "exchange" ELSE "free"]
    <3>1. g \in Frame
      BY <1>f DEF Frame, Label
    <3>2. call' = [call EXCEPT ![t] = g]
      BY <1>i, <1>k, <1>o, <2>1 DEF Release, Goto, TypeOK
    <3>3. /\ g.pc = IF k = "strong" THEN "exchange" ELSE "free"
          /\ g.cb = o /\ g.moving = f.moving /\ g.dst = f.dst /\ g.src = f.src
      BY <1>f, <1>o DEF Frame
    <3> QED
      BY <2>1, <3>1, <3>2, <3>3
  <2>2. CASE refs[k][o] # 1
    <3>1. Return(t) /\ ~At(t, "idle")
      BY <1>k, <1>o, <1>f, <2>2 DEF Release, At
    <3> QED
      BY <2>2, <3>1, ReturnFrame
  <2> QED
    BY <2>1, <2>2
<1>g1. PICK g \in Frame :
        /\ call' = [call EXCEPT ![t] = g]
        /\ refs[k][o] = 1 =>
             /\ g.pc = IF k = "strong" THEN "exchange" ELSE "free"
             /\ g.cb = o
        /\ refs[k][o] # 1 => g.pc \in {"take", "idle"}
        /\ g.moving = f.moving
        /\ g.moving => g.dst = f.dst /\ g.src = f.src
        /\ \/ g.dst = f.dst /\ g.src = f.src
           \/ g.dst = NULL /\ g.src = NULL
  BY <1>g
<1>v. \A u \in Thread : call'[u] = IF u = t THEN g ELSE call[u]
  BY <1>i, <1>g1 DEF TypeOK
<1>w. \A u \in Thread \ {t} : call'[u] = call[u]
  BY <1>v
<1>2. CountInv'
  BY <1>i, <1>u, <1>c, <1>r, <1>1 DEF CountInv, Kind
<1>3. StrongOwnerInv'
  <2>1. ASSUME NEW u \in Thread, At(u, "ctor") PROVE At(u, "ctor")' /\ call'[u] = call[u]
    BY <2>1, <1>f, <1>w DEF At
  <2> QED
    BY <1>i, <1>p, <1>u, <2>1 DEF StrongOwnerInv
<1>4. WeakOwnerInv'
  BY <1>i, <1>h, <1>p, <1>u DEF WeakOwnerInv, WeakHolder
<1>5. ObjectInv'
  BY <1>i, <1>h, <1>p, <1>u DEF ObjectInv, WeakHolder
<1>6. LocalInv'
  <2>1. Carries(t)'
    <3>1. NoLocals(t)'
      BY <1>n, <1>p, <1>l DEF NoLocals
    <3>2. call'[t].pc \in {"exchange", "free", "take", "idle"}
      BY <1>g1, <1>v
    <3> QED
      BY <3>1, <3>2 DEF Carries
  <2>2. ASSUME NEW u \in Thread \ {t} PROVE Carries(u)'
    <3>1. call[u].kind \in Kind /\ call'[u] = call[u]
      BY <1>i, <1>w DEF TypeOK, Frame
    <3> QED
      BY <1>i, <1>l, <3>1 DEF LocalInv, Carries, OnlyLocal, NoLocals
  <2> QED
    BY <2>1, <2>2 DEF LocalInv
<1>7. SourceInv'
  <2>1. \A x \in StrongHandle \cup WeakHandle : ptr'[x] = ptr[x]
    BY <1>h, <1>p DEF StrongHolder, WeakHolder
  <2>2. /\ g.pc \in {"exchange", "free", "take", "idle"}
        /\ g.moving => f.moving /\ g.dst = f.dst
    BY <1>g1
  <2> QED
    BY <1>g1, <2>1, <2>2, SourceStep
<1>8. StageInv'
  <2>1. ASSUME NEW u \in Thread \ {t}, At(u, "exchange") \/ At(u, "free")
        PROVE  /\ call[u].cb \in Object
               /\ At(u, "exchange") /\ call[u].cb = o => k # "strong"
               /\ At(u, "free") /\ call[u].cb = o => k # "weak"
    BY <2>1, <1>i, <1>c DEF At, StageInv, ShapeInv, FrameShape
  <2>2. ASSUME NEW u \in Thread \ {t}
        PROVE  call'[u] = call[u] /\ ptr'[Local("weak", u)] = ptr[Local("weak", u)]
    BY <1>w, <1>l DEF Kind
  <2>3. /\ call'[t].pc \in {"exchange", "free", "take", "idle"}
        /\ call'[t].pc = "exchange" =>
             call'[t].cb = o /\ life[o] = "alive" /\ refs'["strong"][o] = 0
        /\ call'[t].pc = "free" =>
             call'[t].cb = o /\ block[o] = "live" /\ refs'["weak"][o] = 0
    BY <1>g1, <1>v, <1>r, <1>s DEF Kind
  <2> QED
    BY <1>i, <1>r, <1>u, <2>1, <2>2, <2>3 DEF StageInv, At, Kind
<1>9. RaceInv'
  <2>1. FrameShape(g)
    BY <1>t, <1>v DEF ShapeInv
  <2> QED
    BY <1>i, <1>g1, <2>1, RaceStep
<1>10. UniqueInv'
  <2>1. ASSUME NEW u \in Thread \ {t}, call[u].cb = g.cb
        PROVE  /\ ~(g.pc \in {"exchange", "destroy"} /\ call[u].pc \in {"exchange", "destroy"})
               /\ ~(g.pc = "free" /\ At(u, "free"))
               /\ g.pc # "ctor"
    BY <2>1, <1>i, <1>g1, <1>s, <1>c DEF StageInv, At, Kind
  <2> QED
    BY <1>i, <1>g1, <2>1, UniqueStep
<1>11. DrainInv'
  <2>1. ASSUME NEW u \in Thread, call[u].pc \in Busy PROVE call'[u] = call[u]
    BY <2>1, <1>f, <1>w DEF Busy, At
  <2>2. refs'["strong"][o] = 0 /\ k = "strong" => At(t, "exchange")' /\ call'[t].cb = o
    BY <1>g1, <1>v, <1>r, <1>c DEF At
  <2>3. refs'["weak"][o] = 0 /\ k = "weak" => At(t, "free")' /\ call'[t].cb = o
    BY <1>g1, <1>v, <1>r, <1>c DEF At
  <2> QED
    BY <1>i, <1>r, <1>u, <2>1, <2>2, <2>3 DEF DrainInv, At, Busy, Kind
<1>12. IInv'
  BY <1>t, <1>2, <1>3, <1>4, <1>5, <1>6, <1>7, <1>8, <1>9, <1>10, <1>11 DEF IInv
<1> QED
  BY <1>12, <1>k, <1>o, <1>c

\* lock() reads the target of a reference that it holds, and finds it.
LEMMA LockTargetInv ==
  ASSUME IInv, NEW t \in Thread, LockTarget(t)
  PROVE  IInv'
<1> DEFINE f == call[t]
<1> DEFINE g == [f EXCEPT !.pc = "install"]
<1>i. /\ TypeOK /\ ShapeInv /\ CountInv /\ StrongOwnerInv /\ WeakOwnerInv /\ ObjectInv
      /\ LocalInv /\ SourceInv /\ StageInv /\ RaceInv /\ UniqueInv /\ DrainInv
  BY DEF IInv
<1>t. TypeOK' /\ ShapeInv'
  BY <1>i, StepType DEF Step
<1>f. /\ f \in Frame /\ f.pc = "lock_target" /\ f.cb \in Object /\ f.kind = "strong"
      /\ ~f.moving
  BY <1>i DEF TypeOK, LockTarget, Runs, At, ShapeInv, FrameShape
<1>g. /\ g \in Frame /\ call' = [call EXCEPT ![t] = g] /\ g.pc = "install"
      /\ g.kind = "strong" /\ g.dst = f.dst /\ g.src = f.src /\ g.moving = f.moving
  BY <1>i, <1>f DEF TypeOK, Frame, Label, LockTarget, Goto
<1>n. ptr[Local("strong", t)] = f.cb /\ ptr[Local("weak", t)] = NULL
  BY <1>i, <1>f DEF LocalInv, Carries, OnlyLocal, Kind
<1>h. Local("strong", t) \in StrongHolder
  BY LocalFacts DEF Kind, Holder
<1>a. life[f.cb] = "alive"
  <2>1. \A u \in Thread : Local("strong", t) = Local("strong", u) => ~At(u, "ctor")
    BY <1>f, LocalFacts DEF At, Kind
  <2> QED
    BY <1>i, <1>f, <1>n, <1>h, <2>1, ConstantsAssumption, OwnedIsAlive
<1>p. ptr' = ptr
  <2>1. target[f.cb] = f.cb
    BY <1>i, <1>f, <1>a DEF ObjectInv
  <2> QED
    BY <1>i, <1>n, <1>h, <2>1 DEF LockTarget, TypeOK
<1>r. RaceInv'
  <2>1. FrameShape(g)
    BY <1>t, <1>g, <1>i DEF ShapeInv, TypeOK
  <2> QED
    BY <1>i, <1>g, <2>1, RaceStep
<1>c. Carries(t)'
  <2>1. call'[t] = g
    BY <1>i, <1>g DEF TypeOK
  <2> QED
    BY <2>1, <1>g, <1>n, <1>p DEF Carries, OnlyLocal, Kind
<1> QED
  BY <1>t, <1>f, <1>g, <1>n, <1>p, <1>r, <1>c, CallOnly DEF LockTarget, Busy

\* The constructor returns: its target may be used from now on.
LEMMA FinishConstructInv ==
  ASSUME IInv, NEW t \in Thread, FinishConstruct(t)
  PROVE  IInv'
<1> DEFINE f == call[t]
<1> DEFINE g == [f EXCEPT !.pc = "install"]
<1>i. /\ TypeOK /\ ShapeInv /\ CountInv /\ StrongOwnerInv /\ WeakOwnerInv /\ ObjectInv
      /\ LocalInv /\ SourceInv /\ StageInv /\ RaceInv /\ UniqueInv /\ DrainInv
  BY DEF IInv
<1>t. TypeOK' /\ ShapeInv'
  BY <1>i, StepType DEF Step
<1>f. /\ f \in Frame /\ f.pc = "ctor" /\ f.kind = "strong" /\ ~f.moving
  BY <1>i DEF TypeOK, FinishConstruct, Runs, At, ShapeInv, FrameShape
<1>o. PICK o \in Object : f.cb = o
  BY <1>i, <1>f DEF ShapeInv, FrameShape
<1>g. /\ g \in Frame /\ call' = [call EXCEPT ![t] = g] /\ g.pc = "install"
      /\ g.kind = "strong" /\ g.dst = f.dst /\ g.src = f.src /\ g.moving = f.moving
  BY <1>i, <1>f DEF TypeOK, Frame, Label, FinishConstruct, Goto
<1> HIDE DEF g
<1>c. /\ call'[t] = g
      /\ \A u \in Thread \ {t} : call'[u] = call[u]
  BY <1>i, <1>g DEF TypeOK
<1>s. life[o] = "constructing" /\ OnlyLocal(t, "strong", o)
  BY <1>i, <1>f, <1>o DEF StageInv, LocalInv, Carries, At
<1>l. /\ life'[o] = "alive"
      /\ \A q \in Object : q # o => life'[q] = life[q]
      /\ UNCHANGED <<refs, target, block, ptr>>
  BY <1>i, <1>o DEF FinishConstruct, TypeOK
<1>u. \A u \in Thread \ {t} :
        call[u].cb = o => call[u].pc \notin {"ctor", "exchange", "destroy"}
  BY <1>i, <1>f, <1>o, <1>s DEF UniqueInv, StageInv, At
<1>1. CountInv'
  BY <1>i, <1>l, <1>s DEF CountInv, Owners
<1>2. StrongOwnerInv'
  BY <1>i, <1>l, <1>c, <1>o, <1>f DEF StrongOwnerInv, At, TypeOK
<1>3. WeakOwnerInv'
  BY <1>i, <1>l DEF WeakOwnerInv, TypeOK, WeakHolder
<1>4. ObjectInv'
  BY <1>i, <1>l, <1>s DEF ObjectInv
<1>5. LocalInv'
  <2>1. Carries(t)'
    BY <1>c, <1>g, <1>l, <1>s DEF Carries, OnlyLocal, Kind
  <2> QED
    BY <1>g, <1>l, <2>1, LocalStep
<1>6. SourceInv'
  BY <1>g, <1>l, <1>f, SourceStep
<1>7. StageInv'
  <2>1. ASSUME NEW u \in Thread \ {t}, At(u, "install"), call[u].kind = "weak",
               ptr[Local("weak", u)] # NULL
        PROVE  life'[ptr[Local("weak", u)]] \in {"alive", "destroying", "destroyed"}
    <3>1. ptr[Local("weak", u)] \in Object
      BY <1>i, <2>1, LocalFacts DEF TypeOK, Kind
    <3> QED
      BY <1>i, <1>l, <2>1, <3>1 DEF StageInv
  <2>2. ASSUME NEW u \in Thread \ {t}, call[u].pc \in Busy
        PROVE  call[u].cb \in Object
    BY <1>i, <2>2 DEF ShapeInv, FrameShape, Busy
  <2> QED
    BY <1>i, <1>c, <1>g, <1>l, <1>u, <2>1, <2>2 DEF StageInv, At, Busy
<1>8. RaceInv'
  <2>1. FrameShape(g)
    BY <1>t, <1>c DEF ShapeInv
  <2> QED
    BY <1>i, <1>g, <2>1, RaceStep
<1>9. UniqueInv'
  BY <1>i, <1>g, UniqueStep
<1>10. DrainInv'
  <2>1. refs["strong"][o] # 0
    <3>1. Local("strong", t) \in StrongHolder
      BY LocalFacts DEF Kind, Holder
    <3> QED
      BY <1>s, <3>1, NoOwner DEF OnlyLocal
  <2>2. ASSUME NEW u \in Thread, call[u].pc \in Busy, u # t \/ call[u].cb # o
        PROVE  call'[u] = call[u]
    BY <2>2, <1>c, <1>o
  <2>3. ASSUME NEW u \in Thread, call[u].pc \in Busy \ {"ctor"} PROVE call'[u] = call[u]
    BY <2>3, <1>c, <1>f
  <2> QED
    BY <1>i, <1>l, <1>s, <2>1, <2>2, <2>3 DEF DrainInv, At, Busy
<1> QED
  BY <1>t, <1>1, <1>2, <1>3, <1>4, <1>5, <1>6, <1>7, <1>8, <1>9, <1>10 DEF IInv

\* The constructor throws: the call that ran it gives up the control block.
LEMMA ConstructThrowsInv ==
  ASSUME IInv, NEW t \in Thread, ConstructThrows(t)
  PROVE  IInv'
<1> DEFINE f == call[t]
<1>i. /\ TypeOK /\ ShapeInv /\ CountInv /\ StrongOwnerInv /\ WeakOwnerInv /\ ObjectInv
      /\ LocalInv /\ SourceInv /\ StageInv /\ RaceInv /\ UniqueInv /\ DrainInv
  BY DEF IInv
<1>t. TypeOK' /\ ShapeInv'
  BY <1>i, StepType DEF Step
<1>f. f \in Frame /\ f.pc = "ctor" /\ f.kind = "strong"
  BY <1>i DEF TypeOK, ConstructThrows, Runs, At, ShapeInv, FrameShape
<1>o. PICK o \in Object : f.cb = o
  BY <1>i, <1>f DEF ShapeInv, FrameShape
<1> DEFINE g == [Idle EXCEPT !.pc = "release", !.kind = "weak", !.cb = o]
<1>g. /\ g \in Frame /\ call' = [call EXCEPT ![t] = g] /\ g.pc = "release"
      /\ g.kind = "weak" /\ g.cb = o /\ g.dst = NULL /\ g.src = NULL /\ ~g.moving
  BY <1>o, IdleType DEF Frame, Label, Kind, ConstructThrows, Idle
<1> HIDE DEF g
<1>c. /\ call'[t] = g
      /\ \A u \in Thread \ {t} : call'[u] = call[u]
  BY <1>i, <1>g DEF TypeOK
<1>s. life[o] = "constructing" /\ OnlyLocal(t, "strong", o)
  BY <1>i, <1>f, <1>o DEF StageInv, LocalInv, Carries, At
<1>l. /\ life'[o] = "aborted"
      /\ \A q \in Object : q # o => life'[q] = life[q]
      /\ UNCHANGED <<refs, target, block>>
  BY <1>i, <1>o DEF ConstructThrows, TypeOK
<1>h. /\ Local("strong", t) \in StrongHolder /\ Local("weak", t) \in WeakHolder
      /\ Local("strong", t) \notin WeakHolder /\ Local("weak", t) \notin StrongHolder
      /\ o \in WeakHolder /\ o \notin StrongHolder
      /\ Local("strong", t) \notin StrongHandle \cup WeakHandle
      /\ Local("weak", t) \notin StrongHandle \cup WeakHandle
      /\ Local("weak", t) # o /\ Local("weak", t) \notin Object
      /\ o \notin StrongHandle \cup WeakHandle
  BY LocalFacts, HoldersDisjoint, ConstantsAssumption DEF Kind, Holder, WeakHolder
<1>p. /\ ptr'[Local("strong", t)] = NULL /\ ptr'[Local("weak", t)] = o /\ ptr'[o] = NULL
      /\ \A z \in StrongHolder \cup WeakHolder :
           z \notin {Local("strong", t), Local("weak", t), o} => ptr'[z] = ptr[z]
  BY <1>i, <1>h, <1>o DEF ConstructThrows, TypeOK
<1>n. ptr[o] = o /\ ptr[Local("weak", t)] = NULL /\ ptr[Local("strong", t)] = o
  BY <1>i, <1>s DEF ObjectInv, OnlyLocal, Kind
<1>b. block[o] = "live"
  BY <1>i, <1>s DEF ObjectInv, TypeOK
<1>u. \A u \in Thread \ {t} :
        call[u].cb = o => call[u].pc \notin {"ctor", "exchange", "destroy"}
  BY <1>i, <1>f, <1>o, <1>s DEF UniqueInv, StageInv, At
<1>1. CountInv'
  <2>1. NULL # o
    BY ConstantsAssumption
  <2>2. Cardinality(Owners("weak", o)') = Cardinality(Owners("weak", o))
    BY <1>h, <1>p, <1>n, <2>1, MoveOwner DEF Holder, Kind
  <2>3. ASSUME NEW q \in Object, q # o
        PROVE  Owners("weak", q)' = Owners("weak", q) /\ Owners("strong", q)' = Owners("strong", q)
    BY <1>h, <1>p, <1>n, <2>3, ConstantsAssumption DEF Owners, Holder
  <2> QED
    BY <1>i, <1>l, <2>2, <2>3 DEF CountInv
<1>2. StrongOwnerInv'
  <2>1. ASSUME NEW z \in StrongHolder, ptr'[z] # NULL
        PROVE  ptr'[z] = ptr[z] /\ ptr[z] \in Object /\ ptr[z] # o
    <3>1. z # Local("strong", t) /\ ptr'[z] = ptr[z]
      BY <1>h, <1>p, <2>1
    <3>2. ptr[z] \in Object
      BY <1>i, <2>1, <3>1 DEF TypeOK
    <3>3. ptr[z] # o
      BY <1>i, <1>s, <1>u, <2>1, <3>1 DEF StrongOwnerInv, At
    <3> QED
      BY <3>1, <3>2, <3>3
  <2>2. ASSUME NEW u \in Thread, At(u, "ctor"), call[u].cb # o
        PROVE  At(u, "ctor")' /\ call'[u] = call[u]
    BY <2>2, <1>c, <1>o DEF At
  <2> QED
    BY <1>i, <1>l, <2>1, <2>2 DEF StrongOwnerInv
<1>3. WeakOwnerInv'
  <2>1. \A z \in WeakHolder : ptr'[z] # NULL => block'[ptr'[z]] = "live"
    BY <1>i, <1>h, <1>p, <1>l, <1>b DEF WeakOwnerInv
  <2>2. ASSUME NEW z \in WeakHandle, ptr'[z] # NULL
        PROVE  life'[ptr'[z]] \in {"alive", "destroying", "destroyed"}
    <3>1. z \in WeakHolder /\ ptr'[z] = ptr[z]
      BY <1>h, <1>p DEF WeakHolder
    <3>2. ptr[z] \in Object /\ ptr[z] # o
      BY <1>i, <1>s, <2>2, <3>1 DEF WeakOwnerInv, TypeOK
    <3> QED
      BY <1>i, <1>l, <2>2, <3>1, <3>2 DEF WeakOwnerInv
  <2> QED
    BY <2>1, <2>2 DEF WeakOwnerInv
<1>4. ObjectInv'
  <2>1. ASSUME NEW q \in Object, q # o PROVE ptr'[q] = ptr[q]
    BY <1>h, <1>p, <2>1, LocalFacts DEF WeakHolder, Kind
  <2> QED
    BY <1>i, <1>l, <1>s, <1>b, <1>p, <2>1 DEF ObjectInv
<1>5. LocalInv'
  <2>1. \A j \in Kind, u \in Thread \ {t} : ptr'[Local(j, u)] = ptr[Local(j, u)]
    BY <1>p, LocalFacts DEF Kind
  <2>2. Carries(t)'
    BY <1>c, <1>g, <1>p DEF Carries, OnlyLocal, Kind
  <2> QED
    BY <1>g, <2>1, <2>2, LocalStep
<1>6. SourceInv'
  <2>1. \A z \in StrongHandle \cup WeakHandle : ptr'[z] = ptr[z]
    BY <1>h, <1>p DEF StrongHolder, WeakHolder
  <2> QED
    BY <1>g, <2>1, SourceStep
<1>7. StageInv'
  <2>1. ASSUME NEW u \in Thread \ {t}, At(u, "install"), call[u].kind = "weak",
               ptr'[Local("weak", u)] # NULL
        PROVE  life'[ptr'[Local("weak", u)]] \in {"alive", "destroying", "destroyed"}
    <3>1. ptr'[Local("weak", u)] = ptr[Local("weak", u)]
      BY <1>p, LocalFacts DEF Kind
    <3>2. ptr[Local("weak", u)] \in Object /\ ptr[Local("weak", u)] # o
      BY <1>i, <1>s, <2>1, <3>1, LocalFacts DEF TypeOK, Kind, StageInv
    <3> QED
      BY <1>i, <1>l, <2>1, <3>1, <3>2 DEF StageInv
  <2>2. ASSUME NEW u \in Thread \ {t}, call[u].pc \in Busy
        PROVE  call[u].cb \in Object
    BY <1>i, <2>2 DEF ShapeInv, FrameShape, Busy
  <2> QED
    BY <1>i, <1>c, <1>g, <1>l, <1>u, <2>1, <2>2 DEF StageInv, At, Busy
<1>8. RaceInv'
  <2>1. FrameShape(g)
    BY <1>t, <1>c DEF ShapeInv
  <2> QED
    BY <1>i, <1>g, <2>1, RaceStep
<1>9. UniqueInv'
  BY <1>i, <1>g, UniqueStep
<1>10. DrainInv'
  <2>1. ASSUME NEW u \in Thread, call[u].pc \in Busy, u # t \/ call[u].cb # o
        PROVE  call'[u] = call[u]
    BY <2>1, <1>c, <1>o
  <2>2. ASSUME NEW u \in Thread, call[u].pc \in Busy \ {"ctor"} PROVE call'[u] = call[u]
    BY <2>2, <1>c, <1>f
  <2> QED
    BY <1>i, <1>l, <1>s, <2>1, <2>2 DEF DrainInv, At, Busy
<1> QED
  BY <1>t, <1>1, <1>2, <1>3, <1>4, <1>5, <1>6, <1>7, <1>8, <1>9, <1>10 DEF IInv

\* The base constructor has run: nobody knew of the target before.
LEMMA BeginConstructInv ==
  ASSUME IInv, NEW t \in Thread, NEW x \in StrongHandle, NEW o \in Object,
         BeginConstruct(t, x, o)
  PROVE  IInv'
<1> DEFINE f == call[t]
<1> DEFINE g == [Idle EXCEPT !.pc = "ctor", !.cb = o, !.dst = x]
<1>i. /\ TypeOK /\ ShapeInv /\ CountInv /\ StrongOwnerInv /\ WeakOwnerInv /\ ObjectInv
      /\ LocalInv /\ SourceInv /\ StageInv /\ RaceInv /\ UniqueInv /\ DrainInv
  BY DEF IInv
<1>t. TypeOK' /\ ShapeInv'
  BY <1>i, CallType DEF Call
<1>f. f.pc = "idle" /\ Exclusive(x) /\ block[o] = "unused" /\ life[o] = "none"
  BY <1>i DEF BeginConstruct, Begin, Runs, At, ObjectInv
<1>g. /\ g \in Frame /\ call' = [call EXCEPT ![t] = g] /\ g.pc = "ctor"
      /\ g.kind = "strong" /\ g.cb = o /\ g.dst = x /\ g.src = NULL /\ ~g.moving
  BY IdleType DEF Frame, Label, Kind, BeginConstruct, Begin, Idle
<1> HIDE DEF g
<1>c. /\ call'[t] = g
      /\ \A u \in Thread \ {t} : call'[u] = call[u]
  BY <1>i, <1>g DEF TypeOK
<1>l. /\ life'[o] = "constructing" /\ block'[o] = "live" /\ target'[o] = o
      /\ refs'["strong"][o] = 1 /\ refs'["weak"][o] = 1
      /\ \A q \in Object \ {o} :
           /\ life'[q] = life[q] /\ block'[q] = block[q] /\ target'[q] = target[q]
           /\ refs'["strong"][q] = refs["strong"][q] /\ refs'["weak"][q] = refs["weak"][q]
  BY <1>i DEF BeginConstruct, TypeOK, Kind
<1>h. /\ Local("strong", t) \in StrongHolder /\ Local("strong", t) \notin WeakHolder
      /\ o \in WeakHolder /\ o \notin StrongHolder
      /\ Local("strong", t) \notin StrongHandle \cup WeakHandle \cup Object
      /\ o \notin StrongHandle \cup WeakHandle
  BY LocalFacts, HoldersDisjoint, ConstantsAssumption DEF Kind, Holder, WeakHolder
<1>p. /\ ptr'[Local("strong", t)] = o /\ ptr'[o] = o
      /\ \A z \in StrongHolder \cup WeakHolder :
           z \notin {Local("strong", t), o} => ptr'[z] = ptr[z]
  BY <1>i, <1>h DEF BeginConstruct, TypeOK
\* Nobody refers to o, and no call has it.
<1>n. /\ \A z \in StrongHolder \cup WeakHolder : ptr[z] # o
      /\ \A u \in Thread : call[u].cb = o => call[u].pc \notin Busy
      /\ ptr[Local("strong", t)] = NULL /\ ptr[Local("weak", t)] = NULL
  <2>1. NULL # o
    BY ConstantsAssumption
  <2>2. \A z \in StrongHolder : ptr[z] # o
    BY <1>i, <1>f, <2>1 DEF StrongOwnerInv
  <2>3. \A z \in WeakHolder : ptr[z] # o
    BY <1>i, <1>f, <2>1 DEF WeakOwnerInv
  <2>4. \A u \in Thread : call[u].cb = o => call[u].pc \notin Busy
    BY <1>i, <1>f DEF StageInv, At, Busy
  <2> QED
    BY <1>i, <1>f, <2>2, <2>3, <2>4 DEF LocalInv, Carries, NoLocals, Kind
<1>1. CountInv'
  <2>1. Owners("strong", o)' = {Local("strong", t)} /\ Owners("weak", o)' = {o}
    BY <1>h, <1>p, <1>n DEF Owners, Holder
  <2>2. Cardinality({Local("strong", t)}) = 1 /\ Cardinality({o}) = 1
    BY FS_Singleton
  <2>3. ASSUME NEW q \in Object \ {o}
        PROVE  Owners("weak", q)' = Owners("weak", q) /\ Owners("strong", q)' = Owners("strong", q)
    <3>1. NULL # q /\ ptr[o] = NULL
      BY <1>i, <1>f, ConstantsAssumption DEF ObjectInv
    <3> QED
      BY <1>h, <1>p, <1>n, <3>1 DEF Owners, Holder
  <2>4. /\ refs'["strong"][o] = Cardinality(Owners("strong", o)')
        /\ refs'["weak"][o] = Cardinality(Owners("weak", o)')
    BY <1>l, <2>1, <2>2
  <2>5. ASSUME NEW q \in Object \ {o}
        PROVE  /\ refs'["weak"][q] = Cardinality(Owners("weak", q)')
               /\ life'[q] # "aborted" =>
                    refs'["strong"][q] = Cardinality(Owners("strong", q)')
    BY <1>i, <1>l, <2>3 DEF CountInv
  <2> QED
    BY <2>4, <2>5 DEF CountInv
<1>2. StrongOwnerInv'
  <2>1. ASSUME NEW z \in StrongHolder, z # Local("strong", t), ptr'[z] # NULL
        PROVE  ptr'[z] = ptr[z] /\ ptr[z] \in Object \ {o}
    BY <1>i, <1>h, <1>p, <1>n, <2>1 DEF TypeOK
  <2>2. ASSUME NEW u \in Thread, At(u, "ctor") PROVE At(u, "ctor")' /\ call'[u] = call[u]
    BY <2>2, <1>c, <1>f DEF At
  <2>3. At(t, "ctor")' /\ call'[t].cb = o
    BY <1>c, <1>g DEF At
  <2> QED
    BY <1>i, <1>l, <1>p, <2>1, <2>2, <2>3 DEF StrongOwnerInv
<1>3. WeakOwnerInv'
  <2>1. ASSUME NEW z \in WeakHolder, z # o, ptr'[z] # NULL
        PROVE  ptr'[z] = ptr[z] /\ ptr[z] \in Object \ {o}
    BY <1>i, <1>h, <1>p, <1>n, <2>1 DEF TypeOK
  <2>2. \A z \in WeakHandle : z \in WeakHolder /\ z # o
    BY <1>h DEF WeakHolder
  <2> QED
    BY <1>i, <1>l, <1>p, <2>1, <2>2 DEF WeakOwnerInv
<1>4. ObjectInv'
  <2>1. ASSUME NEW q \in Object, q # o PROVE ptr'[q] = ptr[q]
    BY <1>h, <1>p, <2>1 DEF WeakHolder
  <2> QED
    BY <1>i, <1>l, <1>p, <2>1 DEF ObjectInv
<1>5. LocalInv'
  <2>1. \A j \in Kind, u \in Thread \ {t} : ptr'[Local(j, u)] = ptr[Local(j, u)]
    BY <1>p, LocalFacts DEF Kind
  <2>2. ptr'[Local("weak", t)] = NULL
    BY <1>p, <1>n, LocalFacts DEF Kind
  <2>3. Carries(t)'
    BY <1>c, <1>g, <1>p, <2>2 DEF Carries, OnlyLocal, Kind
  <2> QED
    BY <1>g, <2>1, <2>3, LocalStep
<1>6. SourceInv'
  <2>1. \A z \in StrongHandle \cup WeakHandle : ptr'[z] = ptr[z]
    BY <1>h, <1>p DEF StrongHolder, WeakHolder
  <2> QED
    BY <1>g, <2>1, SourceStep
<1>7. StageInv'
  <2>1. ASSUME NEW u \in Thread \ {t}, At(u, "install"), call[u].kind = "weak",
               ptr'[Local("weak", u)] # NULL
        PROVE  life'[ptr'[Local("weak", u)]] \in {"alive", "destroying", "destroyed"}
    <3>1. ptr'[Local("weak", u)] = ptr[Local("weak", u)]
      BY <1>p, LocalFacts DEF Kind
    <3>2. ptr[Local("weak", u)] \in Object \ {o}
      BY <1>i, <1>n, <2>1, <3>1, LocalFacts DEF TypeOK, Kind
    <3> QED
      BY <1>i, <1>l, <2>1, <3>1, <3>2 DEF StageInv
  <2>2. ASSUME NEW u \in Thread \ {t}, call[u].pc \in Busy
        PROVE  call[u].cb \in Object \ {o}
    BY <1>i, <1>n, <2>2 DEF ShapeInv, FrameShape, Busy
  <2> QED
    BY <1>i, <1>c, <1>g, <1>l, <2>1, <2>2 DEF StageInv, At, Busy
<1>8. RaceInv'
  <2>1. FrameShape(g)
    BY <1>t, <1>c DEF ShapeInv
  <2> QED
    BY <1>i, <1>f, <1>g, <2>1, RaceStep
<1>9. UniqueInv'
  BY <1>i, <1>g, <1>n, UniqueStep DEF At, Busy
<1>10. DrainInv'
  <2>1. ASSUME NEW u \in Thread, call[u].pc \in Busy PROVE call'[u] = call[u]
    BY <2>1, <1>c, <1>f DEF Busy
  <2>2. At(t, "ctor")' /\ call'[t].cb = o
    BY <1>c, <1>g DEF At
  <2> QED
    BY <1>i, <1>l, <2>1, <2>2 DEF DrainInv, At, Busy
<1> QED
  BY <1>t, <1>1, <1>2, <1>3, <1>4, <1>5, <1>6, <1>7, <1>8, <1>9, <1>10 DEF IInv

\* The last strong reference is gone: the destructor starts.
LEMMA ExchangeTargetInv ==
  ASSUME IInv, NEW t \in Thread, ExchangeTarget(t)
  PROVE  IInv'
<1> DEFINE f == call[t]
<1> DEFINE g == [f EXCEPT !.pc = "destroy"]
<1>i. /\ TypeOK /\ ShapeInv /\ CountInv /\ StrongOwnerInv /\ WeakOwnerInv /\ ObjectInv
      /\ LocalInv /\ SourceInv /\ StageInv /\ RaceInv /\ UniqueInv /\ DrainInv
  BY DEF IInv
<1>t. TypeOK' /\ ShapeInv'
  BY <1>i, StepType DEF Step
<1>f. f \in Frame /\ f.pc = "exchange"
  BY <1>i DEF TypeOK, ExchangeTarget, Runs, At
<1>o. PICK o \in Object : f.cb = o
  BY <1>i, <1>f DEF ShapeInv, FrameShape
<1>s. life[o] = "alive" /\ refs["strong"][o] = 0 /\ target[o] = o /\ NoLocals(t)
  BY <1>i, <1>f, <1>o DEF StageInv, ObjectInv, LocalInv, Carries, At
<1>l. /\ life'[o] = "destroying" /\ target'[o] = NULL
      /\ \A q \in Object : q # o => life'[q] = life[q] /\ target'[q] = target[q]
      /\ UNCHANGED <<refs, block, ptr>>
      /\ Goto(t, "destroy")
  BY <1>i, <1>o, <1>s, ConstantsAssumption DEF ExchangeTarget, TypeOK
<1>g. /\ g \in Frame /\ call' = [call EXCEPT ![t] = g] /\ g.pc = "destroy"
      /\ g.cb = o /\ g.dst = f.dst /\ g.src = f.src /\ g.moving = f.moving
  BY <1>i, <1>f, <1>o, <1>l DEF TypeOK, Frame, Label, Goto
<1> HIDE DEF g
<1>c. /\ call'[t] = g
      /\ \A u \in Thread \ {t} : call'[u] = call[u]
  BY <1>i, <1>g DEF TypeOK
<1>n. \A z \in StrongHolder : ptr[z] # o
  BY <1>s, NoOwner
<1>u. \A u \in Thread \ {t} :
        call[u].cb = o => call[u].pc \notin {"ctor", "exchange", "destroy"}
  BY <1>i, <1>f, <1>o, <1>s DEF UniqueInv, StageInv, At
<1>1. CountInv'
  BY <1>i, <1>l, <1>s DEF CountInv, Owners
<1>2. StrongOwnerInv'
  <2>1. \A z \in StrongHolder : ptr[z] # NULL => ptr[z] \in Object \ {o}
    BY <1>i, <1>n DEF TypeOK
  <2>2. ASSUME NEW u \in Thread, At(u, "ctor") PROVE At(u, "ctor")' /\ call'[u] = call[u]
    BY <2>2, <1>c, <1>f DEF At
  <2> QED
    BY <1>i, <1>l, <2>1, <2>2 DEF StrongOwnerInv
<1>3. WeakOwnerInv'
  BY <1>i, <1>l DEF WeakOwnerInv, TypeOK, WeakHolder
<1>4. ObjectInv'
  BY <1>i, <1>l, <1>s DEF ObjectInv
<1>5. LocalInv'
  <2>1. Carries(t)'
    BY <1>c, <1>g, <1>l, <1>s DEF Carries, NoLocals
  <2> QED
    BY <1>g, <1>l, <2>1, LocalStep
<1>6. SourceInv'
  BY <1>g, <1>l, SourceStep
<1>7. StageInv'
  <2>1. ASSUME NEW u \in Thread \ {t}, At(u, "install"), call[u].kind = "weak",
               ptr[Local("weak", u)] # NULL
        PROVE  life'[ptr[Local("weak", u)]] \in {"alive", "destroying", "destroyed"}
    <3>1. ptr[Local("weak", u)] \in Object
      BY <1>i, <2>1, LocalFacts DEF TypeOK, Kind
    <3> QED
      BY <1>i, <1>l, <2>1, <3>1 DEF StageInv
  <2>2. ASSUME NEW u \in Thread \ {t}, call[u].pc \in Busy
        PROVE  call[u].cb \in Object
    BY <1>i, <2>2 DEF ShapeInv, FrameShape, Busy
  <2> QED
    BY <1>i, <1>c, <1>g, <1>l, <1>u, <2>1, <2>2 DEF StageInv, At, Busy
<1>8. RaceInv'
  <2>1. FrameShape(g)
    BY <1>t, <1>c DEF ShapeInv
  <2> QED
    BY <1>i, <1>g, <2>1, RaceStep
<1>9. UniqueInv'
  BY <1>i, <1>g, <1>u, UniqueStep, ZenonT(60) DEF At
<1>10. DrainInv'
  <2>1. ASSUME NEW u \in Thread, call[u].pc \in Busy, u # t \/ call[u].cb # o
        PROVE  call'[u] = call[u]
    BY <2>1, <1>c, <1>o
  <2>2. ASSUME NEW u \in Thread, call[u].pc \in Busy \ {"exchange"}
        PROVE  call'[u] = call[u]
    BY <2>2, <1>c, <1>f
  <2>3. At(t, "destroy")' /\ call'[t].cb = o
    BY <1>c, <1>g DEF At
  <2> QED
    BY <1>i, <1>l, <1>s, <2>1, <2>2, <2>3 DEF DrainInv, At, Busy
<1> QED
  BY <1>t, <1>1, <1>2, <1>3, <1>4, <1>5, <1>6, <1>7, <1>8, <1>9, <1>10 DEF IInv

\* The target is gone, and its implicit weak reference is being given up.
LEMMA DestroyBaseInv ==
  ASSUME IInv, NEW t \in Thread, DestroyBase(t)
  PROVE  IInv'
<1> DEFINE f == call[t]
<1> DEFINE g == [f EXCEPT !.pc = "release", !.kind = "weak"]
<1>i. /\ TypeOK /\ ShapeInv /\ CountInv /\ StrongOwnerInv /\ WeakOwnerInv /\ ObjectInv
      /\ LocalInv /\ SourceInv /\ StageInv /\ RaceInv /\ UniqueInv /\ DrainInv
  BY DEF IInv
<1>t. TypeOK' /\ ShapeInv'
  BY <1>i, StepType DEF Step
<1>f. f \in Frame /\ f.pc = "destroy"
  BY <1>i DEF TypeOK, DestroyBase, Runs, At
<1>o. PICK o \in Object : f.cb = o
  BY <1>i, <1>f DEF ShapeInv, FrameShape
<1>g. /\ g \in Frame /\ call' = [call EXCEPT ![t] = g] /\ g.pc = "release"
      /\ g.kind = "weak" /\ g.cb = o
      /\ g.dst = f.dst /\ g.src = f.src /\ g.moving = f.moving
  BY <1>i, <1>f, <1>o DEF TypeOK, Frame, Label, Kind, DestroyBase
<1> HIDE DEF g
<1>c. /\ call'[t] = g
      /\ \A u \in Thread \ {t} : call'[u] = call[u]
  BY <1>i, <1>g DEF TypeOK
<1>s. life[o] = "destroying" /\ NoLocals(t) /\ ptr[o] = o /\ target[o] = NULL
      /\ block[o] = "live"
  BY <1>i, <1>f, <1>o DEF StageInv, ObjectInv, LocalInv, Carries, At, TypeOK
<1>l. /\ life'[o] = "destroyed"
      /\ \A q \in Object : q # o => life'[q] = life[q]
      /\ UNCHANGED <<refs, target, block>>
  BY <1>i, <1>o DEF DestroyBase, TypeOK
<1>h. /\ o \in Holder("weak") /\ Local("weak", t) \in Holder("weak")
      /\ o \in WeakHolder /\ Local("weak", t) \in WeakHolder
      /\ o \notin StrongHolder /\ Local("weak", t) \notin StrongHolder
      /\ Local("weak", t) \notin StrongHandle \cup WeakHandle \cup Object
      /\ o \notin StrongHandle \cup WeakHandle
  BY LocalFacts, HoldersDisjoint, ConstantsAssumption DEF Kind, Holder, WeakHolder
<1>p. /\ ptr' = Swapped(o, Local("weak", t))
      /\ ptr'[o] = NULL /\ ptr'[Local("weak", t)] = o
      /\ \A z \in StrongHolder \cup WeakHolder :
           z \notin {o, Local("weak", t)} => ptr'[z] = ptr[z]
  BY <1>i, <1>o, <1>s, <1>h DEF DestroyBase, Swapped, TypeOK, NoLocals, Kind
<1>u. \A u \in Thread \ {t} :
        call[u].cb = o => call[u].pc \notin {"ctor", "exchange", "destroy"}
  BY <1>i, <1>f, <1>o, <1>s DEF UniqueInv, StageInv, At
<1>1. CountInv'
  <2>1. \A j \in Kind, q \in Object : Cardinality(Owners(j, q)') = Cardinality(Owners(j, q))
    <3>1. ptr \in [StrongHolder \cup WeakHolder -> Object \cup {NULL}]
      BY <1>i DEF TypeOK
    <3>2. "weak" \in Kind
      BY DEF Kind
    <3> QED
      BY <1>h, <1>p, <3>1, <3>2, SwapOwners
  <2> QED
    BY <1>i, <1>l, <1>s, <2>1 DEF CountInv, Kind
<1>2. StrongOwnerInv'
  <2>1. ASSUME NEW z \in StrongHolder, ptr'[z] # NULL
        PROVE  ptr'[z] = ptr[z] /\ ptr[z] \in Object \ {o}
    BY <1>i, <1>h, <1>p, <1>s, <2>1 DEF TypeOK, StrongOwnerInv
  <2>2. ASSUME NEW u \in Thread, At(u, "ctor") PROVE At(u, "ctor")' /\ call'[u] = call[u]
    BY <2>2, <1>c, <1>f DEF At
  <2> QED
    BY <1>i, <1>l, <2>1, <2>2 DEF StrongOwnerInv
<1>3. WeakOwnerInv'
  <2>1. \A z \in WeakHolder : ptr'[z] # NULL => block'[ptr'[z]] = "live"
    BY <1>i, <1>p, <1>l, <1>s DEF WeakOwnerInv
  <2>2. ASSUME NEW z \in WeakHandle PROVE z \in WeakHolder /\ ptr'[z] = ptr[z]
    BY <1>h, <1>p DEF WeakHolder
  <2> QED
    BY <1>i, <1>l, <2>1, <2>2 DEF WeakOwnerInv, TypeOK
<1>4. ObjectInv'
  <2>1. ASSUME NEW q \in Object, q # o PROVE ptr'[q] = ptr[q]
    BY <1>h, <1>p, <2>1 DEF WeakHolder
  <2> QED
    BY <1>i, <1>l, <1>s, <1>p, <2>1 DEF ObjectInv
<1>5. LocalInv'
  <2>1. \A j \in Kind, u \in Thread \ {t} : ptr'[Local(j, u)] = ptr[Local(j, u)]
    BY <1>p, LocalFacts DEF Kind
  <2>2. ptr'[Local("strong", t)] = NULL
    BY <1>p, <1>s, LocalFacts DEF NoLocals, Kind
  <2>3. Carries(t)'
    BY <1>c, <1>g, <1>p, <2>2 DEF Carries, OnlyLocal, Kind
  <2> QED
    BY <1>g, <2>1, <2>3, LocalStep
<1>6. SourceInv'
  <2>1. \A z \in StrongHandle \cup WeakHandle : ptr'[z] = ptr[z]
    BY <1>h, <1>p DEF StrongHolder, WeakHolder
  <2> QED
    BY <1>g, <2>1, SourceStep
<1>7. StageInv'
  <2>1. ASSUME NEW u \in Thread \ {t}, At(u, "install"), call[u].kind = "weak",
               ptr'[Local("weak", u)] # NULL
        PROVE  life'[ptr'[Local("weak", u)]] \in {"alive", "destroying", "destroyed"}
    <3>1. ptr'[Local("weak", u)] = ptr[Local("weak", u)]
      BY <1>p, LocalFacts DEF Kind
    <3>2. ptr[Local("weak", u)] \in Object
      BY <1>i, <2>1, <3>1, LocalFacts DEF TypeOK, Kind
    <3> QED
      BY <1>i, <1>l, <2>1, <3>1, <3>2 DEF StageInv
  <2>2. ASSUME NEW u \in Thread \ {t}, call[u].pc \in Busy
        PROVE  call[u].cb \in Object
    BY <1>i, <2>2 DEF ShapeInv, FrameShape, Busy
  <2> QED
    BY <1>i, <1>c, <1>g, <1>l, <1>u, <2>1, <2>2 DEF StageInv, At, Busy
<1>8. RaceInv'
  <2>1. FrameShape(g)
    BY <1>t, <1>c DEF ShapeInv
  <2> QED
    BY <1>i, <1>g, <2>1, RaceStep
<1>9. UniqueInv'
  BY <1>i, <1>g, UniqueStep
<1>10. DrainInv'
  <2>1. ASSUME NEW u \in Thread, call[u].pc \in Busy, u # t \/ call[u].cb # o
        PROVE  call'[u] = call[u]
    BY <2>1, <1>c, <1>o
  <2>2. ASSUME NEW u \in Thread, call[u].pc \in Busy \ {"destroy"}
        PROVE  call'[u] = call[u]
    BY <2>2, <1>c, <1>f
  <2> QED
    BY <1>i, <1>l, <1>s, <2>1, <2>2 DEF DrainInv, At, Busy
<1> QED
  BY <1>t, <1>1, <1>2, <1>3, <1>4, <1>5, <1>6, <1>7, <1>8, <1>9, <1>10 DEF IInv

\* Nobody refers to the control block when it is deleted.
LEMMA FreeBlockInv ==
  ASSUME IInv, NEW t \in Thread, FreeBlock(t)
  PROVE  IInv'
<1> DEFINE f == call[t]
<1>i. /\ TypeOK /\ ShapeInv /\ CountInv /\ StrongOwnerInv /\ WeakOwnerInv /\ ObjectInv
      /\ LocalInv /\ SourceInv /\ StageInv /\ RaceInv /\ UniqueInv /\ DrainInv
  BY DEF IInv
<1>t. TypeOK' /\ ShapeInv'
  BY <1>i, StepType DEF Step
<1>f. f \in Frame /\ f.pc = "free" /\ ~At(t, "idle") /\ Return(t)
  BY <1>i DEF TypeOK, FreeBlock, Runs, At
<1>o. PICK o \in Object : f.cb = o
  BY <1>i, <1>f DEF ShapeInv, FrameShape
<1>g. PICK g \in Frame :
           /\ call' = [call EXCEPT ![t] = g]
           /\ g.pc = IF f.moving THEN "take" ELSE "idle"
           /\ g.moving = f.moving
           /\ g.moving => g.dst = f.dst /\ g.src = f.src
           /\ ~g.moving => g.dst = NULL /\ g.src = NULL
  BY <1>f, ReturnFrame
<1>p. g.pc \in {"take", "idle"}
  BY <1>g
<1>c. /\ call'[t] = g
      /\ \A u \in Thread \ {t} : call'[u] = call[u]
  BY <1>i, <1>g DEF TypeOK
<1>s. block[o] = "live" /\ refs["weak"][o] = 0 /\ NoLocals(t)
  BY <1>i, <1>f, <1>o DEF StageInv, LocalInv, Carries, At
<1>n. \A z \in WeakHolder : ptr[z] # o
  BY <1>s, NoWatcher
<1>d. life[o] \in {"destroyed", "aborted"}
  <2>1. ptr[o] # o
    BY <1>n DEF WeakHolder
  <2> QED
    BY <1>i, <1>s, <2>1 DEF ObjectInv, TypeOK
<1>l. /\ block'[o] = "freed"
      /\ \A q \in Object : q # o => block'[q] = block[q]
      /\ UNCHANGED <<refs, target, life, ptr>>
  BY <1>i, <1>o DEF FreeBlock, TypeOK
<1>u. \A u \in Thread \ {t} : call[u].cb = o => ~At(u, "free")
  BY <1>i, <1>f, <1>o DEF UniqueInv, At
<1>1. CountInv'
  BY <1>i, <1>l DEF CountInv, Owners
<1>2. StrongOwnerInv'
  <2>1. ASSUME NEW u \in Thread, At(u, "ctor") PROVE At(u, "ctor")' /\ call'[u] = call[u]
    BY <2>1, <1>c, <1>f DEF At
  <2> QED
    BY <1>i, <1>l, <2>1 DEF StrongOwnerInv
<1>3. WeakOwnerInv'
  <2>1. \A z \in WeakHolder : ptr[z] # NULL => ptr[z] \in Object \ {o}
    BY <1>i, <1>n DEF TypeOK
  <2> QED
    BY <1>i, <1>l, <2>1 DEF WeakOwnerInv
<1>4. ObjectInv'
  BY <1>i, <1>l, <1>s, <1>d DEF ObjectInv
<1>5. LocalInv'
  <2>1. Carries(t)'
    BY <1>c, <1>p, <1>l, <1>s DEF Carries, NoLocals
  <2> QED
    BY <1>g, <1>l, <2>1, LocalStep
<1>6. SourceInv'
  BY <1>g, <1>p, <1>l, SourceStep
<1>7. StageInv'
  <2>1. ASSUME NEW u \in Thread \ {t}, call[u].pc \in Busy
        PROVE  call[u].cb \in Object
    BY <1>i, <2>1 DEF ShapeInv, FrameShape, Busy
  <2> QED
    BY <1>i, <1>c, <1>p, <1>l, <1>u, <2>1 DEF StageInv, At, Busy
<1>8. RaceInv'
  <2>1. FrameShape(g)
    BY <1>t, <1>c DEF ShapeInv
  <2> QED
    BY <1>i, <1>g, <2>1, RaceStep
<1>9. UniqueInv'
  BY <1>i, <1>g, <1>p, UniqueStep
<1>10. DrainInv'
  <2>1. ASSUME NEW u \in Thread, call[u].pc \in Busy, u # t \/ call[u].cb # o
        PROVE  call'[u] = call[u]
    BY <2>1, <1>c, <1>o
  <2>2. ASSUME NEW u \in Thread, call[u].pc \in Busy \ {"free"}
        PROVE  call'[u] = call[u]
    BY <2>2, <1>c, <1>f
  <2> QED
    BY <1>i, <1>l, <2>1, <2>2 DEF DrainInv, At, Busy
<1> QED
  BY <1>t, <1>1, <1>2, <1>3, <1>4, <1>5, <1>6, <1>7, <1>8, <1>9, <1>10 DEF IInv

\* A thread that begins a call holds nothing in its locals.
LEMMA IdleFacts ==
  ASSUME IInv, NEW t \in Thread, At(t, "idle")
  PROVE  call[t] = Idle /\ NoLocals(t) /\ call[t].pc \notin Busy
  BY DEF IInv, ShapeInv, FrameShape, LocalInv, Carries, At, Busy

\* A call that begins and so far has done nothing but read the handle it was given.
LEMMA BeginInv ==
  ASSUME IInv, TypeOK', ShapeInv', NEW t \in Thread, NEW g \in Frame, Begin(t, g),
         UNCHANGED <<refs, target, block, life, ptr>>,
         g.pc \in {"load", "lock_load", "install"}, ~g.moving,
         g.pc # "install" => ptr[g.src] = g.cb,
         Exclusive(g.dst), Shared(g.src)
  PROVE  IInv'
<1>1. /\ call' = [call EXCEPT ![t] = g] /\ call'[t] = g
      /\ NoLocals(t) /\ call[t].pc \notin Busy
  BY IdleFacts DEF Begin, Runs, IInv, TypeOK
<1>2. RaceInv'
  <2>1. FrameShape(g)
    BY <1>1 DEF ShapeInv
  <2> QED
    BY <1>1, <2>1, RaceStep DEF IInv
<1>3. Carries(t)'
  <2>1. call'[t].kind \in Kind
    BY <1>1 DEF Frame
  <2> QED
    BY <1>1, <2>1 DEF Carries, OnlyLocal, NoLocals
<1>4. ptr[Local("weak", t)] = NULL
  BY <1>1 DEF NoLocals, Kind
<1> QED
  BY <1>1, <1>2, <1>3, <1>4, CallOnly DEF Busy

\* Copying a handle begins.
LEMMA CopyInv ==
  ASSUME IInv, TypeOK', ShapeInv', NEW t \in Thread, NEW k \in Kind,
         NEW x \in Handle(k), NEW y \in Handle(k), Copy(t, k, x, y)
  PROVE  IInv'
<1> DEFINE g == [Idle EXCEPT !.pc = IF ptr[y] = NULL THEN "install" ELSE "load",
                             !.kind = k, !.cb = ptr[y], !.dst = x, !.src = y]
<1>1. /\ g.pc = IF ptr[y] = NULL THEN "install" ELSE "load"
      /\ g.cb = ptr[y] /\ g.dst = x /\ g.src = y /\ ~g.moving
  BY DEF Idle
<1>2. g \in Frame
  <2>1. call' = [call EXCEPT ![t] = g]
    BY DEF Copy, Begin
  <2> QED
    BY <2>1 DEF IInv, TypeOK
<1> QED
  BY <1>1, <1>2, BeginInv DEF Copy

\* Observing a strong handle begins.
LEMMA WeakFromStrongInv ==
  ASSUME IInv, TypeOK', ShapeInv', NEW t \in Thread,
         NEW x \in WeakHandle, NEW y \in StrongHandle, WeakFromStrong(t, x, y)
  PROVE  IInv'
<1> DEFINE g == [Idle EXCEPT !.pc = "load", !.kind = "weak",
                             !.cb = ptr[y], !.dst = x, !.src = y]
<1>1. g.pc = "load" /\ g.cb = ptr[y] /\ g.dst = x /\ g.src = y /\ ~g.moving
  BY DEF Idle
<1>2. g \in Frame
  <2>1. call' = [call EXCEPT ![t] = g]
    BY DEF WeakFromStrong, Begin
  <2> QED
    BY <2>1 DEF IInv, TypeOK
<1> QED
  BY <1>1, <1>2, BeginInv DEF WeakFromStrong

\* Locking a weak handle begins.
LEMMA LockInv ==
  ASSUME IInv, TypeOK', ShapeInv', NEW t \in Thread,
         NEW x \in StrongHandle, NEW y \in WeakHandle, Lock(t, x, y)
  PROVE  IInv'
<1> DEFINE g == [Idle EXCEPT !.pc = "lock_load", !.cb = ptr[y], !.dst = x, !.src = y]
<1>1. g.pc = "lock_load" /\ g.cb = ptr[y] /\ g.dst = x /\ g.src = y /\ ~g.moving
  BY DEF Idle
<1>2. g \in Frame
  <2>1. call' = [call EXCEPT ![t] = g]
    BY DEF Lock, Begin
  <2> QED
    BY <2>1 DEF IInv, TypeOK
<1> QED
  BY <1>1, <1>2, BeginInv DEF Lock

\* Reading a count, at first and after a failed exchange.
LEMMA ReadInv ==
  ASSUME IInv, NEW t \in Thread, Load(t) \/ CasFails(t)
  PROVE  IInv'
<1> DEFINE f == call[t]
<1> DEFINE g == [f EXCEPT !.pc = "cas", !.seen = refs[f.kind][f.cb]]
<1>i. /\ TypeOK /\ ShapeInv /\ CountInv /\ StrongOwnerInv /\ WeakOwnerInv /\ ObjectInv
      /\ LocalInv /\ SourceInv /\ StageInv /\ RaceInv /\ UniqueInv /\ DrainInv
  BY DEF IInv
<1>t. TypeOK' /\ ShapeInv'
  BY <1>i, StepType DEF Step
<1>f. f \in Frame /\ f.pc \in {"load", "cas"} /\ ~f.moving
  BY <1>i DEF TypeOK, Load, CasFails, Runs, At, ShapeInv, FrameShape
<1>g. call' = [call EXCEPT ![t] = g]
  <2>1. CASE Load(t)
    BY <1>i, <2>1 DEF Load, TypeOK
  <2>2. CASE CasFails(t)
    <3>1. call' = [call EXCEPT ![t] = [f EXCEPT !.seen = refs[f.kind][f.cb]]]
      BY <1>i, <2>2 DEF CasFails, TypeOK
    <3>2. [f EXCEPT !.seen = refs[f.kind][f.cb]] = g
      BY <1>f, <2>2 DEF CasFails, Runs, At, Frame
    <3> QED
      BY <3>1, <3>2
  <2> QED
    BY <2>1, <2>2
<1>c. call'[t] = g /\ g \in Frame /\ FrameShape(g)
  BY <1>i, <1>t, <1>g DEF TypeOK, ShapeInv
<1>h. /\ g.pc = "cas" /\ g.cb = f.cb /\ g.dst = f.dst /\ g.src = f.src
      /\ g.moving = f.moving
  BY <1>f DEF Frame
<1>1. RaceInv'
  BY <1>i, <1>g, <1>c, <1>h, RaceStep
<1>2. UNCHANGED <<refs, target, block, life, ptr>>
  BY DEF Load, CasFails
<1>3. Carries(t)'
  BY <1>i, <1>f, <1>c, <1>h, <1>2 DEF LocalInv, Carries, NoLocals
<1>4. ptr[g.src] = g.cb
  BY <1>i, <1>f, <1>h DEF SourceInv
<1> QED
  BY <1>t, <1>f, <1>g, <1>c, <1>h, <1>1, <1>2, <1>3, <1>4, CallOnly DEF Busy

\* The same in lock(), which gives up at zero.
LEMMA LockReadInv ==
  ASSUME IInv, NEW t \in Thread, LockLoad(t) \/ LockCasFails(t)
  PROVE  IInv'
<1> DEFINE f == call[t]
<1> DEFINE n == refs["strong"][f.cb]
<1> DEFINE g == IF n = 0 THEN Idle ELSE [f EXCEPT !.pc = "lock_cas", !.seen = n]
<1>i. /\ TypeOK /\ ShapeInv /\ CountInv /\ StrongOwnerInv /\ WeakOwnerInv /\ ObjectInv
      /\ LocalInv /\ SourceInv /\ StageInv /\ RaceInv /\ UniqueInv /\ DrainInv
  BY DEF IInv
<1>t. TypeOK' /\ ShapeInv'
  BY <1>i, StepType DEF Step
<1>f. f \in Frame /\ f.pc \in {"lock_load", "lock_cas"} /\ ~f.moving
  BY <1>i DEF TypeOK, LockLoad, LockCasFails, Runs, At, ShapeInv, FrameShape
<1>g. call' = [call EXCEPT ![t] = g]
  BY DEF LockLoad, LockCasFails, LockSees
<1>c. call'[t] = g /\ g \in Frame /\ FrameShape(g)
  BY <1>i, <1>t, <1>g DEF TypeOK, ShapeInv
<1>h. \/ g.pc = "idle" /\ g.dst = NULL /\ g.src = NULL /\ ~g.moving
      \/ /\ g.pc = "lock_cas" /\ g.cb = f.cb /\ g.dst = f.dst /\ g.src = f.src
         /\ g.moving = f.moving
  BY <1>f DEF Frame, Idle
<1> HIDE DEF g
<1>1. RaceInv'
  BY <1>i, <1>f, <1>g, <1>c, <1>h, RaceStep
<1>2. UNCHANGED <<refs, target, block, life, ptr>>
  BY DEF LockLoad, LockCasFails
<1>3. Carries(t)'
  BY <1>i, <1>f, <1>c, <1>h, <1>2 DEF LocalInv, Carries, NoLocals
<1>4. g.pc = "lock_cas" => ptr[g.src] = g.cb
  BY <1>i, <1>f, <1>h DEF SourceInv
<1> QED
  BY <1>t, <1>f, <1>g, <1>c, <1>h, <1>1, <1>2, <1>3, <1>4, CallOnly DEF Busy

\* The exchange takes the reference: the count is the one that was read.
LEMMA CasSucceedsInv ==
  ASSUME IInv, NEW t \in Thread, CasSucceeds(t)
  PROVE  IInv' /\ refs[call[t].kind][call[t].cb] # 0
<1> DEFINE f == call[t]
<1>i. /\ TypeOK /\ ShapeInv /\ CountInv /\ StrongOwnerInv /\ WeakOwnerInv /\ ObjectInv
      /\ LocalInv /\ SourceInv /\ StageInv /\ RaceInv /\ UniqueInv /\ DrainInv
  BY DEF IInv
<1>t. TypeOK' /\ ShapeInv'
  BY <1>i, StepType DEF Step
<1>f. f \in Frame /\ f.pc = "cas"
  BY <1>i DEF TypeOK, CasSucceeds, Runs, At
<1>k. PICK k \in Kind : f.kind = k
  BY <1>f DEF Frame
<1>s. /\ f.cb \in Object /\ ptr[f.src] = f.cb
      /\ f.src \in StrongHandle => life[f.cb] = "alive"
      /\ f.src \in WeakHandle => life[f.cb] \in {"alive", "destroying", "destroyed"}
      /\ f.src \in StrongHandle \cup (IF k = "weak" THEN WeakHandle ELSE {})
  BY <1>i, <1>f, <1>k, SourceIsAlive DEF ShapeInv, FrameShape
<1>o. PICK o \in Object : f.cb = o
  BY <1>s
<1>a. k = "strong" => life[o] = "alive"
  BY <1>s, <1>o
<1>r. refs[k][o] # 0
  <2>1. CASE k = "strong"
    <3>1. f.src \in StrongHolder /\ life[o] = "alive"
      BY <1>s, <1>o, <2>1 DEF StrongHolder
    <3> QED
      BY <1>s, <1>o, <2>1, <3>1, NoOwner
  <2>2. CASE k = "weak"
    <3>1. \E z \in WeakHolder : ptr[z] = o
      <4>1. CASE f.src \in WeakHandle
        BY <4>1, <1>s, <1>o DEF WeakHolder
      <4>2. CASE f.src \in StrongHandle
        BY <4>2, <1>i, <1>s, <1>o DEF ObjectInv, WeakHolder
      <4> QED
        BY <4>1, <4>2, <1>s, <2>2
    <3> QED
      BY <2>2, <3>1, NoWatcher
  <2> QED
    BY <2>1, <2>2 DEF Kind
<1>1. /\ refs' = [refs EXCEPT ![k][o] = refs[k][o] + 1]
      /\ ptr' = [ptr EXCEPT ![Local(k, t)] = o]
      /\ Goto(t, "install") /\ UNCHANGED <<target, block, life>>
  BY <1>k, <1>o DEF CasSucceeds
<1>2. IInv'
  BY <1>t, <1>f, <1>k, <1>o, <1>a, <1>r, <1>1, AddStep
<1> QED
  BY <1>2, <1>k, <1>o, <1>r

\* So does the one in lock(): somebody still owns the target, and the count does not
\* wrap, as the local that takes the reference is not yet counted.
LEMMA LockCasSucceedsInv ==
  ASSUME IInv, EnoughRefs, NEW t \in Thread, LockCasSucceeds(t)
  PROVE  IInv' /\ call[t].seen # MaxRefs
<1> DEFINE f == call[t]
<1>i. /\ TypeOK /\ ShapeInv /\ CountInv /\ StrongOwnerInv /\ WeakOwnerInv /\ ObjectInv
      /\ LocalInv /\ SourceInv /\ StageInv /\ RaceInv /\ UniqueInv /\ DrainInv
  BY DEF IInv
<1>t. TypeOK' /\ ShapeInv'
  BY <1>i, StepType DEF Step
<1>f. f \in Frame /\ f.pc = "lock_cas" /\ f.kind = "strong" /\ f.seen # 0 /\ f.src \in WeakHandle
  BY <1>i DEF TypeOK, LockCasSucceeds, Runs, At, ShapeInv, FrameShape
<1>s. f.cb \in Object /\ life[f.cb] \in {"alive", "destroying", "destroyed"}
  BY <1>f, SourceIsAlive
<1>o. PICK o \in Object : f.cb = o
  BY <1>s
<1>r. refs["strong"][o] = f.seen /\ refs["strong"][o] # 0
  BY <1>f, <1>o DEF LockCasSucceeds
<1>a. life[o] = "alive"
  <2>1. PICK z \in StrongHolder : ptr[z] = o
    BY <1>r, <1>s, <1>o, NoOwner
  <2> QED
    BY <1>i, <1>s, <1>o, <2>1, ConstantsAssumption DEF StrongOwnerInv
<1>m. f.seen < MaxRefs
  <2>1. Owners("strong", o) \subseteq StrongHolder \ {Local("strong", t)}
    <3>1. ptr[Local("strong", t)] = NULL
      BY <1>i, <1>f DEF LocalInv, Carries, NoLocals, Kind
    <3> QED
      BY <3>1, ConstantsAssumption DEF Owners, Holder
  <2>2. /\ IsFiniteSet(StrongHolder \ {Local("strong", t)})
        /\ Cardinality(StrongHolder \ {Local("strong", t)}) = Cardinality(StrongHolder) - 1
    <3>1. Local("strong", t) \in StrongHolder
      BY LocalFacts DEF Kind, Holder
    <3> QED
      BY <3>1, HoldersFinite, FS_RemoveElement
  <2>3. Cardinality(Owners("strong", o)) <= Cardinality(StrongHolder) - 1
    BY <2>1, <2>2, FS_Subset
  <2>4. refs["strong"][o] = Cardinality(Owners("strong", o))
    BY <1>i, <1>a DEF CountInv
  <2>5. Cardinality(StrongHolder) \in Nat /\ Cardinality(Owners("strong", o)) \in Nat
    BY HoldersFinite, OwnersFinite, FS_CardinalityType DEF Kind
  <2> QED
    BY <1>r, <2>3, <2>4, <2>5, ConstantsAssumption DEF EnoughRefs
<1>1. /\ refs' = [refs EXCEPT !["strong"][o] = refs["strong"][o] + 1]
      /\ ptr' = [ptr EXCEPT ![Local("strong", t)] = o]
      /\ Goto(t, "lock_target") /\ UNCHANGED <<target, block, life>>
  <2>1. f.seen # MaxRefs /\ Plus1(f.seen) = f.seen + 1
    BY <1>m, <1>f, ConstantsAssumption DEF Plus1, Frame
  <2> QED
    BY <1>o, <1>r, <2>1 DEF LockCasSucceeds
<1>2. "strong" \in Kind
  BY DEF Kind
<1>3. IInv'
  BY <1>t, <1>f, <1>o, <1>a, <1>r, <1>1, <1>2, AddStep
<1> QED
  BY <1>3, <1>m, ConstantsAssumption

\* A finished copy or lock puts its reference into the destination.
LEMMA InstallInv ==
  ASSUME IInv, NEW t \in Thread, Install(t)
  PROVE  IInv'
<1> DEFINE f == call[t]
<1>i. /\ TypeOK /\ ShapeInv /\ CountInv /\ StrongOwnerInv /\ WeakOwnerInv /\ ObjectInv
      /\ LocalInv /\ SourceInv /\ StageInv /\ RaceInv /\ UniqueInv /\ DrainInv
  BY DEF IInv
<1>t. TypeOK' /\ ShapeInv'
  BY <1>i, StepType DEF Step
<1>f. f \in Frame /\ f.pc = "install" /\ f.dst \in Handle(f.kind) /\ ~f.moving
  BY <1>i DEF TypeOK, Install, Runs, At, ShapeInv, FrameShape
<1>k. PICK k \in Kind : f.kind = k
  BY <1>f DEF Frame
<1>x. PICK x \in Handle(k) : f.dst = x
  BY <1>f, <1>k
<1>h. /\ x # NULL /\ x \in StrongHolder \cup WeakHolder
      /\ Local(k, t) \in StrongHolder \cup WeakHolder /\ x # Local(k, t)
      /\ x \in StrongHandle \cup WeakHandle
  BY HandleFacts, LocalFacts
<1>n. \A j \in Kind \ {k} : ptr[Local(j, t)] = NULL
  BY <1>i, <1>f, <1>k DEF LocalInv, Carries, OnlyLocal
<1>p. /\ ptr' = Swapped(x, Local(k, t))
      /\ ptr'[Local(k, t)] = ptr[x]
      /\ \A j \in Kind \ {k} : ptr'[Local(j, t)] = NULL
  <2>1. ptr' = Swapped(x, Local(k, t))
    BY <1>k, <1>x DEF Install
  <2> QED
    BY <2>1, <1>i, <1>h, <1>n, LocalFacts, HandleFacts DEF Swapped, TypeOK
<1>g. \E g \in Frame :
        /\ call' = [call EXCEPT ![t] = g]
        /\ ~g.moving
        /\ ptr[x] = NULL => g.pc = "idle" /\ g.dst = NULL /\ g.src = NULL
        /\ ptr[x] # NULL => /\ g.pc = "release" /\ g.cb = ptr[x] /\ g.kind = k
                           /\ g.dst = f.dst /\ g.src = f.src
  <2>1. CASE ptr[x] = NULL
    <3>1. Return(t) /\ ~At(t, "idle")
      BY <1>x, <1>f, <2>1 DEF Install, At
    <3> QED
      BY <1>f, <2>1, <3>1, ReturnFrame
  <2>2. CASE ptr[x] # NULL
    <3> DEFINE g == [f EXCEPT !.pc = "release", !.cb = ptr[x]]
    <3>1. call' = [call EXCEPT ![t] = g]
      BY <1>i, <1>x, <2>2 DEF Install, TypeOK
    <3>2. g \in Frame
      BY <1>i, <1>t, <3>1 DEF TypeOK
    <3>3. /\ ~g.moving /\ g.pc = "release" /\ g.cb = ptr[x] /\ g.kind = k
          /\ g.dst = f.dst /\ g.src = f.src
      BY <1>f, <1>k DEF Frame
    <3> QED
      BY <2>2, <3>1, <3>2, <3>3
  <2> QED
    BY <2>1, <2>2
<1>g1. PICK g \in Frame :
        /\ call' = [call EXCEPT ![t] = g]
        /\ ~g.moving
        /\ ptr[x] = NULL => g.pc = "idle" /\ g.dst = NULL /\ g.src = NULL
        /\ ptr[x] # NULL => /\ g.pc = "release" /\ g.cb = ptr[x] /\ g.kind = k
                           /\ g.dst = f.dst /\ g.src = f.src
  BY <1>g
<1>c. call'[t] = g /\ FrameShape(g)
  BY <1>i, <1>t, <1>g1 DEF TypeOK, ShapeInv
<1>1. RaceInv'
  <2>1. g.moving = f.moving
    BY <1>f, <1>g1 DEF Frame
  <2> QED
    BY <1>i, <1>g1, <1>c, <2>1, RaceStep
<1>2. Carries(t)'
  <2>1. CASE ptr[x] = NULL
    BY <2>1, <1>c, <1>g1, <1>p DEF Carries, NoLocals
  <2>2. CASE ptr[x] # NULL
    BY <2>2, <1>c, <1>g1, <1>p DEF Carries, OnlyLocal
  <2> QED
    BY <2>1, <2>2
<1>3. \A u \in Thread \ {t} :
        {x, Local(k, t)} \cap Handle(k) \cap {call[u].dst, call[u].src} = {}
  <2>1. Local(k, t) \notin Handle(k)
    BY LocalFacts DEF Handle
  <2> QED
    BY <1>i, <1>x, <1>h, <2>1 DEF RaceInv
<1>4. k = "weak" /\ ptr[Local(k, t)] # NULL =>
        life[ptr[Local(k, t)]] \in {"alive", "destroying", "destroyed"}
  BY <1>i, <1>f, <1>k DEF StageInv, At
<1>5. UNCHANGED <<refs, target, block, life>>
  BY DEF Install
<1> QED
  BY <1>t, <1>f, <1>g1, <1>p, <1>1, <1>2, <1>3, <1>4, <1>5, SwapStep, ZenonT(60) DEF Busy

\* reset() empties its handle, and move assignment starts with that.
LEMMA EmptyInv ==
  ASSUME IInv, TypeOK', ShapeInv', NEW t \in Thread, NEW k \in Kind, NEW x \in Handle(k),
         NEW g \in Frame, Begin(t, g), Exclusive(x), ptr' = Swapped(x, Local(k, t)),
         UNCHANGED <<refs, target, block, life>>,
         g.pc = IF ptr[x] = NULL THEN "take" ELSE "release",
         g.kind = k, g.cb = ptr[x], g.dst = x,
         g.src # NULL => g.moving /\ Exclusive(g.src)
  PROVE  IInv'
<1>i. /\ TypeOK /\ ShapeInv /\ CountInv /\ StrongOwnerInv /\ WeakOwnerInv /\ ObjectInv
      /\ LocalInv /\ SourceInv /\ StageInv /\ RaceInv /\ UniqueInv /\ DrainInv
  BY DEF IInv
<1>c. /\ call' = [call EXCEPT ![t] = g] /\ call'[t] = g /\ FrameShape(g)
      /\ NoLocals(t) /\ call[t].pc \notin Busy
  BY <1>i, IdleFacts DEF Begin, Runs, TypeOK, ShapeInv
<1>h. /\ x \in StrongHolder \cup WeakHolder
      /\ Local(k, t) \in StrongHolder \cup WeakHolder /\ x # Local(k, t)
      /\ Local(k, t) \notin Handle(k)
  BY HandleFacts, LocalFacts DEF Handle
<1>p. /\ ptr'[x] = NULL /\ ptr'[Local(k, t)] = ptr[x]
      /\ \A j \in Kind \ {k} : ptr'[Local(j, t)] = NULL
  BY <1>i, <1>h, <1>c, LocalFacts, HandleFacts DEF Swapped, TypeOK, NoLocals
<1>1. RaceInv'
  BY <1>i, <1>c, RaceStep
<1>2. Carries(t)'
  <2>1. CASE ptr[x] = NULL
    BY <2>1, <1>c, <1>p DEF Carries, NoLocals
  <2>2. CASE ptr[x] # NULL
    BY <2>2, <1>c, <1>p DEF Carries, OnlyLocal
  <2> QED
    BY <2>1, <2>2
<1>3. \A u \in Thread \ {t} :
        {x, Local(k, t)} \cap Handle(k) \cap {call[u].dst, call[u].src} = {}
  BY <1>h DEF Exclusive
<1>4. ptr[Local(k, t)] = NULL
  BY <1>c DEF NoLocals
<1>5. /\ x \in Handle(k) /\ Local(k, t) \in Handle(k) \cup {Local(k, t)}
      /\ g.pc \in {"idle", "release", "take"}
      /\ g.moving => ptr'[g.dst] = NULL
  BY <1>p
<1>6. k = "weak" /\ ptr[Local(k, t)] # NULL =>
        life[ptr[Local(k, t)]] \in {"alive", "destroying", "destroyed"}
  BY <1>4
<1>7. call' = [call EXCEPT ![t] = g] /\ call[t].pc \notin Busy
  BY <1>c
<1> QED
  <2>1. PICK y \in Handle(k) \cup {Local(k, t)} : y = Local(k, t)
    OBVIOUS
  <2>2. /\ ptr' = Swapped(x, y)
        /\ \A u \in Thread \ {t} :
             {x, y} \cap Handle(k) \cap {call[u].dst, call[u].src} = {}
        /\ k = "weak" /\ ptr[y] # NULL =>
             life[ptr[y]] \in {"alive", "destroying", "destroyed"}
    BY <2>1, <1>3, <1>6
  <2> QED
    <3>1. RaceInv' /\ Carries(t)' /\ g \in Frame
      BY <1>1, <1>2
    <3>2. UNCHANGED <<refs, target, block, life>>
      OBVIOUS
    <3>3. TypeOK' /\ ShapeInv' /\ IInv
      OBVIOUS
    <3>4. g.pc \in {"idle", "release", "take"} /\ (g.moving => ptr'[g.dst] = NULL)
      BY <1>5
    <3>5. call' = [call EXCEPT ![t] = g] /\ call[t].pc \notin Busy
      BY <1>7
    <3> QED
      BY ONLY <2>2, <3>1, <3>2, <3>3, <3>4, <3>5, SwapStep

\* A handle is reset or destroyed.
LEMMA ResetInv ==
  ASSUME IInv, TypeOK', ShapeInv', NEW t \in Thread, NEW k \in Kind, NEW x \in Handle(k),
         Reset(t, k, x)
  PROVE  IInv'
<1> DEFINE g == [Idle EXCEPT !.pc = "release", !.kind = k, !.cb = ptr[x], !.dst = x]
<1>1. g.pc = "release" /\ g.kind = k /\ g.cb = ptr[x] /\ g.dst = x /\ g.src = NULL
  BY DEF Idle
<1>2. g \in Frame
  <2>1. call' = [call EXCEPT ![t] = g]
    BY DEF Reset, Begin
  <2> QED
    BY <2>1 DEF IInv, TypeOK
<1> QED
  BY <1>1, <1>2, EmptyInv DEF Reset

\* A move assignment begins.
LEMMA MoveAssignInv ==
  ASSUME IInv, TypeOK', ShapeInv', NEW t \in Thread, NEW k \in Kind, NEW x \in Handle(k),
         NEW y \in Handle(k), MoveAssign(t, k, x, y)
  PROVE  IInv'
<1> DEFINE g == [Idle EXCEPT !.pc = IF ptr[x] = NULL THEN "take" ELSE "release",
                             !.kind = k, !.cb = ptr[x], !.dst = x, !.src = y,
                             !.moving = TRUE]
<1>1. /\ g.pc = IF ptr[x] = NULL THEN "take" ELSE "release"
      /\ g.kind = k /\ g.cb = ptr[x] /\ g.dst = x /\ g.src = y /\ g.moving
  BY DEF Idle
<1>2. g \in Frame
  <2>1. call' = [call EXCEPT ![t] = g]
    BY DEF MoveAssign, Begin
  <2> QED
    BY <2>1 DEF IInv, TypeOK
<1> QED
  BY <1>1, <1>2, EmptyInv DEF MoveAssign

\* Move construction and swap: no call is left running.
LEMMA ExchangeInv ==
  ASSUME IInv, TypeOK', ShapeInv', NEW t \in Thread, NEW k \in Kind, NEW x \in Handle(k),
         NEW y \in Handle(k), MoveConstruct(t, x, y) \/ Swap(t, x, y)
  PROVE  IInv'
<1>i. /\ TypeOK /\ ShapeInv /\ CountInv /\ StrongOwnerInv /\ WeakOwnerInv /\ ObjectInv
      /\ LocalInv /\ SourceInv /\ StageInv /\ RaceInv /\ UniqueInv /\ DrainInv
  BY DEF IInv
<1>1. /\ At(t, "idle") /\ Exclusive(x) /\ Exclusive(y) /\ ptr' = Swapped(x, y)
      /\ UNCHANGED <<refs, target, block, life, call>>
  BY DEF MoveConstruct, Swap, Runs
<1>2. /\ call' = [call EXCEPT ![t] = Idle] /\ call'[t] = Idle
      /\ NoLocals(t) /\ call[t].pc \notin Busy
  BY <1>i, <1>1, IdleFacts DEF TypeOK
<1>3. /\ Idle \in Frame /\ FrameShape(Idle)
      /\ Idle.pc = "idle" /\ Idle.dst = NULL /\ Idle.src = NULL /\ ~Idle.moving
  BY IdleType DEF Idle
<1>4. RaceInv'
  BY <1>i, <1>2, <1>3, RaceStep
<1>5. \A j \in Kind : ptr'[Local(j, t)] = NULL
  <2>1. ASSUME NEW j \in Kind
        PROVE  /\ x # Local(j, t) /\ y # Local(j, t)
               /\ Local(j, t) \in StrongHolder \cup WeakHolder
    BY LocalFacts, HandleFacts
  <2> QED
    BY <1>i, <1>1, <1>2, <2>1 DEF Swapped, TypeOK, NoLocals
<1>6. Carries(t)'
  BY <1>2, <1>3, <1>5 DEF Carries, NoLocals
<1>7. \A u \in Thread \ {t} : {x, y} \cap Handle(k) \cap {call[u].dst, call[u].src} = {}
  BY <1>1 DEF Exclusive
<1>8. k = "weak" /\ ptr[y] # NULL => life[ptr[y]] \in {"alive", "destroying", "destroyed"}
  BY <1>i DEF WeakOwnerInv, Handle
<1> QED
  BY <1>1, <1>2, <1>3, <1>4, <1>6, <1>7, <1>8, SwapStep

\* A move assignment takes the source's reference.
LEMMA TakeInv ==
  ASSUME IInv, NEW t \in Thread, Take(t)
  PROVE  IInv'
<1> DEFINE f == call[t]
<1>i. /\ TypeOK /\ ShapeInv /\ CountInv /\ StrongOwnerInv /\ WeakOwnerInv /\ ObjectInv
      /\ LocalInv /\ SourceInv /\ StageInv /\ RaceInv /\ UniqueInv /\ DrainInv
  BY DEF IInv
<1>t. TypeOK' /\ ShapeInv'
  BY <1>i, StepType DEF Step
<1>f. f \in Frame /\ f.pc = "take" /\ f.moving /\ f.dst # NULL /\ f.dst # f.src
  BY <1>i, HandleFacts DEF TypeOK, Take, Runs, At, ShapeInv, FrameShape
<1>k. PICK k \in Kind : f.dst \in Handle(k) /\ f.src \in Handle(k)
  BY <1>i, <1>f DEF ShapeInv, FrameShape
<1>x. PICK x \in Handle(k) : f.dst = x
  BY <1>k
<1>y. PICK y \in Handle(k) : f.src = y
  BY <1>k
<1>h. x \in StrongHolder \cup WeakHolder /\ y \in StrongHolder \cup WeakHolder /\ x # y
  BY <1>f, <1>x, <1>y, HandleFacts
<1>1. ptr[x] = NULL
  BY <1>i, <1>f, <1>x DEF SourceInv
<1>2. /\ ptr' = Swapped(x, y) /\ UNCHANGED <<refs, target, block, life>>
      /\ call' = [call EXCEPT ![t] = Idle] /\ call'[t] = Idle
  BY <1>i, <1>x, <1>y, <1>1 DEF Take, Swapped, TypeOK
<1>3. /\ Idle \in Frame /\ FrameShape(Idle)
      /\ Idle.pc = "idle" /\ Idle.dst = NULL /\ Idle.src = NULL /\ ~Idle.moving
  BY IdleType DEF Idle
<1>4. RaceInv'
  BY <1>i, <1>2, <1>3, RaceStep
<1>5. \A j \in Kind : ptr'[Local(j, t)] = NULL
  <2>1. ASSUME NEW j \in Kind
        PROVE  /\ x # Local(j, t) /\ y # Local(j, t)
               /\ Local(j, t) \in StrongHolder \cup WeakHolder
               /\ ptr[Local(j, t)] = NULL
    BY <1>i, <1>f, LocalFacts, HandleFacts DEF LocalInv, Carries, NoLocals
  <2> QED
    BY <1>i, <1>2, <2>1 DEF Swapped, TypeOK
<1>6. Carries(t)'
  BY <1>2, <1>3, <1>5 DEF Carries, NoLocals
<1>7. \A u \in Thread \ {t} : {x, y} \cap Handle(k) \cap {call[u].dst, call[u].src} = {}
  <2>1. ASSUME NEW u \in Thread \ {t}
        PROVE  x # call[u].dst /\ x # call[u].src /\ y # call[u].src
    BY <1>i, <1>f, <1>x, <1>y DEF RaceInv
  <2>2. ASSUME NEW u \in Thread \ {t} PROVE y # call[u].dst
    BY <1>i, <1>y, HandleFacts DEF RaceInv
  <2> QED
    BY <2>1, <2>2
<1>8. k = "weak" /\ ptr[y] # NULL => life[ptr[y]] \in {"alive", "destroying", "destroyed"}
  BY <1>i DEF WeakOwnerInv, Handle
<1> QED
  BY <1>t, <1>f, <1>2, <1>3, <1>4, <1>6, <1>7, <1>8, SwapStep DEF Busy

-----------------------------------------------------------------------------
(* The invariant. *)

\* Nothing is referred to at the start.
LEMMA InitIInv == Init => IInv
<1> SUFFICES ASSUME Init PROVE IInv
  OBVIOUS
<1>t. TypeOK /\ ShapeInv
  BY InitType
<1>n. \A x \in StrongHolder \cup WeakHolder : ptr[x] = NULL
  BY DEF Init
<1>c. \A t \in Thread : call[t] = Idle
  BY DEF Init
<1>d. Idle.pc = "idle" /\ Idle.dst = NULL /\ Idle.src = NULL /\ ~Idle.moving
  BY DEF Idle
<1>1. CountInv
  <2>1. ASSUME NEW k \in Kind, NEW o \in Object
        PROVE  refs[k][o] = 0 /\ Cardinality(Owners(k, o)) = 0
    <3>1. Owners(k, o) = {}
      BY <1>n, ConstantsAssumption DEF Owners, Holder
    <3> QED
      BY <3>1, FS_EmptySet DEF Init
  <2> QED
    BY <2>1 DEF CountInv, Kind
<1>2. StrongOwnerInv /\ WeakOwnerInv
  BY <1>n DEF StrongOwnerInv, WeakOwnerInv, WeakHolder
<1>3. ObjectInv
  BY <1>n DEF Init, ObjectInv, WeakHolder
<1>4. LocalInv
  BY <1>n, <1>c, <1>d, LocalFacts DEF LocalInv, Carries, NoLocals
<1>5. SourceInv /\ StageInv /\ RaceInv /\ UniqueInv
  BY <1>c, <1>d DEF SourceInv, StageInv, RaceInv, UniqueInv, At
<1>6. DrainInv
  BY DEF Init, DrainInv
<1> QED
  BY <1>t, <1>1, <1>2, <1>3, <1>4, <1>5, <1>6 DEF IInv

\* Every call that begins keeps the invariant ...
LEMMA CallInv ==
  ASSUME IInv, NEW t \in Thread, Call(t)
  PROVE  IInv'
<1>t. TypeOK' /\ ShapeInv'
  BY CallType DEF IInv
<1>k. /\ "strong" \in Kind /\ "weak" \in Kind
      /\ Handle("strong") = StrongHandle /\ Handle("weak") = WeakHandle
  BY DEF Kind, Handle
<1>1. CASE \E x \in StrongHandle, o \in Object : BeginConstruct(t, x, o)
  BY <1>1, BeginConstructInv
<1>2. CASE \E x, y \in StrongHandle :
             \/ StrongCopy(t, x, y) \/ StrongMoveConstruct(t, x, y)
             \/ StrongSwap(t, x, y) \/ StrongMoveAssign(t, x, y)
  BY <1>2, <1>t, <1>k, CopyInv, ExchangeInv, MoveAssignInv
  DEF StrongCopy, StrongMoveConstruct, StrongSwap, StrongMoveAssign
<1>3. CASE \E x, y \in WeakHandle :
             \/ WeakCopy(t, x, y) \/ WeakMoveConstruct(t, x, y)
             \/ WeakSwap(t, x, y) \/ WeakMoveAssign(t, x, y)
  BY <1>3, <1>t, <1>k, CopyInv, ExchangeInv, MoveAssignInv
  DEF WeakCopy, WeakMoveConstruct, WeakSwap, WeakMoveAssign
<1>4. CASE \E x \in WeakHandle, y \in StrongHandle : WeakFromStrong(t, x, y) \/ Lock(t, y, x)
  BY <1>4, <1>t, WeakFromStrongInv, LockInv
<1>5. CASE \/ \E x \in StrongHandle : StrongReset(t, x)
           \/ \E x \in WeakHandle : WeakReset(t, x)
  BY <1>5, <1>t, <1>k, ResetInv DEF StrongReset, WeakReset
<1> QED
  BY <1>1, <1>2, <1>3, <1>4, <1>5 DEF Call

\* Nothing but `terminated` changes when the process is terminated.
LEMMA StutterInv ==
  ASSUME IInv, TypeOK', UNCHANGED <<refs, target, block, life, ptr, call>>
  PROVE  IInv'
<1>i. /\ TypeOK /\ ShapeInv /\ CountInv /\ StrongOwnerInv /\ WeakOwnerInv /\ ObjectInv
      /\ LocalInv /\ SourceInv /\ StageInv /\ RaceInv /\ UniqueInv /\ DrainInv
  BY DEF IInv
<1>1. ShapeInv'
  BY <1>i DEF ShapeInv
<1>2. CountInv'
  BY <1>i DEF CountInv, Owners
<1>3. StrongOwnerInv' /\ WeakOwnerInv'
  BY <1>i DEF StrongOwnerInv, WeakOwnerInv, At
<1>4. ObjectInv' /\ SourceInv'
  BY <1>i DEF ObjectInv, SourceInv
<1>5. LocalInv'
  BY <1>i DEF LocalInv, Carries, OnlyLocal, NoLocals
<1>6. StageInv'
  BY <1>i DEF StageInv, At
<1>7. RaceInv' /\ UniqueInv'
  BY <1>i DEF RaceInv, UniqueInv, At
<1>8. DrainInv'
  BY <1>i DEF DrainInv, At
<1> QED
  BY <1>1, <1>2, <1>3, <1>4, <1>5, <1>6, <1>7, <1>8 DEF IInv

\* ... and so does every step of a call.
LEMMA StepInv ==
  ASSUME IInv, EnoughRefs, NEW t \in Thread, Step(t)
  PROVE  IInv'
<1>1. CASE Terminate(t)
  <2>1. TypeOK'
    BY <1>1, StepType DEF IInv
  <2>2. UNCHANGED <<refs, target, block, life, ptr, call>>
    BY <1>1 DEF Terminate
  <2> QED
    BY <2>1, <2>2, StutterInv
<1> QED
  BY <1>1, FinishConstructInv, ConstructThrowsInv, ReadInv, CasSucceedsInv, InstallInv,
     LockReadInv, LockCasSucceedsInv, LockTargetInv, ReleaseInv, ExchangeTargetInv,
     DestroyBaseInv, FreeBlockInv, TakeInv DEF Step

\* The invariant is inductive.
LEMMA NextIInv == ASSUME IInv, EnoughRefs, [Next]_vars PROVE IInv'
<1>1. CASE Next
  BY <1>1, CallInv, StepInv DEF Next
<1>2. CASE UNCHANGED vars
  <2>1. TypeOK'
    BY <1>2 DEF vars, IInv, TypeOK
  <2>2. UNCHANGED <<refs, target, block, life, ptr, call>>
    BY <1>2 DEF vars
  <2> QED
    BY <2>1, <2>2, StutterInv
<1> QED
  BY <1>1, <1>2

\* The counts are the numbers of references, and every obligation that a zero
\* count brings is with exactly one call, for any number of threads and handles.
THEOREM Invariance == ASSUME EnoughRefs PROVE Spec => []IInv
<1>1. IInv /\ [Next]_vars => IInv'
  BY NextIInv
<1> QED
  BY InitIInv, <1>1, PTL DEF Spec

-----------------------------------------------------------------------------
(* State properties. *)

\* A target and a control block exist from construction on, and the target is
\* gone before the control block is.
LEMMA AliveHasBlock ==
  ASSUME IInv, NEW o \in Object,
         life[o] \in {"constructing", "alive", "destroying"}
  PROVE  block[o] = "live"
  BY DEF IInv, ObjectInv, TypeOK

\* A strong handle holds a live target.
LEMMA HandleIsAlive ==
  ASSUME IInv, NEW x \in StrongHandle, ptr[x] # NULL
  PROVE  ptr[x] \in Object /\ life[ptr[x]] = "alive"
<1>1. x \in StrongHolder /\ \A t \in Thread : x # Local("strong", t)
  BY LocalFacts DEF StrongHolder, Kind
<1> QED
  BY <1>1, OwnedIsAlive

\* A strong handle refers to a target that is alive, by StrongOwnerInv.
LEMMA InvNoDanglingHandle == IInv => NoDanglingHandle
<1> SUFFICES ASSUME IInv, NEW x \in StrongHandle, ptr[x] # NULL
             PROVE  /\ life[ptr[x]] = "alive" /\ target[ptr[x]] = ptr[x]
                    /\ block[ptr[x]] = "live"
  BY DEF NoDanglingHandle
<1>1. ptr[x] \in Object /\ life[ptr[x]] = "alive"
  BY HandleIsAlive
<1> QED
  BY <1>1, AliveHasBlock DEF IInv, ObjectInv

\* Whoever is about to touch a control block owns a reference or is deleting it.
LEMMA InvNoUseAfterFree == IInv => NoUseAfterFree
<1> SUFFICES ASSUME IInv PROVE NoUseAfterFree
  OBVIOUS
<1>1. ASSUME NEW w \in WeakHandle, ptr[w] # NULL PROVE block[ptr[w]] = "live"
  BY <1>1 DEF IInv, WeakOwnerInv, WeakHolder
<1>2. ASSUME NEW t \in Thread, call[t].pc \in Label \ {"idle", "install", "take"}
      PROVE  block[call[t].cb] = "live"
  <2>1. call[t].cb \in Object
    BY <1>2 DEF IInv, ShapeInv, FrameShape
  <2>2. CASE call[t].pc \in {"load", "cas", "lock_load", "lock_cas", "lock_target"}
    BY <2>2, SourceIsAlive
  <2>3. CASE call[t].pc \in {"ctor", "exchange", "destroy"}
    BY <2>1, <2>3, AliveHasBlock DEF IInv, StageInv, At
  <2>4. CASE call[t].pc = "free"
    BY <2>4 DEF IInv, StageInv, At
  <2>5. CASE call[t].pc = "release"
    <3>1. PICK k \in Kind : call[t].kind = k
      BY DEF IInv, TypeOK, Frame
    <3>2. ptr[Local(k, t)] = call[t].cb /\ call[t].cb # NULL
      BY <2>1, <2>5, <3>1, ConstantsAssumption DEF IInv, LocalInv, Carries, OnlyLocal
    <3>3. Local(k, t) \in Holder(k)
      BY LocalFacts
    <3>4. CASE k = "strong"
      BY <2>1, <3>2, <3>3, <3>4, AliveHasBlock DEF IInv, StrongOwnerInv, Holder
    <3>5. CASE k = "weak"
      BY <3>2, <3>3, <3>5 DEF IInv, WeakOwnerInv, Holder
    <3> QED
      BY <3>4, <3>5 DEF Kind
  <2> QED
    BY <1>2, <2>2, <2>3, <2>4, <2>5 DEF Label
<1> QED
  BY <1>1, <1>2 DEF NoUseAfterFree

\* What use_count and expired read is what CountInv counts.
LEMMA InvUseCountExact == IInv => UseCountExact
<1> SUFFICES ASSUME IInv PROVE UseCountExact
  OBVIOUS
<1>1. ASSUME NEW x \in StrongHandle, ptr[x] # NULL
      PROVE  UseCount(x) = Cardinality(Owners("strong", ptr[x]))
  BY <1>1, HandleIsAlive DEF IInv, CountInv, UseCount
<1>2. ASSUME NEW w \in WeakHandle, ptr[w] # NULL, life[ptr[w]] # "aborted"
      PROVE  Expired(w) <=> Owners("strong", ptr[w]) = {}
  <2>1. ptr[w] \in Object
    BY <1>2 DEF IInv, TypeOK, WeakHolder
  <2>2. refs["strong"][ptr[w]] = Cardinality(Owners("strong", ptr[w]))
    BY <1>2, <2>1 DEF IInv, CountInv
  <2> QED
    BY <1>2, <2>2, OwnersFinite DEF Expired, Kind
<1> QED
  BY <1>1, <1>2 DEF UseCountExact

\* The reference lock() has just taken keeps the target there.
LEMMA InvLockFindsTarget == IInv => LockFindsTarget
<1> SUFFICES ASSUME IInv, NEW t \in Thread, At(t, "lock_target")
             PROVE  target[call[t].cb] # NULL /\ life[call[t].cb] = "alive"
  BY DEF LockFindsTarget
<1>1. call[t].cb \in Object /\ call[t].kind = "strong"
  BY DEF IInv, ShapeInv, FrameShape, At
<1>2. ptr[Local("strong", t)] = call[t].cb /\ call[t].cb # NULL
  BY <1>1, ConstantsAssumption DEF IInv, LocalInv, Carries, OnlyLocal, At
<1>3. /\ Local("strong", t) \in StrongHolder
      /\ \A u \in Thread : Local("strong", t) = Local("strong", u) => ~At(u, "ctor")
  BY LocalFacts DEF Kind, Holder, At
<1>4. life[call[t].cb] = "alive"
  BY <1>2, <1>3, OwnedIsAlive
<1> QED
  BY <1>1, <1>2, <1>4 DEF IInv, ObjectInv

\* With no call running, only handles own, and DrainInv obliges nobody.
LEMMA InvNoLeak == IInv => NoLeak
<1> SUFFICES ASSUME IInv, Quiescent, NEW o \in Object, block[o] # "unused"
             PROVE  /\ life[o] = "alive" <=> \E x \in StrongHandle : ptr[x] = o
                    /\ block[o] = "live" <=> \E x \in StrongHandle \cup WeakHandle : ptr[x] = o
  BY DEF NoLeak
<1>i. NULL # o /\ \A t \in Thread : call[t].pc = "idle"
  BY ConstantsAssumption DEF Quiescent, At
\* Nobody is half way through construction, destruction or reclamation.
<1>1. life[o] # "constructing" /\ life[o] # "destroying"
  BY <1>i DEF IInv, DrainInv, At
<1>2. \A k \in Kind, t \in Thread : ptr[Local(k, t)] = NULL
  BY <1>i DEF IInv, LocalInv, Carries, NoLocals
<1>3. ASSUME life[o] = "alive" PROVE \E x \in StrongHandle : ptr[x] = o
  <2>1. refs["strong"][o] # 0
    BY <1>i, <1>3 DEF IInv, DrainInv, At
  <2>2. PICK x \in StrongHolder : ptr[x] = o
    BY <1>3, <2>1, NoOwner
  <2> QED
    BY <1>i, <1>2, <2>2 DEF StrongHolder, Locals, Kind
<1>4. ASSUME NEW x \in StrongHandle, ptr[x] = o PROVE life[o] = "alive" /\ block[o] = "live"
  BY <1>i, <1>4, HandleIsAlive, AliveHasBlock
<1>5. ASSUME block[o] = "live" PROVE \E x \in StrongHandle \cup WeakHandle : ptr[x] = o
  <2>1. refs["weak"][o] # 0
    BY <1>i, <1>5 DEF IInv, DrainInv, At
  <2>2. PICK x \in WeakHolder : ptr[x] = o
    BY <2>1, NoWatcher
  <2>3. CASE x \in Object
    <3>1. life[o] = "alive"
      BY <1>i, <1>1, <2>2, <2>3 DEF IInv, ObjectInv
    <3> QED
      BY <1>3, <3>1
  <2> QED
    BY <1>i, <1>2, <2>2, <2>3 DEF WeakHolder, Locals, Kind
<1>6. ASSUME NEW w \in WeakHandle, ptr[w] = o PROVE block[o] = "live"
  BY <1>i, <1>6 DEF IInv, WeakOwnerInv, WeakHolder
<1> QED
  BY <1>3, <1>4, <1>5, <1>6

-----------------------------------------------------------------------------
(* What a step does to the counts and to the stage of a target. *)

\* A count changes by one at a time.  It leaves zero only when the object is made,
\* and is never taken below.
LEMMA CountsStep ==
  ASSUME IInv, EnoughRefs, [Next]_vars, NEW k \in Kind, NEW o \in Object
  PROVE  \/ refs'[k][o] = refs[k][o]
         \/ refs'[k][o] = refs[k][o] + 1 /\ (refs[k][o] # 0 \/ block[o] = "unused")
         \/ refs'[k][o] = refs[k][o] - 1 /\ refs[k][o] # 0
<1> DEFINE Moves == \/ refs'[k][o] = refs[k][o]
                    \/ refs'[k][o] = refs[k][o] + 1 /\ (refs[k][o] # 0 \/ block[o] = "unused")
                    \/ refs'[k][o] = refs[k][o] - 1 /\ refs[k][o] # 0
<1>t. /\ refs \in [Kind -> [Object -> 0..MaxRefs]] /\ refs[k][o] \in 0..MaxRefs
      /\ MaxRefs \in Nat /\ "strong" \in Kind /\ "weak" \in Kind
  BY ConstantsAssumption DEF IInv, TypeOK, Kind
<1>1. ASSUME NEW t \in Thread, NEW x \in StrongHandle, NEW p \in Object,
             BeginConstruct(t, x, p)
      PROVE  Moves
  <2>1. refs' = [refs EXCEPT !["strong"][p] = 1, !["weak"][p] = 1] /\ block[p] = "unused"
    BY <1>1 DEF BeginConstruct
  <2>2. ASSUME p = o PROVE refs[k][o] = 0 /\ refs'[k][o] = 1
    <3>1. life[o] = "none" /\ NULL # o
      BY <2>1, <2>2, ConstantsAssumption DEF IInv, ObjectInv
    <3>2. \A z \in StrongHolder : ptr[z] # o
      BY <3>1 DEF IInv, StrongOwnerInv
    <3>3. \A z \in WeakHolder : ptr[z] # o
      BY <2>1, <2>2, <3>1 DEF IInv, WeakOwnerInv
    <3>4. refs["strong"][o] = 0 /\ refs["weak"][o] = 0
      BY <3>1, <3>2, <3>3, NoOwner, NoWatcher
    <3> QED
      BY <1>t, <2>1, <2>2, <3>4 DEF Kind
  <2>3. ASSUME p # o PROVE refs'[k][o] = refs[k][o]
    BY <1>t, <2>1, <2>3
  <2> QED
    BY <2>1, <2>2, <2>3
<1>2. ASSUME NEW t \in Thread, CasSucceeds(t) PROVE Moves
  <2>1. PICK j \in Kind, p \in Object : call[t].kind = j /\ call[t].cb = p
    BY <1>2 DEF CasSucceeds, Runs, At, IInv, TypeOK, Frame, ShapeInv, FrameShape
  <2>2. refs' = [refs EXCEPT ![j][p] = refs[j][p] + 1] /\ refs[j][p] # 0
    BY <1>2, <2>1, CasSucceedsInv DEF CasSucceeds
  <2> QED
    BY <1>t, <2>1, <2>2
<1>3. ASSUME NEW t \in Thread, LockCasSucceeds(t) PROVE Moves
  <2>1. PICK p \in Object : call[t].cb = p
    BY <1>3 DEF LockCasSucceeds, Runs, At, IInv, ShapeInv, FrameShape
  <2>2. refs["strong"][p] = call[t].seen /\ call[t].seen # 0 /\ call[t].seen # MaxRefs
    BY <1>3, <2>1, LockCasSucceedsInv
       DEF LockCasSucceeds, Runs, At, IInv, ShapeInv, FrameShape
  <2>3. refs' = [refs EXCEPT !["strong"][p] = refs["strong"][p] + 1]
    BY <1>3, <2>1, <2>2 DEF LockCasSucceeds, Plus1
  <2> QED
    BY <1>t, <2>1, <2>2, <2>3
<1>4. ASSUME NEW t \in Thread, Release(t) PROVE Moves
  <2>1. PICK j \in Kind, p \in Object : call[t].kind = j /\ call[t].cb = p
    BY <1>4 DEF Release, Runs, At, IInv, TypeOK, Frame, ShapeInv, FrameShape
  <2>2. refs[j][p] # 0
    BY <1>4, <2>1, ReleaseInv
  <2>3. refs' = [refs EXCEPT ![j][p] = refs[j][p] - 1]
    BY <1>4, <2>1, <2>2 DEF Release, Minus1
  <2> QED
    BY <1>t, <2>1, <2>2, <2>3
<1>5. ASSUME UNCHANGED refs PROVE Moves
  BY <1>5
<1>6. ASSUME NEW t \in Thread, Call(t) PROVE Moves
  <2>1. \/ UNCHANGED refs
        \/ \E x \in StrongHandle, p \in Object : BeginConstruct(t, x, p)
    BY <1>6 DEF Call, StrongCopy, WeakCopy, Copy, StrongMoveConstruct, WeakMoveConstruct,
       MoveConstruct, StrongSwap, WeakSwap, Swap, StrongMoveAssign, WeakMoveAssign,
       MoveAssign, WeakFromStrong, Lock, StrongReset, WeakReset, Reset
  <2> QED
    BY <1>1, <1>5, <2>1
<1>7. ASSUME NEW t \in Thread, Step(t) PROVE Moves
  <2>1. UNCHANGED refs \/ CasSucceeds(t) \/ LockCasSucceeds(t) \/ Release(t)
    BY <1>7 DEF Step, FinishConstruct, ConstructThrows, Load, Terminate, CasFails, Install,
       LockLoad, LockCasFails, LockTarget, ExchangeTarget, DestroyBase, FreeBlock, Take
  <2> QED
    BY <1>2, <1>3, <1>4, <1>5, <2>1
<1>8. CASE UNCHANGED vars
  BY <1>5, <1>8 DEF vars
<1> QED
  BY <1>6, <1>7, <1>8 DEF Next

\* Destruction starts in one place, the exchange that finds the target.
LEMMA DestroyStep ==
  ASSUME IInv, [Next]_vars, NEW o \in Object,
         life'[o] = "destroying", life[o] # "destroying"
  PROVE  life[o] = "alive" /\ Owners("strong", o) = {}
<1>t. life \in [Object -> {"none", "constructing", "alive", "destroying",
                           "destroyed", "aborted"}]
  BY DEF IInv, TypeOK
<1>1. PICK t \in Thread : Call(t) \/ Step(t)
  BY DEF Next, vars
<1>2. ~Call(t)
  <2>1. ASSUME Call(t)
        PROVE  UNCHANGED life \/ \E p \in Object : life' = [life EXCEPT ![p] = "constructing"]
    BY <2>1 DEF Call, BeginConstruct, StrongCopy, WeakCopy, Copy, StrongMoveConstruct,
       WeakMoveConstruct, MoveConstruct, StrongSwap, WeakSwap, Swap, StrongMoveAssign,
       WeakMoveAssign, MoveAssign, WeakFromStrong, Lock, StrongReset, WeakReset, Reset
  <2> QED
    BY <1>t, <2>1
<1>3. \/ UNCHANGED life \/ ExchangeTarget(t)
      \/ \E v \in {"alive", "aborted", "destroyed"} : life' = [life EXCEPT ![call[t].cb] = v]
  BY <1>1, <1>2 DEF Step, FinishConstruct, ConstructThrows, Load, Terminate, CasSucceeds,
     CasFails, Install, LockLoad, LockCasSucceeds, LockCasFails, LockTarget, Release,
     DestroyBase, FreeBlock, Take
<1>4. ExchangeTarget(t)
  BY <1>t, <1>3
<1>5. PICK p \in Object : call[t].cb = p
  BY <1>4 DEF ExchangeTarget, Runs, At, IInv, ShapeInv, FrameShape
<1>6. life[p] = "alive" /\ refs["strong"][p] = 0
  BY <1>4, <1>5 DEF ExchangeTarget, Runs, IInv, StageInv
<1>7. target[p] = p /\ Owners("strong", p) = {}
  BY <1>6, NoOwner DEF IInv, ObjectInv, Owners, Holder
<1>8. p = o
  BY <1>t, <1>4, <1>5, <1>7 DEF ExchangeTarget
<1> QED
  BY <1>6, <1>7, <1>8

-----------------------------------------------------------------------------
(* The properties, for every value of the constants. *)

\* Dereferencing a non-null IntrusivePtr is always safe: retain, release and
\* lock() never let the target of a live handle be destroyed.
THEOREM HandlesNeverDangle == ASSUME EnoughRefs PROVE Spec => []NoDanglingHandle
  BY Invariance, InvNoDanglingHandle, PTL

\* No member function reads or writes a control block after `delete control_`.
THEOREM BlocksOutliveCalls == ASSUME EnoughRefs PROVE Spec => []NoUseAfterFree
  BY Invariance, InvNoUseAfterFree, PTL

\* use_count() and expired() tell the number of references there are.
THEOREM CountsAreExact == ASSUME EnoughRefs PROVE Spec => []UseCountExact
  BY Invariance, InvUseCountExact, PTL

\* Every target is destroyed and every control block deleted, once the last
\* handle is gone and the calls have returned, throwing constructors included.
THEOREM NothingLeaks == ASSUME EnoughRefs PROVE Spec => []NoLeak
  BY Invariance, InvNoLeak, PTL

\* A lock() that took a reference returns a handle to a live target.
THEOREM LockIsNeverNull == ASSUME EnoughRefs PROVE Spec => []LockFindsTarget
  BY Invariance, InvLockFindsTarget, PTL

\* `delete target` runs at most once for a target, and after its last reference.
THEOREM DestroyedOnce == ASSUME EnoughRefs PROVE Spec => DestructorRunsOnce
<1>1. IInv /\ [Next]_vars =>
        [\A o \in Object : life'[o] = "destroying" /\ life[o] # "destroying" =>
           life[o] = "alive" /\ Owners("strong", o) = {}]_vars
  BY DestroyStep
<1> QED
  BY Invariance, <1>1, PTL DEF Spec, DestructorRunsOnce

\* A target whose count reached zero is never handed out again by lock().
THEOREM ExpiredForGood == ASSUME EnoughRefs PROVE Spec => NoResurrection
<1>1. IInv /\ [Next]_vars =>
        [\A o \in Object : block[o] # "unused" /\ refs["strong"][o] = 0 =>
           refs'["strong"][o] = 0]_vars
  <2> SUFFICES ASSUME IInv, [Next]_vars, NEW o \in Object, block[o] # "unused",
                      refs["strong"][o] = 0
               PROVE  refs'["strong"][o] = 0
    OBVIOUS
  <2> QED
    BY CountsStep DEF Kind
<1> QED
  BY Invariance, <1>1, PTL DEF Spec, NoResurrection

\* With enough room for the strong holders no count wraps, in lock() either,
\* whose increment is not guarded as the one of a copy is.
THEOREM CountsNeverWrap == ASSUME EnoughRefs PROVE Spec => NoWrap
<1>1. IInv /\ [Next]_vars =>
        [\A k \in Kind, o \in Object :
           refs'[k][o] \in {refs[k][o] - 1, refs[k][o], refs[k][o] + 1}]_vars
  BY CountsStep
<1> QED
  BY Invariance, <1>1, PTL DEF Spec, NoWrap

-----------------------------------------------------------------------------
(* The handles implement shared ownership. *)

\* Who watches a target, for SharedOwnership: not the target itself.
Watching == WeakHandle \cup Locals("weak")

\* What SharedOwnership sees of the holders and of the targets.
OwnBar == [x \in StrongHolder |-> Visible(x)]

WatchBar == [w \in Watching |-> Visible(w)]

StageBar == [o \in Object |-> StageOf(o)]

\* A call gives up a weak reference only to what has been built, or never will be.
WatchInv ==
  \A t \in Thread : ptr[Local("weak", t)] # NULL =>
    life[ptr[Local("weak", t)]] # "constructing"

\* The steps of SharedOwnership, of what it sees.
LEMMA SharedSteps ==
  /\ \A x \in StrongHolder, o \in Object :
       /\ OwnBar[x] = NULL /\ StageBar[o] = "none"
       /\ OwnBar' = [OwnBar EXCEPT ![x] = o] /\ StageBar' = [StageBar EXCEPT ![o] = "live"]
       /\ WatchBar' = WatchBar
       => Shared_!SharedNext
  /\ \A x \in StrongHolder, y \in StrongHolder, o \in Object :
       /\ OwnBar[y] = o /\ OwnBar' = [OwnBar EXCEPT ![x] = o]
       /\ StageBar' = StageBar /\ WatchBar' = WatchBar
       => Shared_!SharedNext
  /\ \A w \in Watching, o \in Object :
       /\ WatchBar[w] = NULL
       /\ (\E x \in StrongHolder : OwnBar[x] = o) \/ (\E v \in Watching : WatchBar[v] = o)
       /\ WatchBar' = [WatchBar EXCEPT ![w] = o]
       /\ OwnBar' = OwnBar /\ StageBar' = StageBar
       => Shared_!SharedNext
  /\ \A x \in StrongHolder :
       /\ OwnBar' = [OwnBar EXCEPT ![x] = NULL]
       /\ StageBar' = StageBar /\ WatchBar' = WatchBar
       => Shared_!SharedNext
  /\ \A w \in Watching :
       /\ WatchBar' = [WatchBar EXCEPT ![w] = NULL]
       /\ OwnBar' = OwnBar /\ StageBar' = StageBar
       => Shared_!SharedNext
  /\ \A x \in StrongHolder, y \in StrongHolder :
       /\ OwnBar' = [OwnBar EXCEPT ![x] = OwnBar[y], ![y] = OwnBar[x]]
       /\ StageBar' = StageBar /\ WatchBar' = WatchBar
       => Shared_!SharedNext
  /\ \A v \in Watching, w \in Watching :
       /\ WatchBar' = [WatchBar EXCEPT ![v] = WatchBar[w], ![w] = WatchBar[v]]
       /\ OwnBar' = OwnBar /\ StageBar' = StageBar
       => Shared_!SharedNext
  /\ \A o \in Object :
       /\ StageBar[o] = "live" /\ \A x \in StrongHolder : OwnBar[x] # o
       /\ StageBar' = [StageBar EXCEPT ![o] = "dead"]
       /\ \E w \in Watching : WatchBar[w] = NULL /\ WatchBar' = [WatchBar EXCEPT ![w] = o]
       /\ OwnBar' = OwnBar
       => Shared_!SharedNext
  /\ \A o \in Object :
       /\ StageBar[o] = "dead" /\ \A w \in Watching : WatchBar[w] # o
       /\ StageBar' = [StageBar EXCEPT ![o] = "reclaimed"]
       /\ OwnBar' = OwnBar /\ WatchBar' = WatchBar
       => Shared_!SharedNext
<1> USE DEF OwnBar, WatchBar, StageBar, Watching, Visible, Built, StageOf
<1>1. \A x \in StrongHolder, o \in Object :
       /\ OwnBar[x] = NULL /\ StageBar[o] = "none"
       /\ OwnBar' = [OwnBar EXCEPT ![x] = o] /\ StageBar' = [StageBar EXCEPT ![o] = "live"]
       /\ WatchBar' = WatchBar
       => Shared_!Create(x, o)
  BY DEF Shared_!Create
<1>2. \A x \in StrongHolder, y \in StrongHolder, o \in Object :
       /\ OwnBar[y] = o /\ OwnBar' = [OwnBar EXCEPT ![x] = o]
       /\ StageBar' = StageBar /\ WatchBar' = WatchBar
       => Shared_!Share(x, o)
  BY DEF Shared_!Share, Shared_!Owned
<1>3. \A w \in Watching, o \in Object :
       /\ WatchBar[w] = NULL
       /\ (\E x \in StrongHolder : OwnBar[x] = o) \/ (\E v \in Watching : WatchBar[v] = o)
       /\ WatchBar' = [WatchBar EXCEPT ![w] = o]
       /\ OwnBar' = OwnBar /\ StageBar' = StageBar
       => Shared_!Observe(w, o)
  BY DEF Shared_!Observe, Shared_!Owned, Shared_!Watched
<1>4. \A x \in StrongHolder :
       /\ OwnBar' = [OwnBar EXCEPT ![x] = NULL]
       /\ StageBar' = StageBar /\ WatchBar' = WatchBar
       => Shared_!Drop(x)
  BY DEF Shared_!Drop
<1>5. \A w \in Watching :
       /\ WatchBar' = [WatchBar EXCEPT ![w] = NULL]
       /\ OwnBar' = OwnBar /\ StageBar' = StageBar
       => Shared_!Forget(w)
  BY DEF Shared_!Forget
<1>6. \A x \in StrongHolder, y \in StrongHolder :
       /\ OwnBar' = [OwnBar EXCEPT ![x] = OwnBar[y], ![y] = OwnBar[x]]
       /\ StageBar' = StageBar /\ WatchBar' = WatchBar
       => Shared_!ExchangeOwners(x, y)
  BY DEF Shared_!ExchangeOwners
<1>7. \A v \in Watching, w \in Watching :
       /\ WatchBar' = [WatchBar EXCEPT ![v] = WatchBar[w], ![w] = WatchBar[v]]
       /\ OwnBar' = OwnBar /\ StageBar' = StageBar
       => Shared_!ExchangeWatchers(v, w)
  BY DEF Shared_!ExchangeWatchers
<1>8. \A o \in Object :
       /\ StageBar[o] = "live" /\ \A x \in StrongHolder : OwnBar[x] # o
       /\ StageBar' = [StageBar EXCEPT ![o] = "dead"]
       /\ \E w \in Watching : WatchBar[w] = NULL /\ WatchBar' = [WatchBar EXCEPT ![w] = o]
       /\ OwnBar' = OwnBar
       => Shared_!Destroy(o)
  BY DEF Shared_!Destroy, Shared_!Owned
<1>9. \A o \in Object :
       /\ StageBar[o] = "dead" /\ \A w \in Watching : WatchBar[w] # o
       /\ StageBar' = [StageBar EXCEPT ![o] = "reclaimed"]
       /\ OwnBar' = OwnBar /\ WatchBar' = WatchBar
       => Shared_!Reclaim(o)
  BY DEF Shared_!Reclaim, Shared_!Watched
<1>10. Watching = WeakHandle \cup Locals("weak")
  BY DEF Watching
<1> HIDE DEF OwnBar, WatchBar, StageBar, Watching, Visible, Built, StageOf
<1> QED
  BY <1>1, <1>2, <1>3, <1>4, <1>5, <1>6, <1>7, <1>8, <1>9, <1>10 DEF Shared_!SharedNext

\* One owner changes, two exchange, or none does.
LEMMA OwnChanges ==
  /\ \A x \in StrongHolder : OwnBar[x] = Visible(x)
  /\ (\A x \in StrongHolder : Visible(x)' = Visible(x)) => OwnBar' = OwnBar
  /\ \A x \in StrongHolder : (\A y \in StrongHolder \ {x} : Visible(y)' = Visible(y))
       => \A u : (Visible(x)' = u => OwnBar' = [OwnBar EXCEPT ![x] = u])
  /\ \A x \in StrongHolder, y \in StrongHolder :
       /\ \A z \in StrongHolder \ {x, y} : Visible(z)' = Visible(z)
       /\ Visible(x)' = Visible(y) /\ Visible(y)' = Visible(x)
       => OwnBar' = [OwnBar EXCEPT ![x] = OwnBar[y], ![y] = OwnBar[x]]
BY DEF OwnBar

\* One watcher changes, two exchange, or none does.
LEMMA WatchChanges ==
  /\ \A x \in Watching : WatchBar[x] = Visible(x)
  /\ (\A x \in Watching : Visible(x)' = Visible(x)) => WatchBar' = WatchBar
  /\ \A x \in Watching : (\A y \in Watching \ {x} : Visible(y)' = Visible(y))
       => \A u : (Visible(x)' = u => WatchBar' = [WatchBar EXCEPT ![x] = u])
  /\ \A x \in Watching, y \in Watching :
       /\ \A z \in Watching \ {x, y} : Visible(z)' = Visible(z)
       /\ Visible(x)' = Visible(y) /\ Visible(y)' = Visible(x)
       => WatchBar' = [WatchBar EXCEPT ![x] = WatchBar[y], ![y] = WatchBar[x]]
BY DEF WatchBar

\* One target's stage changes, or none does.
LEMMA StageChanges ==
  /\ \A o \in Object : StageBar[o] = StageOf(o)
  /\ (\A o \in Object : StageOf(o)' = StageOf(o)) => StageBar' = StageBar
  /\ \A o \in Object : (\A p \in Object \ {o} : StageOf(p)' = StageOf(p))
       => \A u : (StageOf(o)' = u => StageBar' = [StageBar EXCEPT ![o] = u])
BY DEF StageBar

\* No holder is both an owner and a watcher, and a target is neither.
LEMMA OwnersAndWatchers ==
  /\ StrongHolder \cap Watching = {} /\ Object \cap (StrongHolder \cup Watching) = {}
  /\ StrongHolder \cup Watching \subseteq StrongHolder \cup WeakHolder
  /\ \A t \in Thread : Local("strong", t) \in StrongHolder /\ Local("weak", t) \in Watching
  /\ Handle("strong") \subseteq StrongHolder /\ Handle("weak") \subseteq Watching
<1>1. Locals("strong") \cap Locals("weak") = {}
  BY DEF Locals, Local
<1>2. \A k \in Kind : Locals(k) \cap (StrongHandle \cup WeakHandle \cup Object) = {}
  BY ConstantsAssumption DEF Locals
<1> QED
  BY <1>1, <1>2, ConstantsAssumption
  DEF StrongHolder, WeakHolder, Watching, Handle, Locals, Kind

\* A holder that keeps what it holds shows the same, where nothing gets built.
LEMMA VisibleSame ==
  ASSUME TypeOK, NEW x \in StrongHolder \cup WeakHolder, ptr'[x] = ptr[x],
         ptr[x] # NULL => (Built(ptr[x])' <=> Built(ptr[x]))
  PROVE  Visible(x)' = Visible(x)
<1>1. CASE ptr[x] = NULL
  BY <1>1 DEF Visible
<1>2. CASE ptr[x] # NULL
  <2>1. PICK o \in Object : ptr[x] = o
    BY <1>2 DEF TypeOK
  <2>2. Built(o)' <=> Built(o)
    BY <1>2, <2>1 DEF Built
  <2> QED
    BY <1>2, <2>1, <2>2 DEF Visible, Built
<1> QED
  BY <1>1, <1>2

\* What a step needs to show for nothing to be seen of it.
LEMMA NothingSeen ==
  ASSUME TypeOK, block' = block,
         \A o \in Object : \/ life'[o] = life[o]
                           \/ life[o] = "alive" /\ life'[o] = "destroying",
         \A x \in StrongHolder \cup Watching : ptr'[x] = ptr[x]
  PROVE  OwnBar' = OwnBar /\ WatchBar' = WatchBar /\ StageBar' = StageBar
<1>1. \A o \in Object : Built(o)' <=> Built(o)
  BY DEF Built
<1>2. \A o \in Object : StageOf(o)' = StageOf(o)
  BY <1>1 DEF StageOf
<1>3. \A x \in StrongHolder \cup Watching : Visible(x)' = Visible(x)
  <2>1. \A x \in StrongHolder \cup Watching :
          ptr[x] # NULL => ptr[x] \in Object /\ (Built(ptr[x])' <=> Built(ptr[x]))
    BY <1>1, OwnersAndWatchers DEF TypeOK, Built
  <2> QED
    BY <2>1, OwnersAndWatchers, VisibleSame
<1> QED
  BY <1>2, <1>3, OwnChanges, WatchChanges, StageChanges

\* A holder changes, and no target does.
LEMMA HolderChanges ==
  ASSUME TypeOK, NEW x \in StrongHolder \cup Watching, NEW v \in Object \cup {NULL},
         ptr' = [ptr EXCEPT ![x] = v], UNCHANGED <<block, life>>, v # NULL => Built(v)
  PROVE  /\ StageBar' = StageBar
         /\ x \in StrongHolder => WatchBar' = WatchBar /\ OwnBar' = [OwnBar EXCEPT ![x] = v]
         /\ x \in Watching => OwnBar' = OwnBar /\ WatchBar' = [WatchBar EXCEPT ![x] = v]
<1>1. /\ ptr'[x] = v
      /\ \A y \in (StrongHolder \cup Watching) \ {x} : ptr'[y] = ptr[y]
  BY OwnersAndWatchers DEF TypeOK
<1>2. \A y \in (StrongHolder \cup Watching) \ {x} : Visible(y)' = Visible(y)
  BY <1>1, OwnersAndWatchers, VisibleSame DEF Built
<1>3. StageBar' = StageBar
  BY DEF StageBar, StageOf, Built
<1>4. Visible(x)' = v
  BY <1>1 DEF Visible, Built
<1> QED
  BY <1>2, <1>3, <1>4, OwnersAndWatchers, OwnChanges, WatchChanges

\* Two holders of a kind exchange what they hold.
LEMMA SwapShares ==
  ASSUME TypeOK, NEW k \in Kind, NEW x \in Handle(k) \cup Locals(k),
         NEW y \in Handle(k) \cup Locals(k), ptr' = Swapped(x, y), UNCHANGED <<block, life>>
  PROVE  Shared_!SharedNext
<1>1. /\ x \in StrongHolder \cup Watching /\ y \in StrongHolder \cup Watching
      /\ k = "strong" => x \in StrongHolder /\ y \in StrongHolder
      /\ k = "weak" => x \in Watching /\ y \in Watching
  BY DEF Handle, StrongHolder, Watching, Kind
<1>2. /\ ptr'[x] = ptr[y] /\ ptr'[y] = ptr[x]
      /\ \A z \in (StrongHolder \cup Watching) \ {x, y} : ptr'[z] = ptr[z]
  BY <1>1, OwnersAndWatchers DEF TypeOK, Swapped
<1>3. \A z \in (StrongHolder \cup Watching) \ {x, y} : Visible(z)' = Visible(z)
  BY <1>2, OwnersAndWatchers, VisibleSame DEF Built
<1>4. Visible(x)' = Visible(y) /\ Visible(y)' = Visible(x)
  BY <1>2 DEF Visible, Built
<1>5. StageBar' = StageBar
  BY DEF StageBar, StageOf, Built
<1>6. CASE k = "strong"
  <2>1. WatchBar' = WatchBar
    BY <1>1, <1>3, <1>6, OwnersAndWatchers, WatchChanges
  <2>2. OwnBar' = [OwnBar EXCEPT ![x] = OwnBar[y], ![y] = OwnBar[x]]
    BY <1>1, <1>3, <1>4, <1>6, OwnChanges
  <2> QED
    BY <1>1, <1>5, <1>6, <2>1, <2>2, SharedSteps
<1>7. CASE k = "weak"
  <2>1. OwnBar' = OwnBar
    BY <1>1, <1>3, <1>7, OwnersAndWatchers, OwnChanges
  <2>2. WatchBar' = [WatchBar EXCEPT ![x] = WatchBar[y], ![y] = WatchBar[x]]
    BY <1>1, <1>3, <1>4, <1>7, WatchChanges
  <2> QED
    BY <1>1, <1>5, <1>7, <2>1, <2>2, SharedSteps
<1> QED
  BY <1>6, <1>7 DEF Kind

\* A call that begins: one that makes a target shows nothing of it yet.
LEMMA CallShares ==
  ASSUME IInv, NEW t \in Thread, Call(t)
  PROVE  Shared_!SharedNext \/ (OwnBar' = OwnBar /\ WatchBar' = WatchBar /\ StageBar' = StageBar)
<1> DEFINE Unseen == OwnBar' = OwnBar /\ WatchBar' = WatchBar /\ StageBar' = StageBar
<1>0. TypeOK /\ "strong" \in Kind /\ "weak" \in Kind
  BY DEF IInv, Kind
<1>1. ASSUME NEW x \in StrongHandle, NEW o \in Object, BeginConstruct(t, x, o) PROVE Unseen
  <2>1. /\ life[o] = "none" /\ block[o] = "unused" /\ life' = [life EXCEPT ![o] = "constructing"]
        /\ block' = [block EXCEPT ![o] = "live"]
        /\ ptr' = [ptr EXCEPT ![o] = o, ![Local("strong", t)] = o]
        /\ ptr[Local("strong", t)] = NULL
    BY <1>1, IdleFacts DEF BeginConstruct, Begin, Runs, IInv, ObjectInv, NoLocals, Kind
  <2>2. /\ life'[o] = "constructing" /\ ptr'[Local("strong", t)] = o
        /\ \A p \in Object \ {o} : life'[p] = life[p] /\ block'[p] = block[p]
        /\ \A y \in (StrongHolder \cup Watching) \ {Local("strong", t)} : ptr'[y] = ptr[y]
    BY <1>0, <2>1, OwnersAndWatchers DEF TypeOK
  <2>3. ~Built(o) /\ ~Built(o)' /\ \A p \in Object : Built(p)' <=> Built(p)
    BY <2>1, <2>2 DEF Built
  <2>4. \A p \in Object : StageOf(p)' = StageOf(p)
    BY <2>2, <2>3 DEF StageOf
  <2>5. \A y \in (StrongHolder \cup Watching) \ {Local("strong", t)} : Visible(y)' = Visible(y)
    <3>1. \A y \in (StrongHolder \cup Watching) \ {Local("strong", t)} :
            ptr[y] # NULL => ptr[y] \in Object /\ (Built(ptr[y])' <=> Built(ptr[y]))
      BY <1>0, <2>2, <2>3, OwnersAndWatchers DEF TypeOK, Built
    <3> QED
      BY <1>0, <2>2, <3>1, OwnersAndWatchers, VisibleSame
  <2>6. Visible(Local("strong", t)) = NULL /\ Visible(Local("strong", t))' = NULL
    BY <2>1, <2>2, <2>3 DEF Visible, Built
  <2> QED
    BY <2>4, <2>5, <2>6, OwnChanges, WatchChanges, StageChanges
<1>2. ASSUME UNCHANGED <<ptr, life, block>> PROVE Unseen
  BY <1>0, <1>2, NothingSeen
<1>3. ASSUME NEW k \in Kind, NEW x \in Handle(k), NEW y \in Handle(k),
             MoveConstruct(t, x, y) \/ Swap(t, x, y)
      PROVE  Shared_!SharedNext
  BY <1>0, <1>3, SwapShares DEF MoveConstruct, Swap
<1>4. ASSUME NEW k \in Kind, NEW x \in Handle(k), ptr' = Swapped(x, Local(k, t)),
             UNCHANGED <<life, block>>
      PROVE  Shared_!SharedNext
  BY <1>0, <1>4, SwapShares DEF Locals
<1>5. ASSUME NEW k \in Kind, NEW x \in Handle(k), NEW y \in Handle(k), MoveAssign(t, k, x, y)
      PROVE  Shared_!SharedNext
  BY <1>4, <1>5 DEF MoveAssign
<1>6. ASSUME NEW k \in Kind, NEW x \in Handle(k), Reset(t, k, x)
      PROVE  Shared_!SharedNext
  BY <1>4, <1>6 DEF Reset
<1>7. Handle("strong") = StrongHandle /\ Handle("weak") = WeakHandle
  BY DEF Handle
<1> QED
  <2>1. ASSUME NEW k \in Kind, NEW x \in Handle(k), NEW y \in Handle(k), Copy(t, k, x, y)
        PROVE  Unseen
    BY <1>2, <2>1 DEF Copy
  <2>2. ASSUME NEW x, NEW y, WeakFromStrong(t, x, y) \/ Lock(t, x, y) PROVE Unseen
    BY <1>2, <2>2 DEF WeakFromStrong, Lock
  <2>3. ASSUME NEW x \in StrongHandle, NEW y \in StrongHandle,
               \/ StrongCopy(t, x, y) \/ StrongMoveConstruct(t, x, y)
               \/ StrongSwap(t, x, y) \/ StrongMoveAssign(t, x, y)
        PROVE  Shared_!SharedNext \/ Unseen
    BY <1>0, <1>3, <1>5, <1>7, <2>1, <2>3
    DEF StrongCopy, StrongMoveConstruct, StrongSwap, StrongMoveAssign
  <2>4. ASSUME NEW x \in WeakHandle, NEW y \in WeakHandle,
               \/ WeakCopy(t, x, y) \/ WeakMoveConstruct(t, x, y)
               \/ WeakSwap(t, x, y) \/ WeakMoveAssign(t, x, y)
        PROVE  Shared_!SharedNext \/ Unseen
    BY <1>0, <1>3, <1>5, <1>7, <2>1, <2>4
    DEF WeakCopy, WeakMoveConstruct, WeakSwap, WeakMoveAssign
  <2>5. ASSUME NEW x \in StrongHandle, StrongReset(t, x) PROVE Shared_!SharedNext
    BY <1>0, <1>6, <1>7, <2>5 DEF StrongReset
  <2>6. ASSUME NEW x \in WeakHandle, WeakReset(t, x) PROVE Shared_!SharedNext
    BY <1>0, <1>6, <1>7, <2>6 DEF WeakReset
  <2> QED
    BY <1>1, <2>2, <2>3, <2>4, <2>5, <2>6 DEF Call

\* The constructor returns, and its caller becomes the one owner of the new target.
LEMMA FinishConstructShares ==
  ASSUME IInv, WatchInv, NEW t \in Thread, FinishConstruct(t)
  PROVE  Shared_!SharedNext
<1>0. TypeOK
  BY DEF IInv
<1>1. PICK o \in Object : /\ o = call[t].cb /\ life[o] = "constructing" /\ o # NULL
                          /\ At(t, "ctor") /\ block[o] = "live"
  <2>1. At(t, "ctor") /\ call[t].cb \in Object
    BY DEF FinishConstruct, Runs, At, IInv, ShapeInv, FrameShape
  <2> QED
    BY <2>1, AliveHasBlock, ConstantsAssumption DEF IInv, StageInv
<1> DEFINE x == Local("strong", t)
<1>2. x \in StrongHolder /\ ptr[x] = o
  BY <1>1, OwnersAndWatchers DEF IInv, LocalInv, Carries, OnlyLocal, ShapeInv, FrameShape, At
<1>3. /\ ptr' = ptr /\ block' = block
      /\ life'[o] = "alive" /\ \A p \in Object \ {o} : life'[p] = life[p]
  BY <1>0, <1>1 DEF FinishConstruct, TypeOK
<1>4. \A y \in StrongHolder \ {x} : ptr[y] # o
  <2>1. ASSUME NEW y \in StrongHolder, ptr[y] = o PROVE y = x
    <3>1. PICK u \in Thread : y = Local("strong", u) /\ At(u, "ctor") /\ call[u].cb = o
      BY <1>1, <2>1 DEF IInv, StrongOwnerInv
    <3>2. u = t
      BY <1>1, <3>1 DEF IInv, UniqueInv
    <3> QED
      BY <3>1, <3>2
  <2> QED
    BY <2>1
<1>5. \A w \in Watching : ptr[w] # o
  BY <1>1 DEF Watching, Locals, IInv, WeakOwnerInv, WatchInv
<1>6. ~Built(o) /\ Built(o)' /\ \A p \in Object \ {o} : Built(p)' <=> Built(p)
  BY <1>1, <1>3 DEF Built
<1>7. \A y \in (StrongHolder \cup Watching) \ {x} : Visible(y)' = Visible(y)
  <2>1. \A y \in (StrongHolder \cup Watching) \ {x} :
          ptr[y] # NULL => ptr[y] \in Object \ {o} /\ (Built(ptr[y])' <=> Built(ptr[y]))
    BY <1>0, <1>3, <1>4, <1>5, <1>6, OwnersAndWatchers DEF TypeOK, Built
  <2> QED
    BY <1>0, <1>3, <2>1, OwnersAndWatchers, VisibleSame
<1>8. Visible(x) = NULL /\ Visible(x)' = o
  BY <1>1, <1>2, <1>3, <1>6 DEF Visible, Built
<1>9. OwnBar[x] = NULL /\ OwnBar' = [OwnBar EXCEPT ![x] = o] /\ WatchBar' = WatchBar
  BY <1>2, <1>7, <1>8, OwnersAndWatchers, OwnChanges, WatchChanges
<1>10. StageBar[o] = "none" /\ StageBar' = [StageBar EXCEPT ![o] = "live"]
  <2>1. StageOf(o) = "none" /\ StageOf(o)' = "live"
    BY <1>1, <1>3, <1>6 DEF StageOf
  <2>2. \A p \in Object \ {o} : StageOf(p)' = StageOf(p)
    BY <1>3, <1>6 DEF StageOf
  <2> QED
    BY <2>1, <2>2, StageChanges
<1> QED
  BY <1>1, <1>2, <1>9, <1>10, SharedSteps

\* A constructor that throws: its target was never seen and never will be.
LEMMA ConstructThrowsShares ==
  ASSUME IInv, NEW t \in Thread, ConstructThrows(t)
  PROVE  OwnBar' = OwnBar /\ WatchBar' = WatchBar /\ StageBar' = StageBar
<1>0. TypeOK
  BY DEF IInv
<1>1. PICK o \in Object : o = call[t].cb /\ life[o] = "constructing" /\ At(t, "ctor")
  BY DEF ConstructThrows, Runs, At, IInv, ShapeInv, FrameShape, StageInv
<1> DEFINE x == Local("strong", t)
           w == Local("weak", t)
<1>2. x \in StrongHolder /\ w \in Watching /\ ptr[x] = o /\ ptr[w] = NULL
  <2>1. call[t].kind = "strong"
    BY <1>1 DEF IInv, ShapeInv, FrameShape, At
  <2> QED
    BY <1>1, <2>1, OwnersAndWatchers DEF IInv, LocalInv, Carries, OnlyLocal, At, Kind
<1>3. /\ ptr' = [ptr EXCEPT ![x] = NULL, ![o] = NULL, ![w] = o]
      /\ life' = [life EXCEPT ![o] = "aborted"] /\ block' = block
  BY <1>1 DEF ConstructThrows
<1>4. /\ ptr'[x] = NULL /\ ptr'[w] = o /\ life'[o] = "aborted"
      /\ \A y \in (StrongHolder \cup Watching) \ {x, w} : ptr'[y] = ptr[y]
      /\ \A p \in Object \ {o} : life'[p] = life[p]
  BY <1>0, <1>2, <1>3, OwnersAndWatchers DEF TypeOK
<1>5. ~Built(o) /\ ~Built(o)' /\ \A p \in Object : Built(p)' <=> Built(p)
  BY <1>1, <1>4 DEF Built
<1>6. Visible(x) = NULL /\ Visible(x)' = NULL /\ Visible(w) = NULL /\ Visible(w)' = NULL
  BY <1>2, <1>4, <1>5 DEF Visible, Built
<1>7. \A y \in (StrongHolder \cup Watching) \ {x, w} : Visible(y)' = Visible(y)
  <2>1. \A y \in (StrongHolder \cup Watching) \ {x, w} :
          ptr[y] # NULL => ptr[y] \in Object /\ (Built(ptr[y])' <=> Built(ptr[y]))
    BY <1>0, <1>4, <1>5, OwnersAndWatchers DEF TypeOK, Built
  <2> QED
    BY <1>0, <1>4, <2>1, OwnersAndWatchers, VisibleSame
<1>8. \A p \in Object : StageOf(p)' = StageOf(p)
  BY <1>3, <1>5 DEF StageOf
<1> QED
  BY <1>6, <1>7, <1>8, OwnChanges, WatchChanges, StageChanges

\* The exchange that takes a reference for t, from a source that is seen.
LEMMA TakenShares ==
  ASSUME IInv, NEW t \in Thread, NEW k \in Kind, NEW o \in Object,
         ptr[Local(k, t)] = NULL, ptr' = [ptr EXCEPT ![Local(k, t)] = o],
         UNCHANGED <<block, life>>, Built(o),
         \E x \in StrongHolder \cup (IF k = "weak" THEN Watching ELSE {}) : ptr[x] = o
  PROVE  Shared_!SharedNext
<1>0. TypeOK /\ o # NULL
  BY ConstantsAssumption DEF IInv
<1>1. \A x \in StrongHolder \cup Watching : ptr[x] = o => Visible(x) = o
  BY <1>0 DEF Visible
<1>2. /\ StageBar' = StageBar
      /\ k = "strong" => /\ Local(k, t) \in StrongHolder /\ WatchBar' = WatchBar
                         /\ OwnBar' = [OwnBar EXCEPT ![Local(k, t)] = o]
      /\ k = "weak" => /\ Local(k, t) \in Watching /\ OwnBar' = OwnBar
                       /\ WatchBar' = [WatchBar EXCEPT ![Local(k, t)] = o]
  <2>1. /\ Local(k, t) \in StrongHolder \cup Watching
        /\ k = "strong" => Local(k, t) \in StrongHolder
        /\ k = "weak" => Local(k, t) \in Watching
    BY OwnersAndWatchers DEF Kind
  <2>2. PICK x \in StrongHolder \cup Watching : x = Local(k, t)
    BY <2>1
  <2>3. /\ StageBar' = StageBar
        /\ x \in StrongHolder => WatchBar' = WatchBar /\ OwnBar' = [OwnBar EXCEPT ![x] = o]
        /\ x \in Watching => OwnBar' = OwnBar /\ WatchBar' = [WatchBar EXCEPT ![x] = o]
    <3>1. ptr' = [ptr EXCEPT ![x] = o] /\ o \in Object \cup {NULL}
      BY <2>2
    <3> QED
      BY <1>0, <3>1, HolderChanges
  <2> QED
    BY <2>1, <2>2, <2>3
<1>3. CASE k = "strong"
  <2>1. \E x \in StrongHolder : OwnBar[x] = o
    BY <1>1, <1>3, OwnChanges
  <2> QED
    BY <1>2, <1>3, <2>1, SharedSteps
<1>4. CASE k = "weak"
  <2>1. (\E x \in StrongHolder : OwnBar[x] = o) \/ (\E x \in Watching : WatchBar[x] = o)
    BY <1>1, <1>4, OwnChanges, WatchChanges
  <2>2. WatchBar[Local(k, t)] = NULL
    BY <1>2, <1>4, WatchChanges DEF Visible
  <2> QED
    BY <1>2, <1>4, <2>1, <2>2, SharedSteps
<1> QED
  BY <1>3, <1>4 DEF Kind

\* A reference is given up.
LEMMA ReleaseShares ==
  ASSUME IInv, NEW t \in Thread, Release(t)
  PROVE  Shared_!SharedNext
<1>0. TypeOK
  BY DEF IInv
<1>1. PICK k \in Kind : k = call[t].kind
  BY <1>0 DEF TypeOK, Frame
<1>2. ptr' = [ptr EXCEPT ![Local(k, t)] = NULL] /\ UNCHANGED <<block, life>>
  BY <1>1 DEF Release
<1>3. /\ Local(k, t) \in StrongHolder \cup Watching
      /\ k = "strong" => Local(k, t) \in StrongHolder
      /\ k = "weak" => Local(k, t) \in Watching
  BY OwnersAndWatchers DEF Kind
<1>4. /\ StageBar' = StageBar
      /\ k = "strong" => WatchBar' = WatchBar /\ OwnBar' = [OwnBar EXCEPT ![Local(k, t)] = NULL]
      /\ k = "weak" => OwnBar' = OwnBar /\ WatchBar' = [WatchBar EXCEPT ![Local(k, t)] = NULL]
  BY <1>0, <1>2, <1>3, HolderChanges
<1> QED
  BY <1>3, <1>4, SharedSteps DEF Kind

\* The destructor is done: nobody owns its target, and its thread still watches it.
LEMMA DestroyBaseShares ==
  ASSUME IInv, NEW t \in Thread, DestroyBase(t)
  PROVE  Shared_!SharedNext
<1>0. TypeOK
  BY DEF IInv
<1>1. PICK o \in Object : /\ o = call[t].cb /\ o # NULL /\ life[o] = "destroying"
                          /\ At(t, "destroy") /\ block[o] = "live" /\ ptr[o] = o
  <2>1. At(t, "destroy") /\ call[t].cb \in Object
    BY DEF DestroyBase, Runs, At, IInv, ShapeInv, FrameShape
  <2>2. life[call[t].cb] = "destroying"
    BY <2>1 DEF IInv, StageInv
  <2> QED
    BY <2>1, <2>2, AliveHasBlock, ConstantsAssumption DEF IInv, ObjectInv
<1> DEFINE w == Local("weak", t)
<1>2. w \in Watching /\ w \notin StrongHolder /\ ptr[w] = NULL
  BY <1>1, OwnersAndWatchers DEF IInv, LocalInv, Carries, NoLocals, At, Kind
<1>3. /\ ptr' = Swapped(o, w) /\ block' = block /\ life' = [life EXCEPT ![o] = "destroyed"]
  BY <1>1 DEF DestroyBase
<1>4. /\ ptr'[w] = o /\ \A y \in (StrongHolder \cup Watching) \ {w} : ptr'[y] = ptr[y]
      /\ life'[o] = "destroyed" /\ \A p \in Object \ {o} : life'[p] = life[p]
  BY <1>0, <1>1, <1>2, <1>3, OwnersAndWatchers DEF TypeOK, Swapped
<1>5. Built(o) /\ Built(o)' /\ \A p \in Object : Built(p)' <=> Built(p)
  BY <1>1, <1>4 DEF Built
<1>6. Visible(w) = NULL /\ Visible(w)' = o
  BY <1>1, <1>2, <1>4, <1>5 DEF Visible, Built
<1>7. \A y \in (StrongHolder \cup Watching) \ {w} : Visible(y)' = Visible(y)
  <2>1. \A y \in (StrongHolder \cup Watching) \ {w} :
          ptr[y] # NULL => ptr[y] \in Object /\ (Built(ptr[y])' <=> Built(ptr[y]))
    BY <1>0, <1>4, <1>5, OwnersAndWatchers DEF TypeOK, Built
  <2> QED
    BY <1>0, <1>4, <2>1, OwnersAndWatchers, VisibleSame
<1>8. WatchBar[w] = NULL /\ WatchBar' = [WatchBar EXCEPT ![w] = o] /\ OwnBar' = OwnBar
  BY <1>2, <1>6, <1>7, OwnersAndWatchers, OwnChanges, WatchChanges
<1>9. \A x \in StrongHolder : OwnBar[x] # o
  <2>1. \A x \in StrongHolder : ptr[x] # o
    BY <1>1 DEF IInv, StrongOwnerInv
  <2> QED
    BY <1>1, <2>1, OwnChanges DEF Visible
<1>10. StageBar[o] = "live" /\ StageBar' = [StageBar EXCEPT ![o] = "dead"]
  <2>1. StageOf(o) = "live" /\ StageOf(o)' = "dead"
    BY <1>1, <1>3, <1>4, <1>5 DEF StageOf
  <2>2. \A p \in Object \ {o} : StageOf(p)' = StageOf(p)
    BY <1>3, <1>4, <1>5 DEF StageOf
  <2> QED
    BY <2>1, <2>2, StageChanges
<1> QED
  BY <1>1, <1>2, <1>8, <1>9, <1>10, SharedSteps

\* A control block that nobody watches is deleted, or one that was never seen.
LEMMA FreeBlockShares ==
  ASSUME IInv, NEW t \in Thread, FreeBlock(t)
  PROVE  Shared_!SharedNext \/ (OwnBar' = OwnBar /\ WatchBar' = WatchBar /\ StageBar' = StageBar)
<1>0. TypeOK
  BY DEF IInv
<1>1. PICK o \in Object : /\ o = call[t].cb /\ o # NULL
                          /\ block[o] = "live" /\ refs["weak"][o] = 0
  <2>1. At(t, "free") /\ call[t].cb \in Object
    BY DEF FreeBlock, Runs, At, IInv, ShapeInv, FrameShape
  <2> QED
    BY <2>1, ConstantsAssumption DEF IInv, StageInv
<1>2. \A w \in WeakHolder : ptr[w] # o
  BY <1>1, NoWatcher
<1>3. life[o] \in {"destroyed", "aborted"}
  <2>1. ptr[o] # o
    BY <1>2 DEF WeakHolder
  <2> QED
    BY <1>0, <1>1, <2>1 DEF IInv, ObjectInv, TypeOK
<1>4. /\ ptr' = ptr /\ life' = life
      /\ block'[o] = "freed" /\ \A p \in Object \ {o} : block'[p] = block[p]
  BY <1>0, <1>1 DEF FreeBlock, TypeOK
<1>5. OwnBar' = OwnBar /\ WatchBar' = WatchBar
  BY <1>4 DEF OwnBar, WatchBar, Visible, Built
<1>6. \A w \in Watching : WatchBar[w] # o
  BY <1>1, <1>2, WatchChanges DEF Visible, Watching, WeakHolder
<1>7. \A p \in Object \ {o} : StageOf(p)' = StageOf(p)
  BY <1>4 DEF StageOf, Built
<1>8. CASE life[o] = "destroyed"
  <2>1. StageOf(o) = "dead" /\ StageOf(o)' = "reclaimed"
    BY <1>1, <1>4, <1>8 DEF StageOf, Built
  <2>2. StageBar[o] = "dead" /\ StageBar' = [StageBar EXCEPT ![o] = "reclaimed"]
    BY <1>7, <2>1, StageChanges
  <2> QED
    BY <1>5, <1>6, <2>2, SharedSteps
<1>9. CASE life[o] = "aborted"
  <2>1. StageOf(o)' = StageOf(o)
    BY <1>4, <1>9 DEF StageOf, Built
  <2> QED
    BY <1>5, <1>7, <2>1, StageChanges
<1> QED
  BY <1>3, <1>8, <1>9

\* A step of a running call.
LEMMA StepShares ==
  ASSUME IInv, EnoughRefs, WatchInv, NEW t \in Thread, Step(t)
  PROVE  Shared_!SharedNext \/ (OwnBar' = OwnBar /\ WatchBar' = WatchBar /\ StageBar' = StageBar)
<1> DEFINE Unseen == OwnBar' = OwnBar /\ WatchBar' = WatchBar /\ StageBar' = StageBar
           f == call[t]
<1>0. TypeOK /\ "strong" \in Kind /\ "weak" \in Kind
  BY DEF IInv, Kind
<1>f. f \in Frame /\ FrameShape(f)
  BY DEF IInv, TypeOK, ShapeInv
<1>1. ASSUME UNCHANGED <<ptr, life, block>> PROVE Unseen
  BY <1>0, <1>1, NothingSeen
<1>2. ASSUME CasSucceeds(t) PROVE Shared_!SharedNext
  <2>1. PICK k \in Kind, o \in Object : f.kind = k /\ f.cb = o /\ f.pc = "cas"
    BY <1>2, <1>f DEF CasSucceeds, Runs, At, FrameShape, Frame
  <2>2. ptr' = [ptr EXCEPT ![Local(k, t)] = o] /\ UNCHANGED <<block, life>>
    BY <1>2, <2>1 DEF CasSucceeds
  <2>3. ptr[Local(k, t)] = NULL
    BY <2>1 DEF IInv, LocalInv, Carries, NoLocals
  <2>4. ptr[f.src] = o /\ Built(o)
    BY <2>1, SourceIsAlive DEF Built
  <2>5. f.src \in StrongHolder \cup (IF k = "weak" THEN Watching ELSE {})
    BY <1>f, <2>1 DEF FrameShape, StrongHolder, Watching
  <2> QED
    BY <2>2, <2>3, <2>4, <2>5, TakenShares
<1>3. ASSUME LockCasSucceeds(t) PROVE Shared_!SharedNext
  <2>1. PICK o \in Object : /\ f.cb = o /\ f.pc = "lock_cas" /\ f.kind = "strong"
                            /\ f.src \in WeakHandle /\ f.seen # 0
    BY <1>3, <1>f DEF LockCasSucceeds, Runs, At, FrameShape
  <2>2. /\ ptr' = [ptr EXCEPT ![Local("strong", t)] = o] /\ UNCHANGED <<block, life>>
        /\ refs["strong"][o] # 0
    BY <1>3, <2>1 DEF LockCasSucceeds
  <2>3. ptr[Local("strong", t)] = NULL
    BY <1>0, <2>1 DEF IInv, LocalInv, Carries, NoLocals
  <2>4. life[o] \in {"alive", "destroying", "destroyed"}
    BY <2>1, SourceIsAlive
  <2>5. \E x \in StrongHolder : ptr[x] = o
    BY <2>2, <2>4, NoOwner
  <2>6. Built(o)
    BY <2>4 DEF Built
  <2> QED
    BY <1>0, <2>2, <2>3, <2>5, <2>6, TakenShares
<1>4. ASSUME LockTarget(t) PROVE Unseen
  <2>1. /\ f.cb \in Object /\ f.cb # NULL /\ f.pc = "lock_target" /\ f.kind = "strong"
        /\ life[f.cb] = "alive"
    BY <1>4, <1>f, InvLockFindsTarget, ConstantsAssumption
    DEF LockTarget, Runs, At, FrameShape, LockFindsTarget
  <2>2. ptr[Local("strong", t)] = f.cb /\ target[f.cb] = f.cb
    BY <2>1 DEF IInv, LocalInv, Carries, OnlyLocal, ObjectInv
  <2>3. \A x \in StrongHolder \cup Watching : ptr'[x] = ptr[x]
    BY <1>0, <1>4, <2>2, OwnersAndWatchers DEF LockTarget, TypeOK
  <2> QED
    BY <1>0, <1>4, <2>3, NothingSeen DEF LockTarget
<1>5. ASSUME ExchangeTarget(t) PROVE Unseen
  <2>1. f.cb \in Object /\ life[f.cb] = "alive" /\ target[f.cb] = f.cb
    BY <1>5, <1>f DEF ExchangeTarget, Runs, At, FrameShape, IInv, StageInv, ObjectInv
  <2>2. life' = life \/ life' = [life EXCEPT ![f.cb] = "destroying"]
    BY <1>5, <2>1 DEF ExchangeTarget
  <2>3. \A o \in Object : life'[o] = life[o] \/ (life[o] = "alive" /\ life'[o] = "destroying")
    BY <1>0, <2>1, <2>2 DEF TypeOK
  <2> QED
    BY <1>0, <1>5, <2>3, NothingSeen DEF ExchangeTarget
<1>6. ASSUME Install(t) PROVE Shared_!SharedNext
  <2>1. PICK k \in Kind : f.kind = k /\ f.dst \in Handle(k)
    BY <1>6, <1>f DEF Install, Runs, At, FrameShape, Frame
  <2>2. ptr' = Swapped(f.dst, Local(k, t)) /\ UNCHANGED <<block, life>>
    BY <1>6, <2>1 DEF Install
  <2> QED
    BY <1>0, <2>1, <2>2, SwapShares DEF Locals
<1>7. ASSUME Take(t) PROVE Shared_!SharedNext
  <2>1. f.moving /\ ptr[f.dst] = NULL /\ f.dst # f.src
    BY <1>7, <1>f, ConstantsAssumption DEF Take, Runs, At, FrameShape, IInv, SourceInv, Handle, Kind
  <2>2. PICK k \in Kind : f.dst \in Handle(k) /\ f.src \in Handle(k)
    BY <1>f, <2>1 DEF FrameShape
  <2>3. ptr' = [ptr EXCEPT ![f.dst] = ptr[f.src], ![f.src] = NULL] /\ UNCHANGED <<block, life>>
    BY <1>7 DEF Take
  <2>4. ptr' = Swapped(f.dst, f.src)
    BY <2>1, <2>3 DEF Swapped
  <2> QED
    BY <1>0, <2>2, <2>3, <2>4, SwapShares
<1> QED
  <2>1. Load(t) \/ Terminate(t) \/ CasFails(t) \/ LockLoad(t) \/ LockCasFails(t) => Unseen
    BY <1>1 DEF Load, Terminate, CasFails, LockLoad, LockCasFails
  <2> QED
    BY <2>1, <1>2, <1>3, <1>4, <1>5, <1>6, <1>7, FinishConstructShares, ConstructThrowsShares,
       ReleaseShares, DestroyBaseShares, FreeBlockShares
    DEF Step

\* What a call gives up comes from a handle, from what the call built or destroyed, or
\* from a new reference to what was there.
LEMMA WatchStep ==
  ASSUME IInv, WatchInv, [Next]_vars
  PROVE  WatchInv'
<1>0. TypeOK /\ "strong" \in Kind /\ "weak" \in Kind
  BY DEF IInv, Kind
<1>l. \A t \in Thread : /\ Local("weak", t) \in StrongHolder \cup WeakHolder
                        /\ Local("weak", t) \notin StrongHandle \cup WeakHandle \cup Object
                        /\ \A u \in Thread : /\ Local("weak", t) = Local("weak", u) => t = u
                                             /\ Local("weak", t) # Local("strong", u)
  BY <1>0, LocalFacts
\* What is watched has been there since before it could be made again.
<1>n. \A t \in Thread : ptr[Local("weak", t)] # NULL =>
        /\ ptr[Local("weak", t)] \in Object /\ block[ptr[Local("weak", t)]] = "live"
        /\ life[ptr[Local("weak", t)]] \notin {"none", "constructing"}
  <2>1. \A t \in Thread : Local("weak", t) \in WeakHolder
    BY DEF WeakHolder, Locals
  <2> QED
    BY <1>0, <1>l, <2>1 DEF IInv, TypeOK, WeakOwnerInv, ObjectInv, WatchInv
<1>h. \A w \in WeakHandle : ptr[w] # NULL =>
        ptr[w] \in Object /\ life[ptr[w]] \in {"alive", "destroying", "destroyed"}
  BY <1>0 DEF IInv, TypeOK, WeakOwnerInv, WeakHolder
\* Only a call that makes a target leaves one constructing.
<1>m. \A o \in Object : life'[o] = "constructing" => life[o] \in {"none", "constructing"}
  <2>1. CASE UNCHANGED vars
    BY <2>1 DEF vars
  <2>2. ASSUME NEW t \in Thread, Call(t)
        PROVE  \/ UNCHANGED life
               \/ \E o \in Object : block[o] = "unused" /\ life' = [life EXCEPT ![o] = "constructing"]
    BY <2>2 DEF Call, BeginConstruct, StrongCopy, WeakCopy, Copy, StrongMoveConstruct,
       WeakMoveConstruct, MoveConstruct, StrongSwap, WeakSwap, Swap, StrongMoveAssign,
       WeakMoveAssign, MoveAssign, WeakFromStrong, Lock, StrongReset, WeakReset, Reset
  <2>3. ASSUME NEW t \in Thread, Step(t)
        PROVE  \/ UNCHANGED life
               \/ \E v \in {"alive", "aborted", "destroyed"} :
                    life' = [life EXCEPT ![call[t].cb] = v]
               \/ life' = [life EXCEPT ![target[call[t].cb]] = "destroying"]
    <3>1. FinishConstruct(t) \/ ConstructThrows(t) \/ DestroyBase(t)
          => \E v \in {"alive", "aborted", "destroyed"} : life' = [life EXCEPT ![call[t].cb] = v]
      BY DEF FinishConstruct, ConstructThrows, DestroyBase
    <3>2. ExchangeTarget(t)
          => UNCHANGED life \/ life' = [life EXCEPT ![target[call[t].cb]] = "destroying"]
      BY DEF ExchangeTarget
    <3>3. \/ UNCHANGED life \/ FinishConstruct(t) \/ ConstructThrows(t) \/ DestroyBase(t)
          \/ ExchangeTarget(t)
      BY <2>3 DEF Step, Load, Terminate, CasSucceeds, CasFails, Install, LockLoad,
         LockCasSucceeds, LockCasFails, LockTarget, Release, FreeBlock, Take
    <3> QED
      BY <3>1, <3>2, <3>3
  <2> QED
    BY <1>0, <2>1, <2>2, <2>3 DEF Next, IInv, ObjectInv, TypeOK
\* A local keeps what it held, or takes what is not being constructed.
<1>1. ASSUME NEW u \in Thread
      PROVE  LET w == Local("weak", u) IN
             \/ ptr'[w] = ptr[w]
             \/ ptr'[w] = NULL
             \/ ptr'[w] \in Object /\ life[ptr'[w]] \in {"alive", "destroying", "destroyed"}
             \/ ptr'[w] \in Object /\ life'[ptr'[w]] = "aborted"
  <2> DEFINE w == Local("weak", u)
             Fine == \/ ptr'[w] = ptr[w]
                     \/ ptr'[w] = NULL
                     \/ ptr'[w] \in Object /\ life[ptr'[w]] \in {"alive", "destroying", "destroyed"}
                     \/ ptr'[w] \in Object /\ life'[ptr'[w]] = "aborted"
  <2>1. ASSUME UNCHANGED ptr PROVE Fine
    BY <2>1
  <2>2. ASSUME NEW x \in StrongHandle \cup WeakHandle, NEW y \in StrongHandle \cup WeakHandle,
               ptr' = Swapped(x, y)
        PROVE  Fine
    BY <1>0, <1>l, <2>2 DEF Swapped, TypeOK
  <2>3. ASSUME NEW t \in Thread, NEW k \in Kind, NEW x \in Handle(k), ptr' = Swapped(x, Local(k, t))
        PROVE  Fine
    <3>1. CASE Local(k, t) = w
      <4>1. k = "weak" /\ x \in WeakHandle
        BY <1>l, <3>1 DEF Kind, Handle
      <4>2. ptr'[w] = ptr[x]
        BY <1>0, <1>l, <2>3, <3>1, <4>1 DEF Swapped, TypeOK
      <4> QED
        BY <1>h, <4>1, <4>2
    <3>2. CASE Local(k, t) # w
      <4>1. x # w
        BY <1>l DEF Handle, Kind
      <4> QED
        BY <1>0, <1>l, <2>3, <3>2, <4>1 DEF Swapped, TypeOK
    <3> QED
      BY <3>1, <3>2
  <2>4. ASSUME NEW t \in Thread, Call(t) PROVE Fine
    <3>1. ASSUME NEW x \in StrongHandle, NEW o \in Object, BeginConstruct(t, x, o) PROVE Fine
      BY <1>0, <1>l, <3>1 DEF BeginConstruct, TypeOK
    <3>2. Handle("strong") = StrongHandle /\ Handle("weak") = WeakHandle
      BY DEF Handle
    <3>3. \/ \E x \in StrongHandle, o \in Object : BeginConstruct(t, x, o)
          \/ UNCHANGED ptr
          \/ \E x, y \in StrongHandle \cup WeakHandle : ptr' = Swapped(x, y)
          \/ \E k \in Kind : \E x \in Handle(k) : ptr' = Swapped(x, Local(k, t))
      BY <1>0, <2>4, <3>2
      DEF Call, StrongCopy, WeakCopy, Copy, StrongMoveConstruct,
       WeakMoveConstruct, MoveConstruct, StrongSwap, WeakSwap, Swap, StrongMoveAssign,
       WeakMoveAssign, MoveAssign, WeakFromStrong, Lock, StrongReset, WeakReset, Reset
    <3> QED
      BY <2>1, <2>2, <2>3, <3>1, <3>3
  <2>5. ASSUME NEW t \in Thread, Step(t) PROVE Fine
    <3>f. call[t] \in Frame /\ FrameShape(call[t])
      BY DEF IInv, TypeOK, ShapeInv
    <3>1. ASSUME ConstructThrows(t) PROVE Fine
      <4>1. call[t].cb \in Object
        BY <3>1, <3>f DEF ConstructThrows, Runs, At, FrameShape
      <4> QED
        BY <1>0, <1>l, <3>1, <4>1 DEF ConstructThrows, TypeOK
    <3>2. ASSUME CasSucceeds(t) PROVE Fine
      <4>1. PICK k \in Kind, o \in Object : /\ call[t].kind = k /\ call[t].cb = o
                                            /\ call[t].pc = "cas"
        BY <3>2, <3>f DEF CasSucceeds, Runs, At, FrameShape, Frame
      <4>2. ptr' = [ptr EXCEPT ![Local(k, t)] = o]
        BY <3>2, <4>1 DEF CasSucceeds
      <4>3. life[o] \in {"alive", "destroying", "destroyed"}
        BY <4>1, SourceIsAlive
      <4> QED
        BY <1>0, <1>l, <4>2, <4>3 DEF TypeOK
    <3>3. ASSUME NEW v, ptr' = [ptr EXCEPT ![Local("strong", t)] = v] PROVE Fine
      BY <1>0, <1>l, <3>3 DEF TypeOK
    <3>4. ASSUME Release(t) PROVE Fine
      BY <1>0, <1>l, <3>4 DEF Release, TypeOK
    <3>5. ASSUME DestroyBase(t) PROVE Fine
      <4>1. PICK o \in Object : call[t].cb = o /\ life[o] = "destroying" /\ ptr[o] = o
        BY <3>5, <3>f DEF DestroyBase, Runs, At, FrameShape, IInv, StageInv, ObjectInv
      <4>2. ptr' = Swapped(o, Local("weak", t))
        BY <3>5, <4>1 DEF DestroyBase
      <4> QED
        BY <1>0, <1>l, <4>1, <4>2 DEF Swapped, TypeOK
    <3>6. ASSUME Install(t) PROVE Fine
      <4>1. PICK k \in Kind : call[t].kind = k /\ call[t].dst \in Handle(k)
        BY <3>6, <3>f DEF Install, Runs, At, FrameShape, Frame
      <4> QED
        BY <2>3, <3>6, <4>1 DEF Install
    <3>7. ASSUME Take(t) PROVE Fine
      <4>1. PICK k \in Kind : call[t].dst \in Handle(k) /\ call[t].src \in Handle(k)
        BY <3>7, <3>f DEF Take, Runs, At, FrameShape
      <4> QED
        BY <1>0, <1>l, <3>7, <4>1 DEF Take, TypeOK, Handle
    <3> QED
      BY <2>5, <2>1, <3>1, <3>2, <3>3, <3>4, <3>5, <3>6, <3>7
      DEF Step, FinishConstruct, Load, Terminate, CasFails, LockLoad, LockCasSucceeds,
          LockCasFails, LockTarget, ExchangeTarget, FreeBlock
  <2> QED
    BY <2>1, <2>4, <2>5 DEF Next, vars
<1> QED
  BY <1>1, <1>m, <1>n DEF WatchInv

\* intrusive_ptr.h keeps its promise under every interleaving of its threads: a target
\* is shared by whoever owns it, destroyed when nobody does and its control block
\* reclaimed when nobody watches, whatever the handles and calls.
THEOREM ImplementsSharing == ASSUME EnoughRefs PROVE Spec => Shared_!SharedSpec
<1>1. Init => Shared_!SharedInit /\ WatchInv
  <2>1. ASSUME Init
        PROVE  /\ \A x \in StrongHolder \cup WeakHolder : ptr[x] = NULL
               /\ \A o \in Object : ~Built(o)
    BY <2>1 DEF Init, Built
  <2>2. ASSUME Init PROVE WatchInv
    BY <2>1, <2>2, LocalFacts DEF WatchInv, Kind
  <2>3. ASSUME Init PROVE Shared_!SharedInit
    BY <2>1, <2>3 DEF Shared_!SharedInit, Visible, StageOf, WeakHolder
  <2> QED
    BY <2>2, <2>3
<1>2. IInv /\ WatchInv /\ [Next]_vars => WatchInv'
  BY WatchStep
<1>3. IInv /\ WatchInv /\ [Next]_vars => [Shared_!SharedNext]_(Shared_!svars)
  <2>1. ASSUME UNCHANGED vars
        PROVE  OwnBar' = OwnBar /\ WatchBar' = WatchBar /\ StageBar' = StageBar
    BY <2>1 DEF vars, OwnBar, WatchBar, StageBar, Visible, Built, StageOf
  <2>2. OwnBar' = OwnBar /\ WatchBar' = WatchBar /\ StageBar' = StageBar
        => UNCHANGED Shared_!svars
    BY DEF Shared_!svars, OwnBar, WatchBar, StageBar, Watching, Visible, Built, StageOf
  <2> QED
    BY <2>1, <2>2, CallShares, StepShares DEF Next
<1> QED
  BY Invariance, <1>1, <1>2, <1>3, PTL DEF Spec, Shared_!SharedSpec
=============================================================================
