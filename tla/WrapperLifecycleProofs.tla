----------------------- MODULE WrapperLifecycleProofs -----------------------
(***************************************************************************)
(* Theorems about WrapperLifecycle, for every number of Qt objects and     *)
(* wrappers: with any number of threads the variables keep their types and *)
(* the windows are frozen while the application goes down; with one thread *)
(* the object map is complete and the assertion of QtQoreMap::del never    *)
(* fails.                                                                  *)
(*                                                                         *)
(* clear() takes no lock for the whole of its work: it takes the object    *)
(* off the map under the lock of the map, and resets the pointer after it. *)
(* It calls nothing in between, so that its phases are only ever on top of *)
(* a stack (PhasesOnTop); with one thread nobody sees the state between.   *)
(***************************************************************************)
EXTENDS WrapperLifecycle, TLAPS

-----------------------------------------------------------------------------
(* Frames and stacks *)

LEMMA AFrameType ==
    ASSUME NEW op \in AOps, NEW a \in Addr
    PROVE  AFrame(op, a) \in Frame
BY DEF AFrame, Frame

LEMMA WFrameType ==
    ASSUME NEW op \in WOps, NEW w \in Wrap
    PROVE  WFrame(op, w) \in Frame
BY DEF WFrame, Frame

LEMMA RestFrameType ==
    ASSUME NEW op \in RestOps, NEW a \in Addr, NEW w \in Wrap
    PROVE  RestFrame(op, a, w) \in Frame
BY DEF RestFrame, Frame

LEMMA LoopFrameType ==
    ASSUME NEW s \in SUBSET Addr
    PROVE  LoopFrame(s) \in Frame
BY DEF LoopFrame, Frame

\* A call that replaces the top frame leaves well formed stacks.
LEMMA CallsType ==
    ASSUME NEW t \in Thread, NEW fs \in Seq(Frame), stack[t] # <<>>,
           stack \in [Thread -> Seq(Frame)], Calls(t, fs)
    PROVE  stack' \in [Thread -> Seq(Frame)]
<1>1. Tail(stack[t]) \in Seq(Frame)
  OBVIOUS
<1>2. fs \o Tail(stack[t]) \in Seq(Frame)
  BY <1>1
<1>. QED  BY <1>2 DEF Calls

LEMMA EnterType ==
    ASSUME NEW t \in Thread, NEW fs \in Seq(Frame),
           stack \in [Thread -> Seq(Frame)], Enter(t, fs)
    PROVE  stack' \in [Thread -> Seq(Frame)]
<1>1. fs \o stack[t] \in Seq(Frame)
  OBVIOUS
<1>. QED  BY <1>1 DEF Enter

LEMMA TopType ==
    ASSUME NEW t \in Thread, stack[t] # <<>>,
           stack \in [Thread -> Seq(Frame)]
    PROVE  Top(t) \in Frame
BY DEF Top

LEMMA Seqs ==
    ASSUME NEW S, NEW x \in S, NEW y \in S, NEW z \in S
    PROVE  /\ <<>> \in Seq(S) /\ <<x>> \in Seq(S) /\ <<x, y>> \in Seq(S)
           /\ <<x, y, z>> \in Seq(S)
OBVIOUS

LEMMA TopArguments ==
    ASSUME TypeOK, NEW t \in Thread, stack[t] # <<>>
    PROVE  /\ Top(t).op \in WOps => /\ Top(t).w \in Wrap
                                    /\ Top(t) = WFrame(Top(t).op, Top(t).w)
           /\ Top(t).op \in AOps => Top(t).a \in Addr
           /\ Top(t).op \in RestOps =>
                  /\ Top(t).w \in Wrap /\ Top(t).a \in Addr
                  /\ Top(t) = RestFrame(Top(t).op, Top(t).a, Top(t).w)
           /\ Top(t).op = "deleteAll" => Top(t).s \in SUBSET Addr
<1>1. Top(t) \in Frame
  BY TopType DEF TypeOK
<1>. QED  BY <1>1 DEF Frame, AOps, WOps, RestOps, RestDelOps, RestEndOps, WFrame, RestFrame

LEMMA AbortType ==
    ASSUME TypeOK, NEW f \in Faults, Abort(f)
    PROVE  TypeOK'
BY DEF TypeOK, Abort

LEMMA ReturnType ==
    ASSUME TypeOK, NEW t \in Thread, stack[t] # <<>>, Return(t)
    PROVE  stack' \in [Thread -> Seq(Frame)]
<1>1. <<>> \in Seq(Frame) /\ stack \in [Thread -> Seq(Frame)] /\ Calls(t, <<>>)
  BY DEF Return, TypeOK
<1>. QED  BY <1>1, CallsType

LEMMA DestructorFramesType ==
    ASSUME NEW w \in Wrap
    PROVE  DestructorFrames(w) \in Seq(Frame)
<1>1. /\ WFrame("userDtor", w) \in Frame
      /\ WFrame("commonDtor", w) \in Frame
      /\ WFrame("endDelete", w) \in Frame
  BY WFrameType DEF WOps
<1>. QED  BY <1>1, Seqs DEF DestructorFrames

\* the records of a wrapper and of its private data
LEMMA WrFields ==
    ASSUME TypeOK, NEW w \in Wrap
    PROVE  /\ wr[w].status \in {"free", "ok", "deleting", "deleted"}
           /\ wr[w].refs \in Int /\ wr[w].held \in Int
BY DEF TypeOK, WrRecord

LEMMA PdFields ==
    ASSUME TypeOK, NEW w \in Wrap
    PROVE  /\ pd[w].refs \in Int /\ pd[w].obj \in Addr \cup {None}
           /\ pd[w].attached \in BOOLEAN /\ pd[w].is_qobject \in BOOLEAN
           /\ pd[w].eo \in BOOLEAN /\ pd[w].obj_ref \in BOOLEAN
BY DEF TypeOK, PdRecord

LEMMA QtPutType ==
    ASSUME qt \in [Addr -> QtRecord], NEW a \in Addr, NEW p \in Addr \cup {None},
           NEW kind \in KindSet, NEW b \in BOOLEAN, NEW c \in BOOLEAN
    PROVE  /\ [qt EXCEPT ![a] = NewQt(kind, b, c, p)] \in [Addr -> QtRecord]
           /\ [qt EXCEPT ![a] = NoQt] \in [Addr -> QtRecord]
<1>1. NewQt(kind, b, c, p) \in QtRecord /\ NoQt \in QtRecord
  BY DEF NewQt, NoQt, QtRecord, KindSet
<1>. QED  BY <1>1

LEMMA NoPdType == NoPd \in PdRecord
BY DEF NoPd, PdRecord

\* clear() and the constructors of the private data keep the types
LEMMA ClearType ==
    ASSUME TypeOK, NEW w \in Wrap
    PROVE  /\ ClearWindow(w) => qwm' \in [set : SUBSET Addr, done : BOOLEAN]
           /\ Reset(w) => pd' \in [Wrap -> PdRecord]
<1>1. pd[w].obj \in Addr \cup {None} /\ pd \in [Wrap -> PdRecord]
      /\ qwm \in [set : SUBSET Addr, done : BOOLEAN]
  BY PdFields DEF TypeOK
<1>2. ClearWindow(w) => qwm' \in [set : SUBSET Addr, done : BOOLEAN]
  BY <1>1 DEF ClearWindow, QwmRemove
<1>3. Reset(w) => pd' \in [Wrap -> PdRecord]
  BY <1>1 DEF Reset, PdRecord
<1>. QED  BY <1>2, <1>3

LEMMA ClearFaultType ==
    ASSUME NEW w \in Wrap, ClearFault(w) # None
    PROVE  ClearFault(w) \in Faults
BY DEF ClearFault, Faults

LEMMA DelFaultType ==
    ASSUME NEW w \in Wrap, DelFault(w) # None
    PROVE  DelFault(w) \in Faults
BY DEF DelFault, Faults

\* the frame of a call that has taken an object off the map
LEMMA EndFrameType ==
    ASSUME NEW f \in Frame, f.op \in DelOps
    PROVE  /\ [f EXCEPT !.op = EndOf(f.op)] \in Frame
           /\ [f EXCEPT !.op = EndOf(f.op)].op \in EndOps
           /\ [f EXCEPT !.op = EndOf(f.op)].w = f.w /\ f.w \in Wrap
<1>1. CASE f.op \in RestDelOps
  <2>1. f = RestFrame(f.op, f.a, f.w) /\ f.a \in Addr /\ f.w \in Wrap
    BY <1>1 DEF Frame, AOps, WOps, RestDelOps, RestFrame
  <2>2. EndOf(f.op) \in RestEndOps
    BY <1>1 DEF EndOf, RestDelOps, RestEndOps
  <2>3. [f EXCEPT !.op = EndOf(f.op)] = RestFrame(EndOf(f.op), f.a, f.w)
    BY <2>1 DEF RestFrame
  <2>4. RestFrame(EndOf(f.op), f.a, f.w) \in Frame
    BY <2>1, <2>2, RestFrameType DEF RestOps
  <2>. QED  BY <2>1, <2>2, <2>3, <2>4 DEF RestFrame, EndOps
<1>2. CASE f.op \in {"externalDel", "returnDel"}
  <2>1. f = WFrame(f.op, f.w) /\ f.w \in Wrap
    BY <1>2 DEF Frame, AOps, RestOps, RestDelOps, RestEndOps, WFrame
  <2>2. EndOf(f.op) \in {"externalEnd", "returnEnd"}
    BY <1>2 DEF EndOf
  <2>3. [f EXCEPT !.op = EndOf(f.op)] = WFrame(EndOf(f.op), f.w)
    BY <2>1 DEF WFrame
  <2>4. WFrame(EndOf(f.op), f.w) \in Frame
    BY <2>1, <2>2, WFrameType DEF WOps
  <2>. QED  BY <2>1, <2>2, <2>3, <2>4 DEF WFrame, EndOps
<1>. QED  BY <1>1, <1>2 DEF DelOps

LEMMA NewPrivateType ==
    ASSUME TypeOK, NEW w \in Wrap, NEW a \in Addr, NEW kind \in KindSet,
           NEW p \in Addr \cup {None}, NEW eo \in BOOLEAN,
           NewPrivate(w, a, kind, p, eo)
    PROVE  /\ wr' \in [Wrap -> WrRecord]
           /\ pd' \in [Wrap -> PdRecord]
           /\ map' \in [Addr -> Wrap \cup {None}]
           /\ qwm' \in [set : SUBSET Addr, done : BOOLEAN]
<1>1. wr' \in [Wrap -> WrRecord]
  <2>1. wr \in [Wrap -> WrRecord] /\ wr' = [wr EXCEPT ![w] = Wr("ok", 1, 1)]
    BY DEF NewPrivate, TypeOK
  <2>. QED  BY <2>1 DEF WrRecord, Wr
<1>2. pd' \in [Wrap -> PdRecord]
  <2>1. [refs |-> 1, attached |-> TRUE, is_qobject |-> kind # "plain",
         obj |-> a, eo |-> eo, obj_ref |-> FALSE] \in PdRecord
    BY DEF PdRecord
  <2>. QED  BY <2>1 DEF NewPrivate, TypeOK
<1>3. map' \in [Addr -> Wrap \cup {None}]
  BY DEF NewPrivate, TypeOK
<1>4. qwm' \in [set : SUBSET Addr, done : BOOLEAN]
  BY DEF NewPrivate, TypeOK, QwmAdd
<1>. QED  BY <1>1, <1>2, <1>3, <1>4

LEMMA PrivateFaultType ==
    ASSUME NEW a, NEW kind, NEW p, PrivateFault(a, kind, p) # None
    PROVE  PrivateFault(a, kind, p) \in Faults
BY DEF PrivateFault, Faults

-----------------------------------------------------------------------------
(* Type correctness, one lemma per action *)

LEMMA DerefType ==
    ASSUME TypeOK, NEW t \in Thread, Deref(t)
    PROVE  TypeOK'
<1>1. PICK w \in Wrap : w = Top(t).w /\ stack[t] # <<>>
  BY TopArguments DEF Deref, AtTop, Running, WOps
<1>2. /\ wr[w].refs \in Int /\ wr[w].held \in Int
      /\ wr \in [Wrap -> WrRecord] /\ pd \in [Wrap -> PdRecord]
  BY <1>1, WrFields DEF TypeOK
<1>3. CASE wr[w].status = "free"
  BY <1>1, <1>3, AbortType DEF Deref, Faults
<1>4. CASE wr[w].status # "free" /\ wr[w].refs > 1
  <2>1. /\ wr' = [wr EXCEPT ![w].refs = wr[w].refs - 1]
        /\ Return(t) /\ UNCHANGED <<qt, pd, map, qwm, fault>>
    BY <1>1, <1>2, <1>4 DEF Deref
  <2>2. wr' \in [Wrap -> WrRecord]
    BY <1>2, <2>1 DEF WrRecord
  <2>3. stack' \in [Thread -> Seq(Frame)]
    BY <1>1, <2>1, ReturnType
  <2>. QED  BY <2>1, <2>2, <2>3 DEF TypeOK
<1>5. CASE wr[w].status = "ok" /\ wr[w].refs <= 1 /\ deleteBlocker(w)
  <2>1. /\ wr' = [wr EXCEPT ![w].refs = IF pd[w].obj_ref THEN 0 ELSE 1]
        /\ pd' = [pd EXCEPT ![w].obj_ref = TRUE]
        /\ Return(t) /\ UNCHANGED <<qt, map, qwm, fault>>
    BY <1>1, <1>2, <1>5 DEF Deref
  <2>2. wr' \in [Wrap -> WrRecord]
    BY <1>2, <2>1 DEF WrRecord
  <2>3. pd' \in [Wrap -> PdRecord]
    BY <1>2, <2>1 DEF PdRecord
  <2>4. stack' \in [Thread -> Seq(Frame)]
    BY <1>1, <2>1, ReturnType
  <2>. QED  BY <2>1, <2>2, <2>3, <2>4 DEF TypeOK
<1>6. CASE wr[w].status = "ok" /\ wr[w].refs <= 1 /\ ~deleteBlocker(w)
  <2>1. /\ wr' = [wr EXCEPT ![w] = Wr("deleting", 1, wr[w].held)]
        /\ Calls(t, DestructorFrames(w)) /\ UNCHANGED <<qt, pd, map, qwm, fault>>
    BY <1>1, <1>2, <1>6 DEF Deref
  <2>2. wr' \in [Wrap -> WrRecord]
    BY <1>2, <2>1 DEF WrRecord, Wr
  <2>3. stack' \in [Thread -> Seq(Frame)]
    BY <1>1, <2>1, CallsType, DestructorFramesType DEF TypeOK
  <2>. QED  BY <2>1, <2>2, <2>3 DEF TypeOK
<1>7. CASE wr[w].status \notin {"ok", "free"} /\ wr[w].refs <= 1
  <2>1. /\ wr' = [wr EXCEPT ![w] = Wr("free", 0, 0)]
        /\ Return(t) /\ UNCHANGED <<qt, pd, map, qwm, fault>>
    BY <1>1, <1>2, <1>7 DEF Deref, NoWr
  <2>2. wr' \in [Wrap -> WrRecord]
    BY <1>2, <2>1 DEF WrRecord, Wr
  <2>3. stack' \in [Thread -> Seq(Frame)]
    BY <1>1, <2>1, ReturnType
  <2>. QED  BY <2>1, <2>2, <2>3 DEF TypeOK
<1>. QED  BY <1>2, <1>3, <1>4, <1>5, <1>6, <1>7

\* a step that only returns, or that enters or makes well formed calls
LEMMA StackOnlyType ==
    ASSUME TypeOK, stack' \in [Thread -> Seq(Frame)],
           UNCHANGED <<qt, wr, pd, map, qwm, fault>>
    PROVE  TypeOK'
BY DEF TypeOK

LEMMA Singleton ==
    ASSUME NEW x \in Frame
    PROVE  <<x>> \in Seq(Frame)
OBVIOUS

LEMMA UserDtorEndType ==
    ASSUME TypeOK, NEW t \in Thread, UserDtorEnd(t) \/ ConstructorReturns(t)
    PROVE  TypeOK'
<1>1. stack[t] # <<>> /\ Return(t) /\ UNCHANGED <<qt, wr, pd, map, qwm, fault>>
  BY DEF UserDtorEnd, ConstructorReturns, AtTop, Running
<1>. QED  BY <1>1, ReturnType, StackOnlyType

LEMMA EndDeleteType ==
    ASSUME TypeOK, NEW t \in Thread, EndDelete(t)
    PROVE  TypeOK'
<1>1. PICK w \in Wrap : w = Top(t).w /\ stack[t] # <<>>
  BY TopArguments DEF EndDelete, AtTop, Running, WOps
<1>2. /\ wr' = [wr EXCEPT ![w].status = "deleted"]
      /\ Calls(t, <<WFrame("deref", w)>>)
      /\ UNCHANGED <<qt, pd, map, qwm, fault>>
  BY <1>1 DEF EndDelete
<1>3. wr \in [Wrap -> WrRecord]
  BY DEF TypeOK
<1>4. wr' \in [Wrap -> WrRecord]
  BY <1>2, <1>3 DEF WrRecord
<1>5. WFrame("deref", w) \in Frame
  BY WFrameType DEF WOps
<1>6. stack' \in [Thread -> Seq(Frame)]
  BY <1>1, <1>2, <1>5, Singleton, CallsType DEF TypeOK
<1>. QED  BY <1>2, <1>4, <1>6 DEF TypeOK

LEMMA PdDerefType ==
    ASSUME TypeOK, NEW t \in Thread, PdDeref(t)
    PROVE  TypeOK'
<1>1. PICK w \in Wrap : w = Top(t).w /\ stack[t] # <<>>
  BY TopArguments DEF PdDeref, AtTop, Running, WOps
<1>2. /\ pd[w].refs \in Int /\ pd[w].obj \in Addr \cup {None}
      /\ pd \in [Wrap -> PdRecord]
  BY PdFields DEF TypeOK
<1>3. CASE pd[w].refs > 1
  <2>1. /\ pd' = [pd EXCEPT ![w].refs = pd[w].refs - 1]
        /\ Return(t) /\ UNCHANGED <<qt, wr, map, qwm, fault>>
    BY <1>1, <1>3 DEF PdDeref
  <2>2. pd' \in [Wrap -> PdRecord]
    BY <1>2, <2>1 DEF PdRecord
  <2>3. stack' \in [Thread -> Seq(Frame)]
    BY <1>1, <2>1, ReturnType
  <2>. QED  BY <2>1, <2>2, <2>3 DEF TypeOK
<1>4. CASE Abort("obj_ref") \/ Abort("map_del")
  BY <1>4, AbortType DEF Faults
<1>5. CASE ~(pd[w].refs > 1) /\ ~Abort("obj_ref") /\ ~Abort("map_del")
  <2>. DEFINE a == pd[w].obj
              fs == IF a # None /\ ~pd[w].eo /\
                       (pd[w].is_qobject => qt[a].parent = None)
                    THEN <<AFrame("qtDestroy", a)>> ELSE <<>>
  <2>1. /\ pd' = [pd EXCEPT ![w] = NoPd]
        /\ map' = IF a # None /\ pd[w].is_qobject
                  THEN [map EXCEPT ![a] = None] ELSE map
        /\ Calls(t, fs) /\ UNCHANGED <<qt, wr, qwm, fault>>
    BY <1>1, <1>5 DEF PdDeref
  <2>2. pd' \in [Wrap -> PdRecord]
    BY <1>2, <2>1, NoPdType
  <2>3. map' \in [Addr -> Wrap \cup {None}]
    BY <2>1 DEF TypeOK
  <2>4. a # None => AFrame("qtDestroy", a) \in Frame
    BY <1>2, AFrameType DEF AOps
  <2>5. fs \in Seq(Frame)
    BY <2>4, Singleton
  <2>. HIDE DEF fs
  <2>6. stack' \in [Thread -> Seq(Frame)]
    BY <1>1, <2>1, <2>5, CallsType DEF TypeOK
  <2>. QED  BY <2>1, <2>2, <2>3, <2>6 DEF TypeOK
<1>. QED  BY <1>3, <1>4, <1>5

LEMMA ObjRefDropType ==
    ASSUME TypeOK, NEW t \in Thread, ObjRefDrop(t)
    PROVE  TypeOK'
<1>1. PICK w \in Wrap : w = Top(t).w /\ stack[t] # <<>>
  BY TopArguments DEF ObjRefDrop, AtTop, Running, WOps
<1>. DEFINE fs == IF pd[w].obj_ref THEN <<WFrame("deref", w)>> ELSE <<>>
<1>2. /\ pd' = [pd EXCEPT ![w].obj_ref = FALSE] /\ Calls(t, fs)
      /\ UNCHANGED <<qt, wr, map, qwm, fault>>
  BY <1>1 DEF ObjRefDrop
<1>3. pd \in [Wrap -> PdRecord]
  BY DEF TypeOK
<1>4. pd' \in [Wrap -> PdRecord]
  BY <1>2, <1>3 DEF PdRecord
<1>5. WFrame("deref", w) \in Frame
  BY WFrameType DEF WOps
<1>6. fs \in Seq(Frame)
  BY <1>5, Singleton
<1>. HIDE DEF fs
<1>7. stack' \in [Thread -> Seq(Frame)]
  BY <1>1, <1>2, <1>6, CallsType DEF TypeOK
<1>. QED  BY <1>2, <1>4, <1>7 DEF TypeOK

LEMMA CommonDestructorType ==
    ASSUME TypeOK, NEW t \in Thread, CommonDestructor(t)
    PROVE  TypeOK'
<1>1. PICK w \in Wrap : w = Top(t).w /\ stack[t] # <<>>
  BY TopArguments DEF CommonDestructor, AtTop, Running, WOps
<1>2. PICK a \in Addr \cup {None} : a = pd[w].obj
  BY PdFields
<1>3. pd \in [Wrap -> PdRecord] /\ qwm \in [set : SUBSET Addr, done : BOOLEAN]
  BY DEF TypeOK
<1>4. WFrame("pdDeref", w) \in Frame /\ LoopFrame(qwm.set) \in Frame
  BY <1>3, WFrameType, LoopFrameType DEF WOps
<1>5. a # None => RestFrame("dtorRest", a, w) \in Frame
  BY <1>2, RestFrameType DEF RestOps
<1>6. CASE ~pd[w].attached
  <2>1. Return(t) /\ UNCHANGED <<qt, wr, pd, map, qwm, fault>>
    BY <1>1, <1>6 DEF CommonDestructor
  <2>. QED  BY <1>1, <2>1, ReturnType, StackOnlyType
<1>7. CASE pd[w].attached /\ a = None
  <2>1. /\ pd' = [pd EXCEPT ![w].attached = FALSE]
        /\ Calls(t, <<WFrame("pdDeref", w)>>)
        /\ UNCHANGED <<qt, wr, map, qwm, fault>>
    BY <1>1, <1>2, <1>7 DEF CommonDestructor
  <2>2. pd' \in [Wrap -> PdRecord]
    BY <1>3, <2>1 DEF PdRecord
  <2>3. stack' \in [Thread -> Seq(Frame)]
    BY <1>1, <1>4, <2>1, Singleton, CallsType DEF TypeOK
  <2>. QED  BY <2>1, <2>2, <2>3 DEF TypeOK
<1>8. CASE pd[w].attached /\ a # None /\ qt[a].kind = "app" /\ qwm.done
  BY <1>1, <1>2, <1>8, AbortType DEF CommonDestructor, Faults
<1>9. CASE pd[w].attached /\ a # None /\ qt[a].kind = "app" /\ ~qwm.done
  <2>1. /\ qwm' = [qwm EXCEPT !.done = TRUE]
        /\ pd' = [pd EXCEPT ![w].attached = FALSE]
        /\ Calls(t, <<LoopFrame(qwm.set), RestFrame("dtorRest", a, w),
                      WFrame("pdDeref", w)>>)
        /\ UNCHANGED <<qt, wr, map, fault>>
    BY <1>1, <1>2, <1>9 DEF CommonDestructor
  <2>2. pd' \in [Wrap -> PdRecord]
    BY <1>3, <2>1 DEF PdRecord
  <2>3. qwm' \in [set : SUBSET Addr, done : BOOLEAN]
    BY <1>3, <2>1
  <2>4. <<LoopFrame(qwm.set), RestFrame("dtorRest", a, w), WFrame("pdDeref", w)>>
            \in Seq(Frame)
    BY <1>4, <1>5, <1>9, Seqs
  <2>5. stack' \in [Thread -> Seq(Frame)]
    BY <1>1, <2>1, <2>4, CallsType DEF TypeOK
  <2>. QED  BY <2>1, <2>2, <2>3, <2>5 DEF TypeOK
<1>10. CASE pd[w].attached /\ a # None /\ qt[a].kind # "app"
  <2>1. /\ pd' = [pd EXCEPT ![w].attached = FALSE]
        /\ Calls(t, <<RestFrame("dtorRest", a, w), WFrame("pdDeref", w)>>)
        /\ UNCHANGED <<qt, wr, map, qwm, fault>>
    BY <1>1, <1>2, <1>10 DEF CommonDestructor
  <2>2. pd' \in [Wrap -> PdRecord]
    BY <1>3, <2>1 DEF PdRecord
  <2>3. <<RestFrame("dtorRest", a, w), WFrame("pdDeref", w)>> \in Seq(Frame)
    BY <1>4, <1>5, <1>10, Seqs
  <2>4. stack' \in [Thread -> Seq(Frame)]
    BY <1>1, <2>1, <2>3, CallsType DEF TypeOK
  <2>. QED  BY <2>1, <2>2, <2>4 DEF TypeOK
<1>. QED  BY <1>6, <1>7, <1>8, <1>9, <1>10

LEMMA DeleteAllType ==
    ASSUME TypeOK, NEW t \in Thread, DeleteAll(t)
    PROVE  TypeOK'
<1>1. PICK s \in SUBSET Addr : s = Top(t).s /\ stack[t] # <<>>
  BY TopArguments DEF DeleteAll, AtTop, Running
<1>2. CASE s = {}
  <2>1. Return(t) /\ UNCHANGED <<qt, wr, pd, map, qwm, fault>>
    BY <1>1, <1>2 DEF DeleteAll
  <2>. QED  BY <1>1, <2>1, ReturnType, StackOnlyType
<1>3. CASE s # {}
  <2>1. PICK a \in s :
          IF qt[a].state = "free" THEN Abort("deleteAll_dangling")
          ELSE /\ Calls(t, IF qt[a].parent = None
                           THEN <<AFrame("qtDestroy", a), LoopFrame(s \ {a})>>
                           ELSE <<LoopFrame(s \ {a})>>)
               /\ UNCHANGED <<qt, wr, pd, map, qwm, fault>>
    BY <1>1, <1>3 DEF DeleteAll
  <2>2. CASE qt[a].state = "free"
    BY <2>1, <2>2, AbortType DEF Faults
  <2>3. CASE qt[a].state # "free"
    <3>. DEFINE fs == IF qt[a].parent = None
                      THEN <<AFrame("qtDestroy", a), LoopFrame(s \ {a})>>
                      ELSE <<LoopFrame(s \ {a})>>
    <3>1. AFrame("qtDestroy", a) \in Frame /\ LoopFrame(s \ {a}) \in Frame
      BY AFrameType, LoopFrameType DEF AOps
    <3>2. fs \in Seq(Frame)
      BY <3>1, Seqs
    <3>3. Calls(t, fs) /\ UNCHANGED <<qt, wr, pd, map, qwm, fault>>
      BY <2>1, <2>3
    <3>. HIDE DEF fs
    <3>4. stack' \in [Thread -> Seq(Frame)]
      BY <1>1, <3>2, <3>3, CallsType DEF TypeOK
    <3>. QED  BY <3>3, <3>4, StackOnlyType
  <2>. QED  BY <2>2, <2>3
<1>. QED  BY <1>2, <1>3

LEMMA DtorRestType ==
    ASSUME TypeOK, NEW t \in Thread, DtorRest(t)
    PROVE  TypeOK'
<1>1. PICK w \in Wrap, a \in Addr :
        w = Top(t).w /\ a = Top(t).a /\ stack[t] # <<>>
  BY TopArguments DEF DtorRest, AtTop, Running, RestOps
<1>2. CASE Abort("dangling_qt")
  BY <1>2, AbortType DEF Faults
<1>3. CASE ClearFault(w) # None /\ Abort(ClearFault(w))
  BY <1>3, AbortType, ClearFaultType
<1>4. CASE ~Abort("dangling_qt") /\ ~(ClearFault(w) # None /\ Abort(ClearFault(w)))
  <2>1. PICK way \in RestDelOps :
          /\ ClearWindow(w) /\ Calls(t, <<RestFrame(way, a, w)>>)
          /\ UNCHANGED <<qt, wr, pd, map, fault>>
    BY <1>1, <1>4 DEF DtorRest, RestDelOps
  <2>2. RestFrame(way, a, w) \in Frame
    BY RestFrameType DEF RestOps
  <2>3. stack' \in [Thread -> Seq(Frame)]
    BY <1>1, <2>1, <2>2, Seqs, CallsType DEF TypeOK
  <2>. QED  BY <2>1, <2>3, ClearType DEF TypeOK
<1>. QED  BY <1>2, <1>3, <1>4

LEMMA DtorRestEndType ==
    ASSUME TypeOK, NEW t \in Thread, DtorRestEnd(t)
    PROVE  TypeOK'
<1>1. PICK w \in Wrap, a \in Addr :
        w = Top(t).w /\ a = Top(t).a /\ stack[t] # <<>>
  BY TopArguments DEF DtorRestEnd, Running, RestOps
<1>2. /\ Reset(w) /\ UNCHANGED <<qt, wr, map, qwm, fault>>
      /\ \/ Calls(t, <<>>)
         \/ Calls(t, <<WFrame("objRefDrop", w)>>)
         \/ Calls(t, <<WFrame("objRefDrop", w), AFrame("qtDestroy", a)>>)
  BY <1>1 DEF DtorRestEnd, RestEndOps
<1>3. /\ WFrame("objRefDrop", w) \in Frame /\ AFrame("qtDestroy", a) \in Frame
  BY AFrameType, WFrameType DEF AOps, WOps
<1>4. /\ <<>> \in Seq(Frame) /\ <<WFrame("objRefDrop", w)>> \in Seq(Frame)
      /\ <<WFrame("objRefDrop", w), AFrame("qtDestroy", a)>> \in Seq(Frame)
  BY <1>3, Seqs
<1>5. stack' \in [Thread -> Seq(Frame)]
  BY <1>1, <1>2, <1>4, CallsType DEF TypeOK
<1>. QED  BY <1>2, <1>5, ClearType DEF TypeOK

LEMMA MapDelType ==
    ASSUME TypeOK, NEW t \in Thread, MapDel(t)
    PROVE  TypeOK'
<1>. DEFINE f == [Top(t) EXCEPT !.op = EndOf(Top(t).op)]
<1>1. stack[t] # <<>> /\ Top(t).op \in DelOps /\ Top(t) \in Frame
  BY TopType DEF MapDel, AtDel, Running, TypeOK
<1>2. f \in Frame /\ Top(t).w \in Wrap
  BY <1>1, EndFrameType
<1>. DEFINE w == Top(t).w
<1>3. CASE DelFault(w) # None
  BY <1>2, <1>3, AbortType, DelFaultType DEF MapDel
<1>4. CASE DelFault(w) = None
  <2>1. /\ map' = IF pd[w].obj = None THEN map ELSE [map EXCEPT ![pd[w].obj] = None]
        /\ Calls(t, <<f>>) /\ UNCHANGED <<qt, wr, pd, qwm, fault>>
    BY <1>4 DEF MapDel
  <2>2. map' \in [Addr -> Wrap \cup {None}]
    BY <2>1 DEF TypeOK
  <2>. HIDE DEF f
  <2>3. stack' \in [Thread -> Seq(Frame)]
    BY <1>1, <1>2, <2>1, Seqs, CallsType DEF TypeOK
  <2>. QED  BY <2>1, <2>2, <2>3 DEF TypeOK
<1>. QED  BY <1>3, <1>4

LEMMA QtDestroyType ==
    ASSUME TypeOK, NEW t \in Thread, QtDestroy(t)
    PROVE  TypeOK'
<1>1. PICK a \in Addr : a = Top(t).a /\ stack[t] # <<>>
  BY TopArguments DEF QtDestroy, AtTop, Running, AOps
<1>2. CASE ~Live(a)
  BY <1>1, <1>2, AbortType DEF QtDestroy, Faults
<1>3. CASE Live(a)
  <2>. DEFINE fs == IF qt[a].bound
                    THEN <<AFrame("deleted", a), AFrame("qtFree", a)>>
                    ELSE <<AFrame("qtFree", a)>>
  <2>1. /\ qt' = [qt EXCEPT ![a].state = "dying"] /\ Calls(t, fs)
        /\ UNCHANGED <<wr, pd, map, qwm, fault>>
    BY <1>1, <1>3 DEF QtDestroy
  <2>2. qt \in [Addr -> QtRecord]
    BY DEF TypeOK
  <2>3. qt' \in [Addr -> QtRecord]
    BY <2>1, <2>2 DEF QtRecord
  <2>4. AFrame("deleted", a) \in Frame /\ AFrame("qtFree", a) \in Frame
    BY AFrameType DEF AOps
  <2>5. fs \in Seq(Frame)
    BY <2>4, Seqs
  <2>. HIDE DEF fs
  <2>6. stack' \in [Thread -> Seq(Frame)]
    BY <1>1, <2>1, <2>5, CallsType DEF TypeOK
  <2>. QED  BY <2>1, <2>3, <2>6 DEF TypeOK
<1>. QED  BY <1>2, <1>3

LEMMA QtFreeType ==
    ASSUME TypeOK, NEW t \in Thread, QtFree(t)
    PROVE  TypeOK'
<1>1. PICK a \in Addr : a = Top(t).a /\ stack[t] # <<>>
  BY TopArguments DEF QtFree, AtTop, Running, AOps
<1>2. /\ pd' = [w \in Wrap |-> IF pd[w].obj = a /\ pd[w].is_qobject
                               THEN [pd[w] EXCEPT !.obj = None] ELSE pd[w]]
      /\ UNCHANGED <<wr, map, qwm, fault>>
  BY <1>1 DEF QtFree
<1>3. pd' \in [Wrap -> PdRecord]
  <2>1. pd \in [Wrap -> PdRecord]
    BY DEF TypeOK
  <2>2. \A w \in Wrap : [pd[w] EXCEPT !.obj = None] \in PdRecord
    BY <2>1 DEF PdRecord
  <2>. QED  BY <1>2, <2>1, <2>2
<1>4. CASE \E c \in Children(a) :
             Enter(t, <<AFrame("qtDestroy", c)>>) /\ UNCHANGED qt
  <2>1. PICK c \in Addr : Enter(t, <<AFrame("qtDestroy", c)>>) /\ UNCHANGED qt
    BY <1>4 DEF Children
  <2>2. AFrame("qtDestroy", c) \in Frame
    BY AFrameType DEF AOps
  <2>3. stack' \in [Thread -> Seq(Frame)]
    BY <2>1, <2>2, Singleton, EnterType DEF TypeOK
  <2>. QED  BY <1>2, <1>3, <2>1, <2>3 DEF TypeOK
<1>5. CASE qt' = [qt EXCEPT ![a] = NoQt] /\ Return(t)
  <2>1. NoQt \in QtRecord
    BY DEF NoQt, QtRecord, KindSet
  <2>2. qt' \in [Addr -> QtRecord]
    BY <1>5, <2>1 DEF TypeOK
  <2>3. stack' \in [Thread -> Seq(Frame)]
    BY <1>1, <1>5, ReturnType
  <2>. QED  BY <1>2, <1>3, <2>2, <2>3 DEF TypeOK
<1>. QED  BY <1>1, <1>4, <1>5 DEF QtFree

LEMMA DeletedType ==
    ASSUME TypeOK, NEW t \in Thread, Deleted(t)
    PROVE  TypeOK'
<1>1. PICK a \in Addr : a = Top(t).a /\ stack[t] # <<>>
  BY TopArguments DEF Deleted, AtTop, Running, AOps
<1>2. PICK w \in Wrap \cup {None} : w = map[a]
  BY DEF TypeOK
<1>3. /\ Calls(t, IF w = None THEN <<>> ELSE <<WFrame("hold", w)>>)
      /\ UNCHANGED <<qt, wr, pd, map, qwm, fault>>
  BY <1>1, <1>2 DEF Deleted
<1>4. <<>> \in Seq(Frame) /\ (w # None => <<WFrame("hold", w)>> \in Seq(Frame))
  BY <1>2, WFrameType, Singleton DEF WOps
<1>5. stack' \in [Thread -> Seq(Frame)]
  <2>1. stack \in [Thread -> Seq(Frame)]
    BY DEF TypeOK
  <2>2. CASE w = None
    BY <1>1, <1>3, <1>4, <2>1, <2>2, CallsType
  <2>3. CASE w # None
    BY <1>1, <1>3, <1>4, <2>1, <2>3, CallsType
  <2>. QED  BY <2>2, <2>3
<1>. QED  BY <1>3, <1>5, StackOnlyType

LEMMA HoldType ==
    ASSUME TypeOK, NEW t \in Thread, Hold(t)
    PROVE  TypeOK'
<1>1. PICK w \in Wrap : w = Top(t).w /\ stack[t] # <<>>
  BY TopArguments DEF Hold, AtTop, Running, WOps
<1>2. CASE wr[w].status = "free"
  BY <1>1, <1>2, AbortType DEF Hold, Faults
<1>3. CASE wr[w].status # "free" /\ pd[w].attached
  <2>1. /\ pd' = [pd EXCEPT ![w].refs = pd[w].refs + 1]
        /\ Calls(t, <<WFrame("externalDelete", w), WFrame("pdDeref", w)>>)
        /\ UNCHANGED <<qt, wr, map, qwm, fault>>
    BY <1>1, <1>3 DEF Hold
  <2>2. pd[w].refs \in Int /\ pd \in [Wrap -> PdRecord]
    BY PdFields DEF TypeOK
  <2>3. pd' \in [Wrap -> PdRecord]
    BY <2>1, <2>2 DEF PdRecord
  <2>4. WFrame("externalDelete", w) \in Frame /\ WFrame("pdDeref", w) \in Frame
    BY WFrameType DEF WOps
  <2>5. stack' \in [Thread -> Seq(Frame)]
    BY <1>1, <2>1, <2>4, Seqs, CallsType DEF TypeOK
  <2>. QED  BY <2>1, <2>3, <2>5 DEF TypeOK
<1>4. CASE wr[w].status # "free" /\ ~pd[w].attached
  <2>1. Return(t) /\ UNCHANGED <<qt, wr, pd, map, qwm, fault>>
    BY <1>1, <1>4 DEF Hold
  <2>. QED  BY <1>1, <2>1, ReturnType, StackOnlyType
<1>. QED  BY <1>2, <1>3, <1>4

LEMMA ExternalDeleteType ==
    ASSUME TypeOK, NEW t \in Thread, ExternalDelete(t)
    PROVE  TypeOK'
<1>1. PICK w \in Wrap : w = Top(t).w /\ stack[t] # <<>>
  BY TopArguments DEF ExternalDelete, AtTop, Running, WOps
<1>2. CASE ClearFault(w) # None
  BY <1>1, <1>2, AbortType, ClearFaultType DEF ExternalDelete
<1>3. CASE ClearFault(w) = None
  <2>1. PICK op \in {"externalDel", "objRefDrop"} :
          /\ ClearWindow(w) /\ Calls(t, <<WFrame(op, w)>>)
          /\ UNCHANGED <<qt, wr, pd, map, fault>>
    BY <1>1, <1>3 DEF ExternalDelete
  <2>2. WFrame(op, w) \in Frame
    BY WFrameType DEF WOps
  <2>3. stack' \in [Thread -> Seq(Frame)]
    BY <1>1, <2>1, <2>2, Singleton, CallsType DEF TypeOK
  <2>. QED  BY <2>1, <2>3, ClearType DEF TypeOK
<1>. QED  BY <1>2, <1>3

LEMMA ExternalDeleteEndType ==
    ASSUME TypeOK, NEW t \in Thread, ExternalDeleteEnd(t)
    PROVE  TypeOK'
<1>1. PICK w \in Wrap : w = Top(t).w /\ stack[t] # <<>>
  BY TopArguments DEF ExternalDeleteEnd, AtTop, Running, WOps
<1>2. CASE wr[w].status = "free"
  BY <1>1, <1>2, AbortType DEF ExternalDeleteEnd, Faults
<1>3. WFrame("objRefDrop", w) \in Frame
  BY WFrameType DEF WOps
<1>4. CASE wr[w].status = "ok"
  <2>1. /\ Reset(w) /\ UNCHANGED <<qt, map, qwm, fault>>
        /\ wr' = [wr EXCEPT ![w] = Wr("deleting", wr[w].refs + 1, wr[w].held)]
        /\ Calls(t, Append(DestructorFrames(w), WFrame("objRefDrop", w)))
    BY <1>1, <1>4 DEF ExternalDeleteEnd
  <2>2. wr \in [Wrap -> WrRecord] /\ wr[w].refs \in Int /\ wr[w].held \in Int
    BY WrFields DEF TypeOK
  <2>3. wr' \in [Wrap -> WrRecord]
    BY <2>1, <2>2 DEF WrRecord, Wr
  <2>4. Append(DestructorFrames(w), WFrame("objRefDrop", w)) \in Seq(Frame)
    BY <1>3, DestructorFramesType
  <2>5. stack' \in [Thread -> Seq(Frame)]
    BY <1>1, <2>1, <2>4, CallsType DEF TypeOK
  <2>. QED  BY <2>1, <2>3, <2>5, ClearType DEF TypeOK
<1>5. CASE wr[w].status \notin {"free", "ok"}
  <2>1. /\ Reset(w) /\ UNCHANGED <<qt, wr, map, qwm, fault>>
        /\ Calls(t, <<WFrame("objRefDrop", w)>>)
    BY <1>1, <1>5 DEF ExternalDeleteEnd
  <2>2. stack' \in [Thread -> Seq(Frame)]
    BY <1>1, <1>3, <2>1, Singleton, CallsType DEF TypeOK
  <2>. QED  BY <2>1, <2>2, ClearType DEF TypeOK
<1>. QED  BY <1>2, <1>4, <1>5

\* Qt acts on its own

LEMMA QtCreateType ==
    ASSUME TypeOK, NEW t \in Thread, NEW a \in Addr, NEW kind \in Kinds,
           NEW p \in Addr \cup {None}, QtCreate(t, a, kind, p)
    PROVE  TypeOK'
<1>1. /\ qt' = [qt EXCEPT ![a] = NewQt(kind, FALSE, TRUE, p)]
      /\ UNCHANGED <<wr, pd, map, qwm, stack, fault>>
  BY DEF QtCreate
<1>2. qt \in [Addr -> QtRecord] /\ kind \in KindSet
  BY KindsAssumption DEF TypeOK
<1>3. qt' \in [Addr -> QtRecord]
  BY <1>1, <1>2, QtPutType
<1>. QED  BY <1>1, <1>3 DEF TypeOK

LEMMA QtReparentType ==
    ASSUME TypeOK, NEW t \in Thread, NEW a \in Addr,
           NEW p \in Addr \cup {None}, QtReparent(t, a, p)
    PROVE  TypeOK'
<1>1. /\ qt' = [qt EXCEPT ![a].parent = p]
      /\ UNCHANGED <<wr, pd, map, qwm, stack, fault>>
  BY DEF QtReparent
<1>2. qt \in [Addr -> QtRecord]
  BY DEF TypeOK
<1>3. qt' \in [Addr -> QtRecord]
  BY <1>1, <1>2 DEF QtRecord
<1>. QED  BY <1>1, <1>3 DEF TypeOK

LEMMA QtDeleteType ==
    ASSUME TypeOK, NEW t \in Thread, NEW a \in Addr, QtDelete(t, a)
    PROVE  TypeOK'
<1>1. /\ Enter(t, <<AFrame("qtDestroy", a)>>)
      /\ UNCHANGED <<qt, wr, pd, map, qwm, fault>>
  BY DEF QtDelete
<1>2. AFrame("qtDestroy", a) \in Frame
  BY AFrameType DEF AOps
<1>3. stack' \in [Thread -> Seq(Frame)]
  BY <1>1, <1>2, Singleton, EnterType DEF TypeOK
<1>. QED  BY <1>1, <1>3, StackOnlyType

\* what a program does

LEMMA CommonConstructorType ==
    ASSUME TypeOK, NEW t \in Thread, NEW a \in Addr, NEW w \in Wrap,
           NEW kind \in Kinds, NEW p \in Addr \cup {None},
           CommonConstructor(t, a, w, kind, p)
    PROVE  TypeOK'
<1>1. kind \in KindSet /\ qt \in [Addr -> QtRecord]
  BY KindsAssumption DEF TypeOK
<1>2. CASE PrivateFault(a, kind, p) # None
  BY <1>2, PrivateFaultType, AbortType DEF CommonConstructor
<1>3. CASE PrivateFault(a, kind, p) = None
  <2>1. /\ NewPrivate(w, a, kind, p, FALSE)
        /\ qt' = [qt EXCEPT ![a] = NewQt(kind, TRUE, FALSE, p)]
        /\ Enter(t, <<WFrame("ctorBody", w)>>)
        /\ UNCHANGED fault
    BY <1>3 DEF CommonConstructor
  <2>2. qt' \in [Addr -> QtRecord]
    BY <1>1, <2>1, QtPutType
  <2>3. WFrame("ctorBody", w) \in Frame
    BY WFrameType DEF WOps
  <2>4. stack' \in [Thread -> Seq(Frame)]
    BY <2>1, <2>3, Singleton, EnterType DEF TypeOK
  <2>. QED  BY <1>1, <2>1, <2>2, <2>4, NewPrivateType DEF TypeOK
<1>. QED  BY <1>2, <1>3

LEMMA ConstructorThrowsType ==
    ASSUME TypeOK, NEW t \in Thread, ConstructorThrows(t)
    PROVE  TypeOK'
<1>1. PICK w \in Wrap : w = Top(t).w /\ stack[t] # <<>>
  BY TopArguments DEF ConstructorThrows, AtTop, Running, WOps
<1>2. /\ wr \in [Wrap -> WrRecord] /\ wr[w].refs \in Int /\ wr[w].held \in Int
      /\ pd \in [Wrap -> PdRecord]
  BY WrFields DEF TypeOK
<1>3. WFrame("pdDeref", w) \in Frame /\ WFrame("deref", w) \in Frame
  BY WFrameType DEF WOps
<1>4. CASE wr[w].refs = 1 /\ wr[w].status = "ok"
  <2>. DEFINE fs == IF pd[w].attached
                    THEN <<WFrame("pdDeref", w), WFrame("deref", w)>>
                    ELSE <<WFrame("deref", w)>>
  <2>1. /\ wr' = [wr EXCEPT ![w] = Wr("deleted", wr[w].refs, 0)]
        /\ pd' = [pd EXCEPT ![w].attached = FALSE]
        /\ Calls(t, fs) /\ UNCHANGED <<qt, map, qwm, fault>>
    BY <1>1, <1>4 DEF ConstructorThrows
  <2>2. fs \in Seq(Frame)
    BY <1>3, Seqs
  <2>. HIDE DEF fs
  <2>3. wr' \in [Wrap -> WrRecord]
    BY <1>2, <2>1 DEF WrRecord, Wr
  <2>4. pd' \in [Wrap -> PdRecord]
    BY <1>2, <2>1 DEF PdRecord
  <2>5. stack' \in [Thread -> Seq(Frame)]
    BY <1>1, <2>1, <2>2, CallsType DEF TypeOK
  <2>. QED  BY <2>1, <2>3, <2>4, <2>5 DEF TypeOK
<1>5. CASE ~(wr[w].refs = 1 /\ wr[w].status = "ok")
  <2>1. /\ wr' = [wr EXCEPT ![w].held = wr[w].held - 1]
        /\ Calls(t, <<WFrame("deref", w)>>)
        /\ UNCHANGED <<qt, pd, map, qwm, fault>>
    BY <1>1, <1>5 DEF ConstructorThrows
  <2>2. wr' \in [Wrap -> WrRecord]
    BY <1>2, <2>1 DEF WrRecord
  <2>3. stack' \in [Thread -> Seq(Frame)]
    BY <1>1, <1>3, <2>1, Singleton, CallsType DEF TypeOK
  <2>. QED  BY <2>1, <2>2, <2>3 DEF TypeOK
<1>. QED  BY <1>4, <1>5

LEMMA ReleaseType ==
    ASSUME TypeOK, NEW t \in Thread, NEW w \in Wrap, Release(t, w)
    PROVE  TypeOK'
<1>1. /\ wr' = [wr EXCEPT ![w].held = wr[w].held - 1]
      /\ Enter(t, <<WFrame("deref", w)>>)
      /\ UNCHANGED <<qt, pd, map, qwm, fault>>
  BY DEF Release
<1>2. wr \in [Wrap -> WrRecord] /\ wr[w].held \in Int
  BY WrFields DEF TypeOK
<1>3. wr' \in [Wrap -> WrRecord]
  BY <1>1, <1>2 DEF WrRecord
<1>4. WFrame("deref", w) \in Frame
  BY WFrameType DEF WOps
<1>5. stack' \in [Thread -> Seq(Frame)]
  BY <1>1, <1>4, Singleton, EnterType DEF TypeOK
<1>. QED  BY <1>1, <1>3, <1>5 DEF TypeOK

LEMMA DeleteType ==
    ASSUME TypeOK, NEW t \in Thread, NEW w \in Wrap, Delete(t, w)
    PROVE  TypeOK'
<1>1. /\ wr' = [wr EXCEPT ![w] = Wr("deleting", wr[w].refs + 1, wr[w].held)]
      /\ Enter(t, DestructorFrames(w))
      /\ UNCHANGED <<qt, pd, map, qwm, fault>>
  BY DEF Delete
<1>2. wr \in [Wrap -> WrRecord] /\ wr[w].refs \in Int /\ wr[w].held \in Int
  BY WrFields DEF TypeOK
<1>3. wr' \in [Wrap -> WrRecord]
  BY <1>1, <1>2 DEF WrRecord, Wr
<1>4. stack' \in [Thread -> Seq(Frame)]
  BY <1>1, DestructorFramesType, EnterType DEF TypeOK
<1>. QED  BY <1>1, <1>3, <1>4 DEF TypeOK

LEMMA SetExternallyOwnedType ==
    ASSUME TypeOK, NEW t \in Thread, NEW w \in Wrap, SetExternallyOwned(t, w)
    PROVE  TypeOK'
<1>1. PICK a \in Addr : a = pd[w].obj
  BY PdFields DEF SetExternallyOwned
<1>2. /\ pd' = [pd EXCEPT ![w].eo = TRUE]
      /\ qt' = [qt EXCEPT ![a].taken = TRUE]
      /\ UNCHANGED <<wr, map, qwm, stack, fault>>
  BY <1>1 DEF SetExternallyOwned
<1>3. pd \in [Wrap -> PdRecord] /\ qt \in [Addr -> QtRecord]
  BY DEF TypeOK
<1>4. pd' \in [Wrap -> PdRecord]
  BY <1>2, <1>3 DEF PdRecord
<1>5. qt' \in [Addr -> QtRecord]
  BY <1>2, <1>3 DEF QtRecord
<1>. QED  BY <1>2, <1>4, <1>5 DEF TypeOK

LEMMA ReturnToQtType ==
    ASSUME TypeOK, NEW t \in Thread, NEW w \in Wrap, ReturnToQt(t, w)
    PROVE  TypeOK'
<1>1. /\ wr' = [wr EXCEPT ![w].held = wr[w].held - 1]
      /\ pd' = [pd EXCEPT ![w].refs = pd[w].refs + 1]
      /\ Enter(t, <<WFrame("returnDel", w), WFrame("pdDeref", w), WFrame("deref", w)>>)
      /\ UNCHANGED <<qt, map, qwm, fault>>
  BY DEF ReturnToQt
<1>2. /\ wr \in [Wrap -> WrRecord] /\ wr[w].held \in Int
      /\ pd \in [Wrap -> PdRecord] /\ pd[w].refs \in Int
  BY WrFields, PdFields DEF TypeOK
<1>3. wr' \in [Wrap -> WrRecord] /\ pd' \in [Wrap -> PdRecord]
  <2>1. wr' \in [Wrap -> WrRecord]
    BY <1>1, <1>2 DEF WrRecord
  <2>2. pd' \in [Wrap -> PdRecord]
    BY <1>1, <1>2 DEF PdRecord
  <2>. QED  BY <2>1, <2>2
<1>4. /\ WFrame("returnDel", w) \in Frame /\ WFrame("pdDeref", w) \in Frame
      /\ WFrame("deref", w) \in Frame
  BY WFrameType DEF WOps
<1>5. stack' \in [Thread -> Seq(Frame)]
  BY <1>1, <1>4, Seqs, EnterType DEF TypeOK
<1>. QED  BY <1>1, <1>3, <1>5 DEF TypeOK

LEMMA ReturnToQtEndType ==
    ASSUME TypeOK, NEW t \in Thread, ReturnToQtEnd(t)
    PROVE  TypeOK'
<1>1. PICK w \in Wrap : w = Top(t).w /\ stack[t] # <<>>
  BY TopArguments DEF ReturnToQtEnd, AtTop, Running, WOps
<1>2. /\ Reset(w) /\ Return(t) /\ UNCHANGED <<wr, map, qwm, fault>>
      /\ qt' = IF pd[w].obj = None THEN qt ELSE [qt EXCEPT ![pd[w].obj].taken = TRUE]
  BY <1>1 DEF ReturnToQtEnd
<1>3. qt' \in [Addr -> QtRecord]
  <2>1. qt \in [Addr -> QtRecord] /\ pd[w].obj \in Addr \cup {None}
    BY PdFields DEF TypeOK
  <2>2. CASE pd[w].obj = None
    BY <1>2, <2>1, <2>2
  <2>3. CASE pd[w].obj # None
    <3>1. qt[pd[w].obj] \in QtRecord
      BY <2>1, <2>3
    <3>2. [qt[pd[w].obj] EXCEPT !.taken = TRUE] \in QtRecord
      BY <3>1 DEF QtRecord
    <3>. QED  BY <1>2, <2>1, <2>3, <3>2
  <2>. QED  BY <2>2, <2>3
<1>4. stack' \in [Thread -> Seq(Frame)]
  BY <1>1, <1>2, ReturnType
<1>. QED  BY <1>2, <1>3, <1>4, ClearType DEF TypeOK

LEMMA SetParentType ==
    ASSUME TypeOK, NEW t \in Thread, NEW w \in Wrap,
           NEW p \in Addr \cup {None}, SetParent(t, w, p)
    PROVE  TypeOK'
<1>1. PICK a \in Addr : a = pd[w].obj
  BY PdFields DEF SetParent
<1>2. CASE p = None /\ qwm.done
  BY <1>1, <1>2, AbortType DEF SetParent, Faults
<1>3. CASE ~(p = None /\ qwm.done)
  <2>1. /\ qt' = [qt EXCEPT ![a].parent = p]
        /\ qwm' = IF p = None THEN QwmAdd(a) ELSE QwmRemove(a)
        /\ UNCHANGED <<wr, pd, map, stack, fault>>
    BY <1>1, <1>3 DEF SetParent
  <2>2. /\ qt \in [Addr -> QtRecord]
        /\ qwm \in [set : SUBSET Addr, done : BOOLEAN]
    BY DEF TypeOK
  <2>3. qt' \in [Addr -> QtRecord]
    BY <2>1, <2>2 DEF QtRecord
  <2>4. qwm' \in [set : SUBSET Addr, done : BOOLEAN]
    BY <2>1, <2>2 DEF QwmAdd, QwmRemove
  <2>. QED  BY <2>1, <2>3, <2>4 DEF TypeOK
<1>. QED  BY <1>2, <1>3

LEMMA CommonMethodType ==
    ASSUME TypeOK, NEW t \in Thread, NEW w \in Wrap, CommonMethod(t, w)
    PROVE  TypeOK'
<1>1. /\ pd' = [pd EXCEPT ![w].refs = pd[w].refs + 1]
      /\ Enter(t, <<WFrame("methodCall", w), WFrame("pdDeref", w)>>)
      /\ UNCHANGED <<qt, wr, map, qwm, fault>>
  BY DEF CommonMethod
<1>2. pd \in [Wrap -> PdRecord] /\ pd[w].refs \in Int
  BY PdFields DEF TypeOK
<1>3. pd' \in [Wrap -> PdRecord]
  BY <1>1, <1>2 DEF PdRecord
<1>4. WFrame("methodCall", w) \in Frame /\ WFrame("pdDeref", w) \in Frame
  BY WFrameType DEF WOps
<1>5. stack' \in [Thread -> Seq(Frame)]
  BY <1>1, <1>4, Seqs, EnterType DEF TypeOK
<1>. QED  BY <1>1, <1>3, <1>5 DEF TypeOK

LEMMA MethodCallType ==
    ASSUME TypeOK, NEW t \in Thread, MethodCall(t)
    PROVE  TypeOK'
<1>1. stack[t] # <<>>
  BY DEF MethodCall, AtTop, Running
<1>2. \/ Abort("null_this") \/ Abort("dangling_this")
      \/ Return(t) /\ UNCHANGED <<qt, wr, pd, map, qwm, fault>>
  BY DEF MethodCall
<1>. QED  BY <1>1, <1>2, AbortType, ReturnType, StackOnlyType DEF Faults

\* stackToQore

LEMMA LookupType ==
    ASSUME TypeOK, NEW a \in Addr,
           NEW miss \in {"mapMiss", "mapMissOwned", "mapMissCopy"}
    PROVE  <<Lookup(a, miss)>> \in Seq(Frame)
<1>1. map[a] \in Wrap \cup {None}
  BY DEF TypeOK
<1>2. Lookup(a, miss) \in Frame
  BY <1>1, WFrameType, AFrameType DEF Lookup, AOps, WOps
<1>. QED  BY <1>2, Singleton

LEMMA ReturnObjectType ==
    ASSUME TypeOK, NEW t \in Thread, NEW a \in Addr, NEW const \in BOOLEAN,
           ReturnObject(t, a, const)
    PROVE  TypeOK'
<1>1. PICK miss \in {"mapMiss", "mapMissOwned", "mapMissCopy"} :
        /\ Enter(t, <<Lookup(a, miss)>>)
        /\ UNCHANGED <<qt, wr, pd, map, qwm, fault>>
  BY DEF ReturnObject
<1>2. stack' \in [Thread -> Seq(Frame)]
  BY <1>1, LookupType, EnterType DEF TypeOK
<1>. QED  BY <1>1, <1>2, StackOnlyType

LEMMA ReturnByValueType ==
    ASSUME TypeOK, NEW t \in Thread, NEW a \in Addr, ReturnByValue(t, a)
    PROVE  TypeOK'
<1>1. /\ qt' = [qt EXCEPT ![a] = NewQt("plain", FALSE, FALSE, None)]
      /\ Enter(t, <<Lookup(a, "mapMissOwned")>>)
      /\ UNCHANGED <<wr, pd, map, qwm, fault>>
  BY DEF ReturnByValue
<1>2. qt \in [Addr -> QtRecord] /\ "plain" \in KindSet
  BY DEF TypeOK, KindSet
<1>3. qt' \in [Addr -> QtRecord]
  BY <1>1, <1>2, QtPutType
<1>4. stack' \in [Thread -> Seq(Frame)]
  BY <1>1, LookupType, EnterType DEF TypeOK
<1>. QED  BY <1>1, <1>3, <1>4 DEF TypeOK

LEMMA MapHitType ==
    ASSUME TypeOK, NEW t \in Thread, MapHit(t)
    PROVE  TypeOK'
<1>1. PICK w \in Wrap : w = Top(t).w /\ stack[t] # <<>>
  BY TopArguments DEF MapHit, AtTop, Running, WOps
<1>2. CASE wr[w].status = "free"
  BY <1>1, <1>2, AbortType DEF MapHit, Faults
<1>3. CASE wr[w].status # "free"
  <2>1. /\ wr' = [wr EXCEPT ![w] = Wr(wr[w].status, wr[w].refs + 1,
                                      wr[w].held + 1)]
        /\ Return(t) /\ UNCHANGED <<qt, pd, map, qwm, fault>>
    BY <1>1, <1>3 DEF MapHit
  <2>2. /\ wr \in [Wrap -> WrRecord] /\ wr[w].refs \in Int /\ wr[w].held \in Int
        /\ wr[w].status \in {"free", "ok", "deleting", "deleted"}
    BY WrFields DEF TypeOK
  <2>3. wr' \in [Wrap -> WrRecord]
    BY <2>1, <2>2 DEF WrRecord, Wr
  <2>4. stack' \in [Thread -> Seq(Frame)]
    BY <1>1, <2>1, ReturnType
  <2>. QED  BY <2>1, <2>3, <2>4 DEF TypeOK
<1>. QED  BY <1>2, <1>3

LEMMA MapMissType ==
    ASSUME TypeOK, NEW t \in Thread, NEW w \in Wrap, MapMiss(t, w)
    PROVE  TypeOK'
<1>1. PICK a \in Addr : a = Top(t).a /\ stack[t] # <<>>
  BY TopArguments DEF MapMiss, AtTop, Running, AOps
<1>2. qt[a].kind \in KindSet /\ qt[a].parent \in Addr \cup {None}
  BY DEF TypeOK, QtRecord
<1>3. CASE qt[a].state = "free"
  BY <1>1, <1>3, AbortType DEF MapMiss, Faults
<1>4. CASE /\ qt[a].state # "free"
           /\ PrivateFault(a, qt[a].kind, qt[a].parent) # None
  BY <1>1, <1>4, AbortType, PrivateFaultType DEF MapMiss
<1>5. CASE /\ qt[a].state # "free"
           /\ PrivateFault(a, qt[a].kind, qt[a].parent) = None
  <2>1. PICK eo \in BOOLEAN :
          /\ NewPrivate(w, a, qt[a].kind, qt[a].parent, eo)
          /\ Return(t) /\ UNCHANGED <<qt, fault>>
    BY <1>1, <1>5 DEF MapMiss
  <2>2. stack' \in [Thread -> Seq(Frame)]
    BY <1>1, <2>1, ReturnType
  <2>. QED  BY <1>2, <2>1, <2>2, NewPrivateType DEF TypeOK
<1>. QED  BY <1>3, <1>4, <1>5

LEMMA MapMissCopyType ==
    ASSUME TypeOK, NEW t \in Thread, NEW w \in Wrap, NEW b \in Addr,
           MapMissCopy(t, w, b)
    PROVE  TypeOK'
<1>1. stack[t] # <<>>
  BY DEF MapMissCopy, AtTop, Running
<1>2. CASE Abort("dangling_qt") \/ Abort("map_add")
  BY <1>2, AbortType DEF Faults
<1>3. CASE ~Abort("dangling_qt") /\ ~Abort("map_add")
  <2>1. /\ NewPrivate(w, b, "plain", None, FALSE)
        /\ qt' = [qt EXCEPT ![b] = NewQt("plain", TRUE, FALSE, None)]
        /\ Return(t) /\ UNCHANGED fault
    BY <1>3 DEF MapMissCopy
  <2>2. qt \in [Addr -> QtRecord] /\ "plain" \in KindSet
    BY DEF TypeOK, KindSet
  <2>3. qt' \in [Addr -> QtRecord]
    BY <2>1, <2>2, QtPutType
  <2>4. stack' \in [Thread -> Seq(Frame)]
    BY <1>1, <2>1, ReturnType
  <2>. QED  BY <2>1, <2>2, <2>3, <2>4, NewPrivateType DEF TypeOK
<1>. QED  BY <1>2, <1>3

LEMMA OutOfMemoryType ==
    ASSUME TypeOK, NEW t \in Thread, OutOfMemory(t)
    PROVE  TypeOK'
<1>1. stack[t] # <<>> /\ Return(t) /\ UNCHANGED <<qt, wr, pd, map, qwm, fault>>
  BY DEF OutOfMemory, AtTop, Running
<1>. QED  BY <1>1, ReturnType, StackOnlyType

-----------------------------------------------------------------------------
LEMMA InitType == Init => TypeOK
<1>. SUFFICES ASSUME Init PROVE TypeOK
  OBVIOUS
<1>1. NoQt \in QtRecord /\ NoWr \in WrRecord /\ NoPd \in PdRecord
  BY NoPdType DEF NoQt, NoWr, Wr, QtRecord, WrRecord, KindSet
<1>2. qt \in [Addr -> QtRecord] /\ wr \in [Wrap -> WrRecord]
      /\ pd \in [Wrap -> PdRecord]
  BY <1>1 DEF Init
<1>3. /\ map \in [Addr -> Wrap \cup {None}]
      /\ qwm \in [set : SUBSET Addr, done : BOOLEAN]
      /\ fault \in Faults \cup {None}
  BY DEF Init
<1>4. stack \in [Thread -> Seq(Frame)]
  BY Seqs DEF Init
<1>. QED  BY <1>2, <1>3, <1>4 DEF TypeOK

LEMMA UnwindType ==
    ASSUME TypeOK, NEW t \in Thread, Unwind(t)
    PROVE  TypeOK'
BY UserDtorEndType, ConstructorThrowsType, DerefType, EndDeleteType,
   PdDerefType, ObjRefDropType, CommonDestructorType, DeleteAllType,
   DtorRestType, DtorRestEndType, MapDelType, QtDestroyType, QtFreeType,
   DeletedType, HoldType, ExternalDeleteType, ExternalDeleteEndType,
   ReturnToQtEndType, MethodCallType, MapHitType, OutOfMemoryType, MapMissType, MapMissCopyType
   DEF Unwind

LEMMA QtActsType ==
    ASSUME TypeOK, QtActs(GuiThread)
    PROVE  TypeOK'
BY ThreadAssumption, QtDeleteType, QtReparentType, QtCreateType DEF QtActs

LEMMA ProgramActsType ==
    ASSUME TypeOK, NEW t \in Thread, ProgramActs(t)
    PROVE  TypeOK'
BY ReleaseType, DeleteType, SetExternallyOwnedType, CommonMethodType,
   ReturnToQtType, SetParentType, CommonConstructorType, ReturnByValueType,
   ReturnObjectType DEF ProgramActs

LEMMA StepType == TypeOK /\ [Next]_vars => TypeOK'
<1>. SUFFICES ASSUME TypeOK, [Next]_vars PROVE TypeOK'
  OBVIOUS
<1>1. CASE Next
  BY <1>1, UnwindType, QtActsType, ProgramActsType DEF Next
<1>2. CASE UNCHANGED vars
  BY <1>2 DEF TypeOK, vars
<1>. QED  BY <1>1, <1>2

\* In every reachable state every variable has its type: no call of the
\* lifecycle code leaves a reference to nothing in its own data.
THEOREM TypeCorrect == Spec => []TypeOK
BY InitType, StepType, PTL DEF Spec

-----------------------------------------------------------------------------
(* The phases of clear() are on top of the stack *)

PhaseOps == DelOps \cup EndOps
SteadyFrame == {f \in Frame : f.op \notin PhaseOps}

\* A call that has begun to clear private data makes no other call before it
\* has ended.
PhasesOnTop ==
    \A t \in Thread : stack[t] # <<>> => Tail(stack[t]) \in Seq(SteadyFrame)

InDel(t) == stack[t] # <<>> /\ Top(t).op \in DelOps
InEnd(t) == stack[t] # <<>> /\ Top(t).op \in EndOps

LEMMA SteadyFrames ==
    /\ \A op \in WOps \ PhaseOps, w \in Wrap : WFrame(op, w) \in SteadyFrame
    /\ \A op \in AOps, a \in Addr : AFrame(op, a) \in SteadyFrame
    /\ \A a \in Addr, w \in Wrap : RestFrame("dtorRest", a, w) \in SteadyFrame
    /\ \A s \in SUBSET Addr : LoopFrame(s) \in SteadyFrame
<1>1. \A op \in WOps \ PhaseOps, w \in Wrap : WFrame(op, w) \in SteadyFrame
  BY WFrameType DEF WFrame, SteadyFrame
<1>2. \A op \in AOps, a \in Addr : AFrame(op, a) \in SteadyFrame
  BY AFrameType DEF AFrame, SteadyFrame, AOps, PhaseOps, DelOps, EndOps, RestDelOps, RestEndOps
<1>3. \A a \in Addr, w \in Wrap : RestFrame("dtorRest", a, w) \in SteadyFrame
  BY RestFrameType DEF RestFrame, RestOps, SteadyFrame, PhaseOps, DelOps, EndOps,
                       RestDelOps, RestEndOps
<1>4. \A s \in SUBSET Addr : LoopFrame(s) \in SteadyFrame
  BY LoopFrameType DEF LoopFrame, SteadyFrame, PhaseOps, DelOps, EndOps, RestDelOps, RestEndOps
<1>. QED  BY <1>1, <1>2, <1>3, <1>4

\* the frames of wrappers that steps put on a stack outside the phases
LEMMA SteadyCalls ==
    ASSUME NEW w \in Wrap,
           NEW op \in {"ctorBody", "userDtor", "commonDtor", "pdDeref", "endDelete", "deref",
                       "objRefDrop", "hold", "externalDelete", "mapHit", "methodCall"}
    PROVE  WFrame(op, w) \in SteadyFrame
<1>1. op \in WOps \ PhaseOps
  BY DEF WOps, PhaseOps, DelOps, EndOps, RestDelOps, RestEndOps
<1>. QED  BY <1>1, SteadyFrames

\* a step that leaves thread t outside the phases
Settles(t) ==
    /\ stack'[t] \in Seq(SteadyFrame)
    /\ \A s \in Thread \ {t} : stack'[s] = stack[s]

LEMMA CallsSettles ==
    ASSUME TypeOK, PhasesOnTop, NEW t \in Thread, stack[t] # <<>>,
           NEW fs \in Seq(SteadyFrame), Calls(t, fs)
    PROVE  Settles(t)
<1>1. Tail(stack[t]) \in Seq(SteadyFrame)
  BY DEF PhasesOnTop
<1>2. fs \o Tail(stack[t]) \in Seq(SteadyFrame)
  BY <1>1
<1>3. stack' = [stack EXCEPT ![t] = fs \o Tail(stack[t])] /\ stack \in [Thread -> Seq(Frame)]
  BY DEF Calls, TypeOK
<1>. QED  BY <1>2, <1>3 DEF Settles

LEMMA ReturnSettles ==
    ASSUME TypeOK, PhasesOnTop, NEW t \in Thread, stack[t] # <<>>, Return(t)
    PROVE  Settles(t)
<1>1. <<>> \in Seq(SteadyFrame) /\ Calls(t, <<>>)
  BY DEF Return
<1>. QED  BY <1>1, CallsSettles

\* a stack whose top is outside the phases is outside them throughout
LEMMA SteadyStack ==
    ASSUME TypeOK, PhasesOnTop, NEW t \in Thread, ~InDel(t), ~InEnd(t)
    PROVE  stack[t] \in Seq(SteadyFrame)
<1>1. stack[t] \in Seq(Frame)
  BY DEF TypeOK
<1>2. CASE stack[t] = <<>>
  BY <1>2
<1>3. CASE stack[t] # <<>>
  <2>1. Tail(stack[t]) \in Seq(SteadyFrame) /\ Top(t) \in SteadyFrame
    BY <1>1, <1>3, TopType DEF PhasesOnTop, InDel, InEnd, SteadyFrame, PhaseOps, TypeOK
  <2>2. stack[t] = <<Top(t)>> \o Tail(stack[t])
    BY <1>1, <1>3 DEF Top
  <2>3. <<Top(t)>> \in Seq(SteadyFrame)
    BY <2>1
  <2>. HIDE DEF Top
  <2>. QED  BY <2>1, <2>2, <2>3
<1>. QED  BY <1>2, <1>3

LEMMA EnterSettles ==
    ASSUME TypeOK, PhasesOnTop, NEW t \in Thread, ~InDel(t), ~InEnd(t),
           NEW fs \in Seq(SteadyFrame), Enter(t, fs)
    PROVE  Settles(t)
<1>1. stack[t] \in Seq(SteadyFrame)
  BY SteadyStack
<1>2. fs \o stack[t] \in Seq(SteadyFrame)
  BY <1>1
<1>3. stack' = [stack EXCEPT ![t] = fs \o stack[t]] /\ stack \in [Thread -> Seq(Frame)]
  BY DEF Enter, TypeOK
<1>. QED  BY <1>2, <1>3 DEF Settles

\* a phase of clear() replaces the top of a stack
LEMMA PhaseSettles ==
    ASSUME TypeOK, PhasesOnTop, NEW t \in Thread, stack[t] # <<>>, NEW f \in Frame,
           Calls(t, <<f>>)
    PROVE  PhasesOnTop' /\ stack'[t] # <<>> /\ Top(t)' = f
<1>1. Tail(stack[t]) \in Seq(SteadyFrame) /\ stack \in [Thread -> Seq(Frame)]
  BY DEF PhasesOnTop, TypeOK
<1>2. stack'[t] = <<f>> \o Tail(stack[t]) /\ \A s \in Thread \ {t} : stack'[s] = stack[s]
  BY <1>1 DEF Calls
<1>. DEFINE rest == Tail(stack[t])
<1>3. rest \in Seq(SteadyFrame) /\ stack'[t] = <<f>> \o rest
  BY <1>1, <1>2
<1>. HIDE DEF rest
<1>4. Tail(<<f>> \o rest) = rest /\ Head(<<f>> \o rest) = f /\ <<f>> \o rest # <<>>
  BY <1>3
<1>. QED  BY <1>2, <1>3, <1>4 DEF PhasesOnTop, Top

LEMMA SettlesPhases ==
    ASSUME PhasesOnTop, NEW t \in Thread, Settles(t)
    PROVE  PhasesOnTop' /\ ~InDel(t)' /\ ~InEnd(t)'
<1>1. stack'[t] \in Seq(SteadyFrame)
  BY DEF Settles
<1>2. stack'[t] # <<>> => /\ Tail(stack'[t]) \in Seq(SteadyFrame)
                          /\ Head(stack'[t]) \in SteadyFrame
  BY <1>1
<1>. QED  BY <1>2 DEF Settles, PhasesOnTop, InDel, InEnd, Top, SteadyFrame, PhaseOps

LEMMA UserSteady ==
    ASSUME NEW t \in Thread, UserCode(t)
    PROVE  ~InDel(t) /\ ~InEnd(t)
BY DEF UserCode, Running, UserFrames, InDel, InEnd, DelOps, EndOps, RestDelOps, RestEndOps

LEMMA TopSteady ==
    ASSUME NEW t \in Thread, NEW op, AtTop(t, op)
    PROVE  /\ stack[t] # <<>>
           /\ op \notin DelOps => ~InDel(t)
           /\ op \notin EndOps => ~InEnd(t)
BY DEF AtTop, Running, InDel, InEnd

\* the steps that begin or continue to clear private data
Clears(t) ==
    \/ DtorRest(t) \/ ExternalDelete(t) \/ MapDel(t)
    \/ \E w \in Wrap : ReturnToQt(t, w)

\* Every other step leaves the phases or does nothing.
LEMMA UnwindSettles ==
    ASSUME TypeOK, PhasesOnTop, NEW t \in Thread, Unwind(t), ~Clears(t)
    PROVE  UNCHANGED <<pd, map, stack>> \/ Settles(t)
<1>0. TypeOK /\ stack \in [Thread -> Seq(Frame)]
  BY DEF TypeOK
<1>1. ASSUME stack[t] # <<>>, Return(t) PROVE Settles(t)
  BY <1>1, ReturnSettles
<1>2. ASSUME stack[t] # <<>>, NEW f \in SteadyFrame, Calls(t, <<f>>) PROVE Settles(t)
  <2>1. <<f>> \in Seq(SteadyFrame)
    OBVIOUS
  <2>. QED  BY <1>2, <2>1, CallsSettles
<1>3. ASSUME stack[t] # <<>>, NEW f \in SteadyFrame, NEW g \in SteadyFrame, Calls(t, <<f, g>>)
      PROVE  Settles(t)
  <2>1. <<f, g>> \in Seq(SteadyFrame)
    OBVIOUS
  <2>. QED  BY <1>3, <2>1, CallsSettles
<1>4. ASSUME stack[t] # <<>>, NEW w \in Wrap,
             \/ Calls(t, DestructorFrames(w))
             \/ Calls(t, Append(DestructorFrames(w), WFrame("objRefDrop", w)))
      PROVE  Settles(t)
  <2>1. /\ WFrame("userDtor", w) \in SteadyFrame /\ WFrame("commonDtor", w) \in SteadyFrame
        /\ WFrame("endDelete", w) \in SteadyFrame /\ WFrame("objRefDrop", w) \in SteadyFrame
    BY SteadyCalls
  <2>2. /\ DestructorFrames(w) \in Seq(SteadyFrame)
        /\ Append(DestructorFrames(w), WFrame("objRefDrop", w)) \in Seq(SteadyFrame)
    BY <2>1 DEF DestructorFrames
  <2>. QED  BY <1>4, <2>2, CallsSettles
<1>5. CASE ConstructorReturns(t) \/ UserDtorEnd(t) \/ MethodCall(t) \/ MapHit(t) \/ OutOfMemory(t)
  <2>1. stack[t] # <<>> /\ (UNCHANGED <<pd, map, stack>> \/ Return(t))
    BY <1>5 DEF ConstructorReturns, UserDtorEnd, MethodCall, MapHit, OutOfMemory, Abort, AtTop,
                Running
  <2>. QED  BY <1>1, <2>1
<1>6. CASE ConstructorThrows(t)
  <2>1. PICK w \in Wrap : w = Top(t).w /\ stack[t] # <<>>
    BY <1>6, TopArguments DEF ConstructorThrows, AtTop, Running, WOps
  <2>2. WFrame("pdDeref", w) \in SteadyFrame /\ WFrame("deref", w) \in SteadyFrame
    BY SteadyCalls
  <2>3. Calls(t, <<WFrame("pdDeref", w), WFrame("deref", w)>>) \/ Calls(t, <<WFrame("deref", w)>>)
    BY <1>6, <2>1 DEF ConstructorThrows
  <2>. QED  BY <1>2, <1>3, <2>1, <2>2, <2>3
<1>7. CASE Deref(t)
  <2>1. PICK w \in Wrap : w = Top(t).w /\ stack[t] # <<>>
    BY <1>7, TopArguments DEF Deref, AtTop, Running, WOps
  <2>2. UNCHANGED <<pd, map, stack>> \/ Return(t) \/ Calls(t, DestructorFrames(w))
    BY <1>7, <2>1 DEF Deref, Abort
  <2>. QED  BY <1>1, <1>4, <2>1, <2>2
<1>8. CASE EndDelete(t)
  <2>1. PICK w \in Wrap : w = Top(t).w /\ stack[t] # <<>>
    BY <1>8, TopArguments DEF EndDelete, AtTop, Running, WOps
  <2>2. WFrame("deref", w) \in SteadyFrame /\ Calls(t, <<WFrame("deref", w)>>)
    BY <1>8, <2>1, SteadyCalls DEF EndDelete
  <2>. QED  BY <1>2, <2>1, <2>2
<1>9. CASE PdDeref(t)
  <2>1. PICK w \in Wrap : w = Top(t).w /\ stack[t] # <<>>
    BY <1>9, TopArguments DEF PdDeref, AtTop, Running, WOps
  <2>2. \/ UNCHANGED <<pd, map, stack>> \/ Return(t)
        \/ pd[w].obj # None /\ Calls(t, <<AFrame("qtDestroy", pd[w].obj)>>)
    BY <1>9, <2>1 DEF PdDeref, Abort, Return
  <2>3. pd[w].obj # None => AFrame("qtDestroy", pd[w].obj) \in SteadyFrame
    BY PdFields, SteadyFrames DEF AOps
  <2>. QED  BY <1>1, <1>2, <2>1, <2>2, <2>3
<1>10. CASE ObjRefDrop(t)
  <2>1. PICK w \in Wrap : w = Top(t).w /\ stack[t] # <<>>
    BY <1>10, TopArguments DEF ObjRefDrop, AtTop, Running, WOps
  <2>2. Return(t) \/ Calls(t, <<WFrame("deref", w)>>)
    BY <1>10, <2>1 DEF ObjRefDrop, Return
  <2>. QED  BY <1>1, <1>2, <2>1, <2>2, SteadyCalls
<1>11. CASE CommonDestructor(t)
  <2>1. PICK w \in Wrap : w = Top(t).w /\ stack[t] # <<>>
    BY <1>11, TopArguments DEF CommonDestructor, AtTop, Running, WOps
  <2>. DEFINE a == pd[w].obj
              f == WFrame("pdDeref", w)
              g == RestFrame("dtorRest", a, w)
              k == LoopFrame(qwm.set)
  <2>2. \/ UNCHANGED <<pd, map, stack>> \/ Return(t) \/ Calls(t, <<f>>)
        \/ a # None /\ Calls(t, <<k, g, f>>)
        \/ a # None /\ Calls(t, <<g, f>>)
    BY <1>11, <2>1 DEF CommonDestructor, Abort
  <2>3. f \in SteadyFrame /\ k \in SteadyFrame /\ (a # None => g \in SteadyFrame)
    BY PdFields, SteadyCalls, SteadyFrames DEF TypeOK
  <2>. HIDE DEF a, f, g, k
  <2>4. a # None => <<k, g, f>> \in Seq(SteadyFrame) /\ <<g, f>> \in Seq(SteadyFrame)
    BY <2>3
  <2>. QED  BY <1>1, <1>2, <2>1, <2>2, <2>3, <2>4, CallsSettles
<1>12. CASE DeleteAll(t)
  <2>1. stack[t] # <<>> /\ Top(t).s \in SUBSET Addr
    BY <1>12, TopArguments DEF DeleteAll, AtTop, Running
  <2>2. \/ UNCHANGED <<pd, map, stack>> \/ Return(t)
        \/ \E a \in Top(t).s :
              \/ Calls(t, <<AFrame("qtDestroy", a), LoopFrame(Top(t).s \ {a})>>)
              \/ Calls(t, <<LoopFrame(Top(t).s \ {a})>>)
    BY <1>12, <2>1 DEF DeleteAll, Abort
  <2>3. ASSUME NEW a \in Top(t).s
        PROVE  AFrame("qtDestroy", a) \in SteadyFrame /\ LoopFrame(Top(t).s \ {a}) \in SteadyFrame
    BY <2>1, SteadyFrames DEF AOps
  <2>. QED  BY <1>1, <1>2, <1>3, <2>1, <2>2, <2>3
<1>13. CASE DtorRestEnd(t)
  <2>1. stack[t] # <<>> /\ Top(t).w \in Wrap /\ Top(t).a \in Addr
    BY <1>13, TopArguments DEF DtorRestEnd, Running, RestOps
  <2>. DEFINE f == WFrame("objRefDrop", Top(t).w)
              g == AFrame("qtDestroy", Top(t).a)
  <2>2. Return(t) \/ Calls(t, <<f>>) \/ Calls(t, <<f, g>>)
    BY <1>13, <2>1 DEF DtorRestEnd, Return, RestEndOps
  <2>3. f \in SteadyFrame /\ g \in SteadyFrame
    BY <2>1, SteadyCalls, SteadyFrames DEF AOps
  <2>. QED  BY <1>1, <1>2, <1>3, <2>1, <2>2, <2>3
<1>14. CASE QtDestroy(t)
  <2>1. stack[t] # <<>> /\ Top(t).a \in Addr
    BY <1>14, TopArguments DEF QtDestroy, AtTop, Running, AOps
  <2>. DEFINE f == AFrame("deleted", Top(t).a)
              g == AFrame("qtFree", Top(t).a)
  <2>2. UNCHANGED <<pd, map, stack>> \/ Calls(t, <<g>>) \/ Calls(t, <<f, g>>)
    BY <1>14, <2>1 DEF QtDestroy, Abort
  <2>3. f \in SteadyFrame /\ g \in SteadyFrame
    BY <2>1, SteadyFrames DEF AOps
  <2>. QED  BY <1>2, <1>3, <2>1, <2>2, <2>3
<1>15. CASE QtFree(t)
  <2>1. stack[t] # <<>> /\ Top(t).a \in Addr /\ ~InDel(t) /\ ~InEnd(t)
    BY <1>15, TopArguments DEF QtFree, AtTop, Running, AOps, InDel, InEnd, DelOps, EndOps,
                               RestDelOps, RestEndOps
  <2>2. Return(t) \/ \E c \in Addr : Enter(t, <<AFrame("qtDestroy", c)>>)
    BY <1>15, <2>1 DEF QtFree, Children
  <2>3. ASSUME NEW c \in Addr, Enter(t, <<AFrame("qtDestroy", c)>>) PROVE Settles(t)
    <3>1. <<AFrame("qtDestroy", c)>> \in Seq(SteadyFrame)
      BY SteadyFrames DEF AOps
    <3>. QED  BY <2>1, <2>3, <3>1, EnterSettles
  <2>. QED  BY <1>1, <2>1, <2>2, <2>3
<1>16. CASE Deleted(t)
  <2>1. stack[t] # <<>> /\ Top(t).a \in Addr
    BY <1>16, TopArguments DEF Deleted, AtTop, Running, AOps
  <2>2. PICK w \in Wrap \cup {None} : w = map[Top(t).a]
    BY <2>1 DEF TypeOK
  <2>3. Return(t) \/ (w \in Wrap /\ Calls(t, <<WFrame("hold", w)>>))
    BY <1>16, <2>1, <2>2 DEF Deleted, Return
  <2>. QED  BY <1>1, <1>2, <2>1, <2>3, SteadyCalls
<1>17. CASE Hold(t)
  <2>1. PICK w \in Wrap : w = Top(t).w /\ stack[t] # <<>>
    BY <1>17, TopArguments DEF Hold, AtTop, Running, WOps
  <2>2. \/ UNCHANGED <<pd, map, stack>> \/ Return(t)
        \/ Calls(t, <<WFrame("externalDelete", w), WFrame("pdDeref", w)>>)
    BY <1>17, <2>1 DEF Hold, Abort
  <2>3. WFrame("externalDelete", w) \in SteadyFrame /\ WFrame("pdDeref", w) \in SteadyFrame
    BY SteadyCalls
  <2>. QED  BY <1>1, <1>3, <2>1, <2>2, <2>3
<1>18. CASE ExternalDeleteEnd(t)
  <2>1. PICK w \in Wrap : w = Top(t).w /\ stack[t] # <<>>
    BY <1>18, TopArguments DEF ExternalDeleteEnd, AtTop, Running, WOps
  <2>2. \/ UNCHANGED <<pd, map, stack>> \/ Calls(t, <<WFrame("objRefDrop", w)>>)
        \/ Calls(t, Append(DestructorFrames(w), WFrame("objRefDrop", w)))
    BY <1>18, <2>1 DEF ExternalDeleteEnd, Abort
  <2>. QED  BY <1>2, <1>4, <2>1, <2>2, SteadyCalls
<1>19. CASE ReturnToQtEnd(t)
  <2>1. stack[t] # <<>> /\ Return(t)
    BY <1>19 DEF ReturnToQtEnd, AtTop, Running
  <2>. QED  BY <1>1, <2>1
<1>20. ASSUME NEW w \in Wrap, MapMiss(t, w) PROVE UNCHANGED <<pd, map, stack>> \/ Settles(t)
  <2>1. stack[t] # <<>> /\ (UNCHANGED <<pd, map, stack>> \/ Return(t))
    BY <1>20 DEF MapMiss, AtTop, Running, Abort
  <2>. QED  BY <1>1, <2>1
<1>21. ASSUME NEW w \in Wrap, NEW b \in Addr, MapMissCopy(t, w, b)
       PROVE  UNCHANGED <<pd, map, stack>> \/ Settles(t)
  <2>1. stack[t] # <<>> /\ (UNCHANGED <<pd, map, stack>> \/ Return(t))
    BY <1>21 DEF MapMissCopy, AtTop, Running, Abort
  <2>. QED  BY <1>1, <2>1
<1>. QED  BY <1>5, <1>6, <1>7, <1>8, <1>9, <1>10, <1>11, <1>12, <1>13, <1>14, <1>15, <1>16,
             <1>17, <1>18, <1>19, <1>20, <1>21 DEF Unwind, Clears

LEMMA ActsSettle ==
    ASSUME TypeOK, PhasesOnTop, NEW t \in Thread, QtActs(t) \/ ProgramActs(t), ~Clears(t)
    PROVE  UNCHANGED <<pd, map, stack>> \/ Settles(t)
<1>1. ASSUME UserCode(t), NEW f \in SteadyFrame, Enter(t, <<f>>) PROVE Settles(t)
  <2>1. <<f>> \in Seq(SteadyFrame)
    OBVIOUS
  <2>. QED  BY <1>1, <2>1, UserSteady, EnterSettles
<1>2. ASSUME UserCode(t), stack' = stack PROVE Settles(t)
  <2>1. stack[t] \in Seq(SteadyFrame)
    BY <1>2, UserSteady, SteadyStack
  <2>. QED  BY <1>2, <2>1 DEF Settles
<1>3. CASE QtActs(t)
  <2>1. ASSUME NEW a \in Addr, QtDelete(t, a) PROVE Settles(t)
    <3>1. AFrame("qtDestroy", a) \in SteadyFrame
      BY SteadyFrames DEF AOps
    <3>. QED  BY <1>1, <2>1, <3>1 DEF QtDelete
  <2>2. ASSUME NEW a \in Addr, NEW p,
               QtReparent(t, a, p) \/ \E kind \in Kinds : QtCreate(t, a, kind, p)
        PROVE  Settles(t)
    BY <1>2, <2>2 DEF QtReparent, QtCreate
  <2>. QED  BY <1>3, <2>1, <2>2 DEF QtActs
<1>4. ASSUME NEW w \in Wrap,
             \/ Release(t, w) \/ Delete(t, w) \/ SetExternallyOwned(t, w)
             \/ CommonMethod(t, w)
      PROVE  Settles(t)
  <2>1. /\ WFrame("deref", w) \in SteadyFrame /\ WFrame("methodCall", w) \in SteadyFrame
        /\ WFrame("pdDeref", w) \in SteadyFrame /\ WFrame("userDtor", w) \in SteadyFrame
        /\ WFrame("commonDtor", w) \in SteadyFrame /\ WFrame("endDelete", w) \in SteadyFrame
    BY SteadyCalls
  <2>2. CASE Release(t, w)
    BY <1>1, <2>1, <2>2 DEF Release
  <2>3. CASE Delete(t, w)
    <3>1. DestructorFrames(w) \in Seq(SteadyFrame)
      BY <2>1 DEF DestructorFrames
    <3>. QED  BY <2>3, <3>1, UserSteady, EnterSettles DEF Delete
  <2>4. CASE SetExternallyOwned(t, w)
    BY <1>2, <2>4 DEF SetExternallyOwned
  <2>5. CASE CommonMethod(t, w)
    <3>1. <<WFrame("methodCall", w), WFrame("pdDeref", w)>> \in Seq(SteadyFrame)
      BY <2>1
    <3>. QED  BY <2>5, <3>1, UserSteady, EnterSettles DEF CommonMethod
  <2>. QED  BY <1>4, <2>2, <2>3, <2>4, <2>5
<1>5. ASSUME NEW w \in Wrap, NEW p, SetParent(t, w, p)
      PROVE  UNCHANGED <<pd, map, stack>> \/ Settles(t)
  BY <1>2, <1>5 DEF SetParent, Abort
<1>6. ASSUME NEW w \in Wrap, NEW p, NEW a \in Addr, NEW kind, CommonConstructor(t, a, w, kind, p)
      PROVE  UNCHANGED <<pd, map, stack>> \/ Settles(t)
  <2>1. UNCHANGED <<pd, map, stack>> \/ (UserCode(t) /\ Enter(t, <<WFrame("ctorBody", w)>>))
    BY <1>6 DEF CommonConstructor, Abort
  <2>. QED  BY <1>1, <2>1, SteadyCalls
<1>7. ASSUME NEW a \in Addr,
             ReturnByValue(t, a) \/ \E const \in BOOLEAN : ReturnObject(t, a, const)
      PROVE  Settles(t)
  <2>1. ASSUME NEW miss \in {"mapMiss", "mapMissOwned", "mapMissCopy"}
        PROVE  Lookup(a, miss) \in SteadyFrame
    <3>1. map[a] \in Wrap \cup {None} /\ miss \in AOps
      BY DEF TypeOK, AOps
    <3>2. CASE map[a] = None
      BY <3>1, <3>2, SteadyFrames DEF Lookup
    <3>3. CASE map[a] # None
      BY <3>1, <3>3, SteadyCalls DEF Lookup
    <3>. QED  BY <3>2, <3>3
  <2>2. UserCode(t) /\ \E miss \in {"mapMiss", "mapMissOwned", "mapMissCopy"} :
                           Enter(t, <<Lookup(a, miss)>>)
    <3>1. CASE ReturnByValue(t, a)
      BY <3>1 DEF ReturnByValue
    <3>2. ASSUME NEW const \in BOOLEAN, ReturnObject(t, a, const)
          PROVE  UserCode(t) /\ \E miss \in {"mapMiss", "mapMissOwned", "mapMissCopy"} :
                                    Enter(t, <<Lookup(a, miss)>>)
      BY <3>2 DEF ReturnObject
    <3>. QED  BY <1>7, <3>1, <3>2
  <2>. QED  BY <1>1, <2>1, <2>2
<1>. QED  BY <1>3, <1>4, <1>5, <1>6, <1>7 DEF ProgramActs, Clears

-----------------------------------------------------------------------------
(* The object map is complete, in programs of one thread *)

OneThread == Thread = {GuiThread}

\* Private data that points to an object is registered under it; of the data
\* that is being cleared, the entry goes first.
SettledBut(v) ==
    \A w \in Wrap \ {v} : pd[w].obj # None => map[pd[w].obj] = w
Settled == \A w \in Wrap : pd[w].obj # None => map[pd[w].obj] = w

MapInv ==
    /\ ~InEnd(GuiThread) => Settled
    /\ InEnd(GuiThread) =>
           LET v == Top(GuiThread).w
           IN  SettledBut(v) /\ (pd[v].obj # None => map[pd[v].obj] = None)
    /\ InDel(GuiThread) =>
           LET v == Top(GuiThread).w IN pd[v].is_qobject => pd[v].obj # None

\* Most steps leave the map and the object pointers alone.
LEMMA MapUntouched ==
    ASSUME Settled, map' = map,
           \A w \in Wrap : pd'[w].obj = pd[w].obj \/ pd'[w].obj = None
    PROVE  Settled'
BY DEF Settled

LEMMA MapNone == ASSUME NEW w \in Wrap PROVE w # None
BY NoneAssumption

\* what a call that is not clearing private data finds
LEMMA TopSettled ==
    ASSUME MapInv, NEW op, AtTop(GuiThread, op), op \notin EndOps
    PROVE  Settled
BY ThreadAssumption, TopSteady DEF MapInv

LEMMA UserSettled ==
    ASSUME MapInv, UserCode(GuiThread)
    PROVE  Settled
BY ThreadAssumption, UserSteady DEF MapInv

\* No two wrappers stand for one object, so that the entry that clear() takes
\* out of the map is that of the wrapper itself.
LEMMA MapDelMap ==
    ASSUME TypeOK, PhasesOnTop, MapInv, MapDel(GuiThread)
    PROVE  MapInv'
<1>. DEFINE t == GuiThread
<1>0. t \in Thread /\ map \in [Addr -> Wrap \cup {None}]
  BY ThreadAssumption DEF TypeOK
<1>1. PICK w \in Wrap : w = Top(t).w /\ stack[t] # <<>> /\ Top(t).op \in DelOps
                        /\ Top(t) \in Frame
  <2>1. Top(t).op \in DelOps /\ stack[t] # <<>> /\ Top(t) \in Frame
    BY <1>0, TopType DEF MapDel, AtDel, Running, TypeOK
  <2>2. Top(t).w \in Wrap
    BY <1>0, <2>1, TopArguments DEF WOps, RestOps, DelOps
  <2>. QED  BY <2>1, <2>2
<1>2. CASE Abort(DelFault(w))
  BY <1>2 DEF Abort, MapInv, Settled, SettledBut, InEnd, InDel, Top
<1>3. CASE ~Abort(DelFault(w))
  <2>. DEFINE f == [Top(t) EXCEPT !.op = EndOf(@)]
  <2>1. /\ map' = IF pd[w].obj = None THEN map ELSE [map EXCEPT ![pd[w].obj] = None]
        /\ Calls(t, <<f>>) /\ pd' = pd
    BY <1>1, <1>3 DEF MapDel
  <2>2. f \in Frame /\ f.op \in EndOps /\ f.w = w
    BY <1>1, EndFrameType
  <2>. HIDE DEF f
  <2>3. stack'[t] # <<>> /\ Top(t)' = f
    BY <1>0, <1>1, <2>1, <2>2, PhaseSettles
  <2>4. InEnd(t)' /\ ~InDel(t)' /\ Top(t)'.w = w
    BY <2>2, <2>3 DEF InEnd, InDel, DelOps, EndOps, RestDelOps, RestEndOps
  <2>5. Settled
    BY <1>1 DEF MapInv, InEnd, DelOps, EndOps, RestDelOps, RestEndOps
  <2>6. pd'[w].obj # None => map'[pd'[w].obj] = None
    BY <1>0, <2>1, PdFields
  <2>7. SettledBut(w)'
    <3>1. SUFFICES ASSUME NEW x \in Wrap \ {w}, pd[x].obj # None
                   PROVE  map'[pd[x].obj] = x
      BY <2>1 DEF SettledBut
    <3>2. map[pd[x].obj] = x /\ pd[x].obj \in Addr
      BY <2>5, <3>1, PdFields DEF Settled
    <3>3. pd[w].obj # None => pd[w].obj # pd[x].obj
      BY <2>5, <3>2 DEF Settled
    <3>. QED  BY <1>0, <2>1, <3>2, <3>3
  <2>. QED  BY <2>4, <2>6, <2>7 DEF MapInv, SettledBut
<1>. QED  BY <1>2, <1>3

\* the entry is gone, now the pointer
LEMMA ResetMap ==
    ASSUME TypeOK, NEW w \in Wrap, SettledBut(w), Reset(w), map' = map
    PROVE  Settled'
<1>1. pd \in [Wrap -> PdRecord]
  BY DEF TypeOK
<1>2. pd'[w].obj = None /\ \A x \in Wrap \ {w} : pd'[x] = pd[x]
  BY <1>1 DEF Reset, PdRecord
<1>. QED  BY <1>2 DEF Settled, SettledBut

LEMMA EndsMap ==
    ASSUME TypeOK, MapInv,
           \/ DtorRestEnd(GuiThread) \/ ExternalDeleteEnd(GuiThread)
           \/ ReturnToQtEnd(GuiThread)
    PROVE  UNCHANGED <<pd, map, stack>> \/ Settled'
<1>1. Top(GuiThread).op \in EndOps /\ stack[GuiThread] # <<>>
  BY DEF DtorRestEnd, ExternalDeleteEnd, ReturnToQtEnd, AtTop, Running, EndOps
<1>2. PICK w \in Wrap : w = Top(GuiThread).w
  BY <1>1, ThreadAssumption, TopArguments DEF WOps, RestOps, EndOps
<1>3. SettledBut(w)
  BY <1>1, <1>2 DEF MapInv, InEnd
<1>4. UNCHANGED <<pd, map, stack>> \/ (Reset(w) /\ map' = map)
  BY <1>2 DEF DtorRestEnd, ExternalDeleteEnd, ReturnToQtEnd, Abort
<1>. QED  BY <1>3, <1>4, ResetMap

\* A new wrapper is entered for an object that had no entry.
LEMMA NewPrivateMap ==
    ASSUME TypeOK, Settled, NEW w \in Wrap, NEW a \in Addr, NEW kind,
           NEW p, NEW eo \in BOOLEAN, map[a] = None,
           NewPrivate(w, a, kind, p, eo)
    PROVE  Settled'
<1>1. pd \in [Wrap -> PdRecord] /\ map \in [Addr -> Wrap \cup {None}]
  BY DEF TypeOK
<1>2. /\ pd' = [pd EXCEPT ![w] = [refs |-> 1, attached |-> TRUE,
                                  is_qobject |-> kind # "plain", obj |-> a,
                                  eo |-> eo, obj_ref |-> FALSE]]
      /\ map' = [map EXCEPT ![a] = w]
  BY DEF NewPrivate
<1>3. pd'[w].obj = a /\ map'[a] = w
  BY <1>1, <1>2
<1>4. SUFFICES ASSUME NEW x \in Wrap, x # w, pd[x].obj # None
               PROVE  map'[pd[x].obj] = x /\ pd'[x] = pd[x]
  BY <1>1, <1>2, <1>3 DEF Settled
<1>5. map[pd[x].obj] = x /\ x # None /\ pd[x].obj \in Addr
  BY <1>4, MapNone, PdFields DEF Settled
<1>6. pd[x].obj # a
  BY <1>5
<1>. QED  BY <1>1, <1>2, <1>4, <1>5, <1>6

LEMMA PrivateFaultMap ==
    ASSUME NEW a \in Addr, NEW kind, NEW p, PrivateFault(a, kind, p) = None
    PROVE  map[a] = None
BY NoneAssumption DEF PrivateFault, Faults

LEMMA PdDerefMap ==
    ASSUME TypeOK, Settled, NEW t \in Thread, PdDeref(t)
    PROVE  Settled'
<1>1. PICK w \in Wrap : w = Top(t).w
  BY TopArguments DEF PdDeref, AtTop, Running, WOps
<1>2. /\ pd \in [Wrap -> PdRecord] /\ map \in [Addr -> Wrap \cup {None}]
      /\ pd[w].obj \in Addr \cup {None}
  BY PdFields DEF TypeOK
<1>3. CASE pd[w].refs > 1
  <2>1. pd' = [pd EXCEPT ![w].refs = pd[w].refs - 1] /\ map' = map
    BY <1>1, <1>3 DEF PdDeref
  <2>2. \A x \in Wrap : pd'[x].obj = pd[x].obj
    BY <1>2, <2>1 DEF PdRecord
  <2>. QED  BY <2>1, <2>2, MapUntouched
<1>4. CASE Abort("obj_ref") \/ Abort("map_del")
  BY <1>4, MapUntouched DEF Abort
<1>5. CASE ~(pd[w].refs > 1) /\ ~Abort("obj_ref") /\ ~Abort("map_del")
  <2>1. /\ pd' = [pd EXCEPT ![w] = NoPd]
        /\ map' = IF pd[w].obj # None /\ pd[w].is_qobject
                  THEN [map EXCEPT ![pd[w].obj] = None] ELSE map
    BY <1>1, <1>5 DEF PdDeref
  <2>2. pd'[w].obj = None
    BY <1>2, <2>1 DEF NoPd
  <2>3. SUFFICES ASSUME NEW x \in Wrap, x # w, pd[x].obj # None
                 PROVE  map'[pd[x].obj] = x /\ pd'[x] = pd[x]
    BY <1>2, <2>1, <2>2 DEF Settled
  <2>4. map[pd[x].obj] = x /\ pd[x].obj \in Addr
    BY <2>3, PdFields DEF Settled
  <2>5. pd[w].obj # None => pd[x].obj # pd[w].obj
    BY <2>3, <2>4 DEF Settled
  <2>. QED  BY <1>2, <2>1, <2>3, <2>4, <2>5
<1>. QED  BY <1>3, <1>4, <1>5

\* the steps that change fields of private data other than the object
LEMMA OtherFieldsMap ==
    ASSUME TypeOK, Settled, NEW w \in Wrap, NEW r, NEW b, map' = map,
           \/ pd' = [pd EXCEPT ![w].refs = r]
           \/ pd' = [pd EXCEPT ![w].attached = b]
           \/ pd' = [pd EXCEPT ![w].eo = b]
           \/ pd' = [pd EXCEPT ![w].obj_ref = b]
    PROVE  Settled'
<1>1. pd \in [Wrap -> PdRecord]
  BY DEF TypeOK
<1>2. \A x \in Wrap : pd'[x].obj = pd[x].obj
  BY <1>1 DEF PdRecord
<1>. QED  BY <1>2, MapUntouched

LEMMA QtFreeMap ==
    ASSUME TypeOK, Settled, NEW t \in Thread, QtFree(t)
    PROVE  Settled'
<1>1. pd \in [Wrap -> PdRecord] /\ map' = map
  BY DEF TypeOK, QtFree
<1>2. \A w \in Wrap : pd'[w].obj = pd[w].obj \/ pd'[w].obj = None
  BY <1>1 DEF QtFree, PdRecord
<1>. QED  BY <1>1, <1>2, MapUntouched

\* the steps that touch neither the private data nor the map
LEMMA QuietMap ==
    ASSUME Settled, UNCHANGED <<pd, map>>
    PROVE  Settled'
BY DEF Settled

LEMMA UnwindMap ==
    ASSUME TypeOK, Settled, NEW t \in Thread, Unwind(t), ~MapDel(t),
           ~(DtorRestEnd(t) \/ ExternalDeleteEnd(t) \/ ReturnToQtEnd(t))
    PROVE  Settled'
<1>1. CASE \/ ConstructorReturns(t) \/ UserDtorEnd(t) \/ EndDelete(t)
           \/ DeleteAll(t) \/ QtDestroy(t) \/ MethodCall(t) \/ MapHit(t)
           \/ OutOfMemory(t) \/ DtorRest(t) \/ Deleted(t) \/ ExternalDelete(t)
  <2>1. UNCHANGED <<pd, map>>
    BY <1>1 DEF ConstructorReturns, UserDtorEnd, EndDelete, DeleteAll,
                QtDestroy, MethodCall, MapHit, OutOfMemory, DtorRest, Deleted,
                ExternalDelete, Abort
  <2>. QED  BY <2>1, QuietMap
<1>2. CASE ConstructorThrows(t)
  <2>1. PICK w \in Wrap : w = Top(t).w
    BY <1>2, TopArguments DEF ConstructorThrows, AtTop, Running, WOps
  <2>2. map' = map /\ (pd' = pd \/ pd' = [pd EXCEPT ![w].attached = FALSE])
    BY <1>2, <2>1 DEF ConstructorThrows
  <2>. QED  BY <2>2, QuietMap, OtherFieldsMap
<1>3. CASE Deref(t)
  <2>1. PICK w \in Wrap : w = Top(t).w
    BY <1>3, TopArguments DEF Deref, AtTop, Running, WOps
  <2>2. map' = map /\ (pd' = pd \/ pd' = [pd EXCEPT ![w].obj_ref = TRUE])
    BY <1>3, <2>1 DEF Deref, Abort
  <2>. QED  BY <2>2, QuietMap, OtherFieldsMap
<1>4. CASE PdDeref(t)
  BY <1>4, PdDerefMap
<1>5. CASE ObjRefDrop(t)
  <2>1. PICK w \in Wrap : w = Top(t).w
    BY <1>5, TopArguments DEF ObjRefDrop, AtTop, Running, WOps
  <2>2. map' = map /\ pd' = [pd EXCEPT ![w].obj_ref = FALSE]
    BY <1>5, <2>1 DEF ObjRefDrop
  <2>. QED  BY <2>2, OtherFieldsMap
<1>6. CASE CommonDestructor(t)
  <2>1. PICK w \in Wrap : w = Top(t).w
    BY <1>6, TopArguments DEF CommonDestructor, AtTop, Running, WOps
  <2>2. map' = map /\ (pd' = pd \/ pd' = [pd EXCEPT ![w].attached = FALSE])
    BY <1>6, <2>1 DEF CommonDestructor, Abort
  <2>. QED  BY <2>2, QuietMap, OtherFieldsMap
<1>8. CASE QtFree(t)
  BY <1>8, QtFreeMap
<1>9. CASE Hold(t)
  <2>1. PICK w \in Wrap : w = Top(t).w
    BY <1>9, TopArguments DEF Hold, AtTop, Running, WOps
  <2>2. map' = map /\ (pd' = pd \/ pd' = [pd EXCEPT ![w].refs = pd[w].refs + 1])
    BY <1>9, <2>1 DEF Hold, Abort
  <2>. QED  BY <2>2, QuietMap, OtherFieldsMap
<1>11. ASSUME NEW w \in Wrap, MapMiss(t, w) PROVE Settled'
  <2>1. PICK a \in Addr : a = Top(t).a
    BY <1>11, TopArguments DEF MapMiss, AtTop, Running, AOps
  <2>2. \/ UNCHANGED <<pd, map>>
        \/ /\ PrivateFault(a, qt[a].kind, qt[a].parent) = None
           /\ NewPrivate(w, a, qt[a].kind, qt[a].parent, TRUE)
        \/ /\ PrivateFault(a, qt[a].kind, qt[a].parent) = None
           /\ NewPrivate(w, a, qt[a].kind, qt[a].parent, FALSE)
    BY <1>11, <2>1 DEF MapMiss, Abort
  <2>. QED  BY <2>2, QuietMap, NewPrivateMap, PrivateFaultMap
<1>12. ASSUME NEW w \in Wrap, NEW b \in Addr, MapMissCopy(t, w, b)
       PROVE  Settled'
  <2>1. \/ UNCHANGED <<pd, map>>
        \/ map[b] = None /\ NewPrivate(w, b, "plain", None, FALSE)
    BY <1>12 DEF MapMissCopy, Abort
  <2>. QED  BY <2>1, QuietMap, NewPrivateMap
<1>. QED  BY <1>1, <1>2, <1>3, <1>4, <1>5, <1>6, <1>8, <1>9, <1>11, <1>12 DEF Unwind

LEMMA QtActsMap ==
    ASSUME Settled, NEW t \in Thread, QtActs(t)
    PROVE  Settled'
<1>1. UNCHANGED <<pd, map>>
  BY DEF QtActs, QtDelete, QtReparent, QtCreate
<1>. QED  BY <1>1, QuietMap

LEMMA ProgramActsMap ==
    ASSUME TypeOK, Settled, NEW t \in Thread, ProgramActs(t)
    PROVE  Settled'
<1>1. ASSUME NEW w \in Wrap, Release(t, w) \/ Delete(t, w)
      PROVE  Settled'
  <2>1. UNCHANGED <<pd, map>>
    BY <1>1 DEF Release, Delete
  <2>. QED  BY <2>1, QuietMap
<1>2. ASSUME NEW w \in Wrap, SetExternallyOwned(t, w)
      PROVE  Settled'
  <2>1. map' = map /\ pd' = [pd EXCEPT ![w].eo = TRUE]
    BY <1>2 DEF SetExternallyOwned
  <2>. QED  BY <2>1, OtherFieldsMap
<1>3. ASSUME NEW w \in Wrap, CommonMethod(t, w)
      PROVE  Settled'
  <2>1. map' = map /\ pd' = [pd EXCEPT ![w].refs = pd[w].refs + 1]
    BY <1>3 DEF CommonMethod
  <2>. QED  BY <2>1, OtherFieldsMap
<1>4. ASSUME NEW w \in Wrap, ReturnToQt(t, w)
      PROVE  Settled'
  <2>1. map' = map /\ pd' = [pd EXCEPT ![w].refs = pd[w].refs + 1]
    BY <1>4 DEF ReturnToQt
  <2>. QED  BY <2>1, OtherFieldsMap
<1>5. ASSUME NEW w \in Wrap, NEW p \in Addr \cup {None}, SetParent(t, w, p)
      PROVE  Settled'
  <2>1. UNCHANGED <<pd, map>>
    BY <1>5 DEF SetParent, Abort
  <2>. QED  BY <2>1, QuietMap
<1>6. ASSUME NEW w \in Wrap, NEW p \in Addr \cup {None}, NEW a \in Addr,
             NEW kind \in Kinds, CommonConstructor(t, a, w, kind, p)
      PROVE  Settled'
  <2>1. \/ UNCHANGED <<pd, map>>
        \/ /\ PrivateFault(a, kind, p) = None
           /\ NewPrivate(w, a, kind, p, FALSE)
    BY <1>6 DEF CommonConstructor, Abort
  <2>. QED  BY <2>1, QuietMap, NewPrivateMap, PrivateFaultMap
<1>7. ASSUME NEW a \in Addr,
             ReturnByValue(t, a) \/ \E const \in BOOLEAN : ReturnObject(t, a, const)
      PROVE  Settled'
  <2>1. UNCHANGED <<pd, map>>
    BY <1>7 DEF ReturnByValue, ReturnObject
  <2>. QED  BY <2>1, QuietMap
<1>. QED  BY <1>1, <1>2, <1>3, <1>4, <1>5, <1>6, <1>7 DEF ProgramActs

LEMMA InitMap == Init => MapInv /\ PhasesOnTop
BY ThreadAssumption DEF Init, MapInv, Settled, NoPd, InEnd, InDel, PhasesOnTop

\* a step that begins to clear private data, with the tests before it
LEMMA ClearsMap ==
    ASSUME TypeOK, PhasesOnTop, MapInv,
           \/ DtorRest(GuiThread) \/ ExternalDelete(GuiThread)
           \/ \E w \in Wrap : ReturnToQt(GuiThread, w)
    PROVE  MapInv' /\ PhasesOnTop'
<1>. DEFINE t == GuiThread
<1>0. t \in Thread /\ pd \in [Wrap -> PdRecord] /\ stack \in [Thread -> Seq(Frame)]
  BY ThreadAssumption DEF TypeOK
<1>1. ASSUME UNCHANGED <<pd, map, stack>> PROVE MapInv' /\ PhasesOnTop'
  BY <1>1 DEF MapInv, Settled, SettledBut, InEnd, InDel, Top, PhasesOnTop
<1>2. ASSUME NEW f \in Frame, f.op \notin EndOps, stack'[t] # <<>>, Top(t)' = f,
             f.op \in DelOps => (pd'[f.w].is_qobject => pd'[f.w].obj # None), Settled'
      PROVE  MapInv'
  BY <1>2 DEF MapInv, InEnd, InDel
<1>3. CASE DtorRest(t)
  <2>1. PICK w \in Wrap, a \in Addr : w = Top(t).w /\ a = Top(t).a /\ stack[t] # <<>>
                                      /\ AtTop(t, "dtorRest")
    BY <1>0, <1>3, TopArguments DEF DtorRest, AtTop, Running, RestOps
  <2>2. CASE Abort("dangling_qt") \/ Abort(ClearFault(w))
    BY <1>1, <2>2 DEF Abort
  <2>3. CASE ~(Abort("dangling_qt") \/ Abort(ClearFault(w)))
    <3>1. PICK op \in RestDelOps : Calls(t, <<RestFrame(op, a, w)>>)
      BY <1>3, <2>1, <2>3 DEF DtorRest, RestDelOps
    <3>. DEFINE f == RestFrame(op, a, w)
    <3>2. UNCHANGED <<pd, map>> /\ ClearFault(w) = None
      BY <1>3, <2>1, <2>3 DEF DtorRest
    <3>3. f \in Frame /\ f.op \in RestDelOps /\ f.w = w /\ f.op \notin EndOps
      BY RestFrameType DEF RestOps, RestFrame, RestDelOps, RestEndOps, EndOps
    <3>. HIDE DEF f
    <3>4. stack'[t] # <<>> /\ Top(t)' = f /\ PhasesOnTop'
      BY <1>0, <2>1, <3>1, <3>3, PhaseSettles DEF f
    <3>5. Settled
      BY <2>1, TopSettled DEF EndOps, RestEndOps
    <3>6. Settled'
      BY <3>2, <3>5 DEF Settled
    <3>7. pd[w].is_qobject => pd[w].obj # None
      BY <3>2, NoneAssumption DEF ClearFault, Faults
    <3>. QED  BY <1>2, <3>2, <3>3, <3>4, <3>6, <3>7
  <2>. QED  BY <2>2, <2>3
<1>4. CASE ExternalDelete(t)
  <2>1. PICK w \in Wrap : w = Top(t).w /\ stack[t] # <<>> /\ AtTop(t, "externalDelete")
    BY <1>0, <1>4, TopArguments DEF ExternalDelete, AtTop, Running, WOps
  <2>2. CASE Abort(ClearFault(w))
    BY <1>1, <2>2 DEF Abort
  <2>3. CASE ~Abort(ClearFault(w))
    <3>1. PICK op \in {"externalDel", "objRefDrop"} : Calls(t, <<WFrame(op, w)>>)
      BY <1>4, <2>1, <2>3 DEF ExternalDelete
    <3>. DEFINE f == WFrame(op, w)
    <3>2. UNCHANGED <<pd, map>> /\ ClearFault(w) = None
      BY <1>4, <2>1, <2>3 DEF ExternalDelete
    <3>3. f \in Frame /\ f.op \in {"externalDel", "objRefDrop"} /\ f.w = w /\ f.op \notin EndOps
      BY WFrameType DEF WOps, WFrame, RestEndOps, EndOps
    <3>. HIDE DEF f
    <3>4. stack'[t] # <<>> /\ Top(t)' = f /\ PhasesOnTop'
      BY <1>0, <2>1, <3>1, <3>3, PhaseSettles DEF f
    <3>5. Settled
      BY <2>1, TopSettled DEF EndOps, RestEndOps
    <3>6. Settled'
      BY <3>2, <3>5 DEF Settled
    <3>7. pd[w].is_qobject => pd[w].obj # None
      BY <3>2, NoneAssumption DEF ClearFault, Faults
    <3>. QED  BY <1>2, <3>2, <3>3, <3>4, <3>6, <3>7
  <2>. QED  BY <2>2, <2>3
<1>5. ASSUME NEW w \in Wrap, ReturnToQt(t, w) PROVE MapInv' /\ PhasesOnTop'
  <2>. DEFINE f == WFrame("returnDel", w)
              g == WFrame("pdDeref", w)
              h == WFrame("deref", w)
  <2>1. /\ f \in Frame /\ f.op \in DelOps /\ f.w = w /\ f.op \notin EndOps
        /\ g \in SteadyFrame /\ h \in SteadyFrame
    BY WFrameType, SteadyCalls DEF WOps, WFrame, RestEndOps, EndOps, DelOps
  <2>2. /\ map' = map /\ pd' = [pd EXCEPT ![w].refs = pd[w].refs + 1]
        /\ Enter(t, <<f, g, h>>) /\ UserCode(t) /\ pd[w].obj # None
    BY <1>5 DEF ReturnToQt
  <2>3. stack[t] \in Seq(SteadyFrame)
    BY <1>0, <2>2, UserSteady, SteadyStack
  <2>. HIDE DEF f, g, h
  <2>4. stack'[t] = <<f, g, h>> \o stack[t] /\ \A s \in Thread \ {t} : stack'[s] = stack[s]
    BY <1>0, <2>2 DEF Enter
  <2>. DEFINE r == stack'[t]
  <2>5. Head(r) = f /\ r # <<>> /\ Tail(r) = <<g, h>> \o stack[t]
    BY <1>0, <2>4
  <2>6. Tail(r) \in Seq(SteadyFrame)
    <3>1. <<g, h>> \in Seq(SteadyFrame)
      BY <2>1
    <3>2. <<g, h>> \o stack[t] \in Seq(SteadyFrame)
      BY <2>3, <3>1
    <3>. QED  BY <2>5, <3>2
  <2>7. Top(t)' = f /\ PhasesOnTop'
    BY <2>4, <2>5, <2>6 DEF PhasesOnTop, Top
  <2>8. Settled
    BY <2>2, UserSettled
  <2>9. Settled' /\ pd'[w].obj # None
    <3>1. \A x \in Wrap : pd'[x].obj = pd[x].obj
      BY <1>0, <2>2 DEF PdRecord
    <3>. QED  BY <2>2, <2>8, <3>1, MapUntouched
  <2>. QED  BY <1>2, <2>1, <2>5, <2>7, <2>9
<1>. QED  BY <1>3, <1>4, <1>5

LEMMA StepMap ==
    ASSUME OneThread, TypeOK, PhasesOnTop, MapInv, [Next]_vars
    PROVE  MapInv' /\ PhasesOnTop'
<1>. DEFINE t == GuiThread
<1>0. t \in Thread /\ Thread = {t}
  BY ThreadAssumption DEF OneThread
<1>1. ASSUME UNCHANGED <<pd, map, stack>> PROVE MapInv' /\ PhasesOnTop'
  BY <1>1 DEF MapInv, Settled, SettledBut, InEnd, InDel, Top, PhasesOnTop
<1>2. ASSUME Settles(t), Settled' PROVE MapInv' /\ PhasesOnTop'
  BY <1>0, <1>2, SettlesPhases DEF MapInv
<1>3. CASE Clears(t) /\ ~MapDel(t)
  BY <1>3, ClearsMap DEF Clears
<1>4. CASE MapDel(t)
  <2>1. MapInv'
    BY <1>4, MapDelMap
  <2>2. PhasesOnTop'
    <3>1. Top(t) \in Frame /\ Top(t).op \in DelOps /\ stack[t] # <<>>
      BY <1>0, <1>4, TopType DEF MapDel, AtDel, Running, TypeOK
    <3>2. stack' = stack \/ Calls(t, <<[Top(t) EXCEPT !.op = EndOf(@)]>>)
      BY <1>4 DEF MapDel, Abort
    <3>3. [Top(t) EXCEPT !.op = EndOf(@)] \in Frame
      BY <3>1, EndFrameType
    <3>. QED  BY <1>0, <3>1, <3>2, <3>3, PhaseSettles DEF PhasesOnTop
  <2>. QED  BY <2>1, <2>2
<1>5. CASE Unwind(t) /\ ~Clears(t)
  <2>1. UNCHANGED <<pd, map, stack>> \/ Settles(t)
    BY <1>0, <1>5, UnwindSettles
  <2>2. CASE DtorRestEnd(t) \/ ExternalDeleteEnd(t) \/ ReturnToQtEnd(t)
    BY <1>1, <1>2, <2>1, <2>2, EndsMap
  <2>3. CASE ~(DtorRestEnd(t) \/ ExternalDeleteEnd(t) \/ ReturnToQtEnd(t))
    <3>1. ~InEnd(t)
      BY <1>5, <2>3
         DEF Unwind, Clears, InEnd, EndOps, RestEndOps, AtTop, ConstructorReturns,
             ConstructorThrows, UserDtorEnd, Deref, EndDelete, PdDeref, ObjRefDrop,
             CommonDestructor, DeleteAll, QtDestroy, QtFree, Deleted, Hold, MethodCall, MapHit,
             OutOfMemory, MapMiss, MapMissCopy
    <3>2. Settled
      BY <3>1 DEF MapInv
    <3>3. Settled'
      BY <1>0, <1>5, <2>3, <3>2, UnwindMap DEF Clears
    <3>. QED  BY <1>1, <1>2, <2>1, <3>3
  <2>. QED  BY <2>2, <2>3
<1>6. CASE (QtActs(t) \/ ProgramActs(t)) /\ ~Clears(t)
  <2>1. UNCHANGED <<pd, map, stack>> \/ Settles(t)
    BY <1>0, <1>6, ActsSettle
  <2>2. UserCode(t)
    <3>1. QtActs(t) => UserCode(t)
      BY DEF QtActs, QtDelete, QtReparent, QtCreate
    <3>2. ProgramActs(t) => UserCode(t)
      <4>1. \A w \in Wrap : Release(t, w) \/ Delete(t, w) \/ SetExternallyOwned(t, w) => UserCode(t)
        BY DEF Release, Delete, SetExternallyOwned
      <4>2. \A w \in Wrap : CommonMethod(t, w) \/ ReturnToQt(t, w) => UserCode(t)
        BY DEF CommonMethod, ReturnToQt
      <4>3. \A w \in Wrap, p \in Addr \cup {None} :
               /\ SetParent(t, w, p) => UserCode(t)
               /\ \A a \in Addr, kind \in Kinds : CommonConstructor(t, a, w, kind, p) => UserCode(t)
        BY DEF SetParent, CommonConstructor
      <4>4. \A a \in Addr : ReturnByValue(t, a) => UserCode(t)
        BY DEF ReturnByValue
      <4>5. \A a \in Addr, const \in BOOLEAN : ReturnObject(t, a, const) => UserCode(t)
        BY DEF ReturnObject
      <4>. QED  BY <4>1, <4>2, <4>3, <4>4, <4>5 DEF ProgramActs
    <3>. QED  BY <1>6, <3>1, <3>2
  <2>3. Settled'
    BY <1>0, <1>6, <2>2, UserSettled, QtActsMap, ProgramActsMap
  <2>. QED  BY <1>1, <1>2, <2>1, <2>3
<1>7. CASE UNCHANGED vars
  BY <1>1, <1>7 DEF vars
<1>. QED  BY <1>0, <1>3, <1>4, <1>5, <1>6, <1>7 DEF Next

LEMMA MapInvComplete ==
    ASSUME MapInv
    PROVE  MapComplete
<1>1. InEnd(GuiThread) => Clearing(Top(GuiThread).w)
  BY ThreadAssumption DEF InEnd, Clearing, Running
<1>. QED  BY <1>1 DEF MapInv, Settled, SettledBut, MapComplete

LEMMA MapInvariant ==
    ASSUME OneThread
    PROVE  Spec => [](TypeOK /\ PhasesOnTop /\ MapInv)
<1>1. Init => TypeOK /\ PhasesOnTop /\ MapInv
  BY InitType, InitMap
<1>2. TypeOK /\ PhasesOnTop /\ MapInv /\ [Next]_vars => TypeOK' /\ PhasesOnTop' /\ MapInv'
  BY StepType, StepMap
<1>. QED  BY <1>1, <1>2, PTL DEF Spec

\* Private data that points to a Qt object is registered under that object, or
\* being cleared, so that the destructor of the object reaches it and no object
\* has two wrappers: in programs of one thread, with any number of objects,
\* whatever Qt creates, moves and deletes and whichever constructors fail.
THEOREM MapAlwaysComplete == ASSUME OneThread PROVE Spec => []MapComplete
<1>1. Spec => []MapInv
  BY MapInvariant, PTL
<1>2. MapInv => MapComplete
  BY MapInvComplete
<1>. QED  BY <1>1, <1>2, PTL

-----------------------------------------------------------------------------
(* What the map is asked to delete, it contains *)

\* clear() itself reports a missing object, not a missing entry
LEMMA ClearFaultNotDel ==
    ASSUME NEW w \in Wrap
    PROVE  ClearFault(w) # "map_del"
BY NoneAssumption DEF ClearFault, Faults

LEMMA PrivateFaultNotDel ==
    ASSUME NEW a, NEW kind, NEW p
    PROVE  PrivateFault(a, kind, p) # "map_del"
BY NoneAssumption DEF PrivateFault, Faults

LEMMA UnwindDel ==
    ASSUME OneThread, TypeOK, MapInv, DelAssertion, NEW t \in Thread, Unwind(t)
    PROVE  DelAssertion'
<1>0. t = GuiThread
  BY DEF OneThread
<1>1. CASE \/ ConstructorReturns(t) \/ ConstructorThrows(t) \/ UserDtorEnd(t)
           \/ EndDelete(t) \/ ObjRefDrop(t) \/ QtFree(t) \/ OutOfMemory(t)
           \/ DtorRestEnd(t) \/ Deleted(t) \/ ReturnToQtEnd(t)
  BY <1>1 DEF ConstructorReturns, ConstructorThrows, UserDtorEnd, EndDelete,
              ObjRefDrop, QtFree, OutOfMemory, DtorRestEnd, Deleted, ReturnToQtEnd,
              DelAssertion
<1>2. CASE \/ Deref(t) \/ CommonDestructor(t) \/ QtDestroy(t) \/ DeleteAll(t)
           \/ ExternalDeleteEnd(t)
  BY <1>2 DEF Deref, CommonDestructor, QtDestroy, DeleteAll, ExternalDeleteEnd,
              DelAssertion, Abort
<1>3. CASE Hold(t) \/ MethodCall(t) \/ MapHit(t)
  BY <1>3 DEF Hold, MethodCall, MapHit, DelAssertion, Abort
<1>4. CASE PdDeref(t)
  <2>1. PICK w \in Wrap : w = Top(t).w
    BY <1>4, TopArguments DEF PdDeref, AtTop, Running, WOps
  <2>2. Settled
    BY <1>0, <1>4, TopSettled DEF PdDeref, EndOps, RestEndOps
  <2>3. pd[w].obj # None => map[pd[w].obj] # None
    BY <2>2, MapNone DEF Settled
  <2>. QED  BY <1>4, <2>1, <2>3 DEF PdDeref, DelAssertion, Abort
<1>5. CASE DtorRest(t)
  <2>1. PICK w \in Wrap : w = Top(t).w
    BY <1>5, TopArguments DEF DtorRest, AtTop, Running, RestOps
  <2>2. fault' = fault \/ fault' = "dangling_qt" \/ fault' = ClearFault(w)
    BY <1>5, <2>1 DEF DtorRest, Abort
  <2>. QED  BY <2>2, ClearFaultNotDel DEF DelAssertion
<1>6. CASE ExternalDelete(t)
  <2>1. PICK w \in Wrap : w = Top(t).w
    BY <1>6, TopArguments DEF ExternalDelete, AtTop, Running, WOps
  <2>2. fault' = fault \/ fault' = ClearFault(w)
    BY <1>6, <2>1 DEF ExternalDelete, Abort
  <2>. QED  BY <2>2, ClearFaultNotDel DEF DelAssertion
<1>7. CASE MapDel(t)
  <2>1. PICK w \in Wrap : w = Top(t).w
    BY <1>7, TopArguments DEF MapDel, AtDel, Running, WOps, RestOps, DelOps
  <2>2. Top(t).op \in DelOps /\ stack[t] # <<>>
    BY <1>7 DEF MapDel, AtDel, Running
  <2>3. Settled /\ (pd[w].is_qobject => pd[w].obj # None)
    BY <1>0, <2>1, <2>2 DEF MapInv, InDel, InEnd, DelOps, EndOps, RestDelOps, RestEndOps
  <2>4. DelFault(w) = None
    BY <2>3, MapNone DEF DelFault, Settled
  <2>. QED  BY <1>7, <2>1, <2>4 DEF MapDel, DelAssertion
<1>8. ASSUME NEW w \in Wrap, MapMiss(t, w) PROVE DelAssertion'
  <2>1. \/ fault' = fault \/ fault' = "dangling_qt"
        \/ fault' = PrivateFault(Top(t).a, qt[Top(t).a].kind,
                                 qt[Top(t).a].parent)
    BY <1>8 DEF MapMiss, Abort
  <2>. QED  BY <2>1, PrivateFaultNotDel DEF DelAssertion
<1>9. ASSUME NEW w \in Wrap, NEW b \in Addr, MapMissCopy(t, w, b)
      PROVE  DelAssertion'
  BY <1>9 DEF MapMissCopy, Abort, DelAssertion
<1>. QED  BY <1>1, <1>2, <1>3, <1>4, <1>5, <1>6, <1>7, <1>8, <1>9 DEF Unwind

LEMMA ActsDel ==
    ASSUME DelAssertion, NEW t \in Thread, QtActs(t) \/ ProgramActs(t)
    PROVE  DelAssertion'
<1>1. CASE QtActs(t)
  BY <1>1 DEF QtActs, QtDelete, QtReparent, QtCreate, DelAssertion
<1>2. ASSUME NEW w \in Wrap,
             \/ Release(t, w) \/ Delete(t, w) \/ SetExternallyOwned(t, w)
             \/ CommonMethod(t, w) \/ ReturnToQt(t, w)
      PROVE  DelAssertion'
  BY <1>2 DEF Release, Delete, SetExternallyOwned, CommonMethod, ReturnToQt, DelAssertion
<1>4. ASSUME NEW w \in Wrap, NEW p \in Addr \cup {None}, SetParent(t, w, p)
      PROVE  DelAssertion'
  BY <1>4 DEF SetParent, Abort, DelAssertion
<1>5. ASSUME NEW w \in Wrap, NEW p \in Addr \cup {None}, NEW a \in Addr,
             NEW kind \in Kinds, CommonConstructor(t, a, w, kind, p)
      PROVE  DelAssertion'
  <2>1. fault' = fault \/ fault' = PrivateFault(a, kind, p)
    BY <1>5 DEF CommonConstructor, Abort
  <2>. QED  BY <2>1, PrivateFaultNotDel DEF DelAssertion
<1>6. ASSUME NEW a \in Addr,
             ReturnByValue(t, a) \/ \E const \in BOOLEAN : ReturnObject(t, a, const)
      PROVE  DelAssertion'
  BY <1>6 DEF ReturnByValue, ReturnObject, DelAssertion
<1>. QED  BY <1>1, <1>2, <1>4, <1>5, <1>6 DEF ProgramActs

LEMMA StepDel ==
    ASSUME OneThread, TypeOK, MapInv, DelAssertion, [Next]_vars
    PROVE  DelAssertion'
<1>1. CASE Next
  BY <1>1, ThreadAssumption, UnwindDel, ActsDel DEF Next
<1>2. CASE UNCHANGED vars
  BY <1>2 DEF DelAssertion, vars
<1>. QED  BY <1>1, <1>2

\* assert(contains(qto)) of QtQoreMap::del holds whenever it is evaluated, in
\* programs of one thread: no order of destructors and callbacks makes clear(),
\* or the destructor of the private data of a QObject, remove an entry twice.
\* (With two threads it can fail: clear() holds no lock from its test of the
\* object to the reset of its pointer.)
THEOREM DelNeverFails == ASSUME OneThread PROVE Spec => []DelAssertion
<1>1. Init => DelAssertion
  BY NoneAssumption DEF Init, DelAssertion, Faults
<1>2. TypeOK /\ MapInv /\ DelAssertion /\ [Next]_vars => DelAssertion'
  BY StepDel
<1>3. Spec => [](TypeOK /\ PhasesOnTop /\ MapInv)
  BY MapInvariant
<1>. QED  BY <1>1, <1>2, <1>3, PTL DEF Spec

-----------------------------------------------------------------------------
(* The windows of an application that is being destroyed *)

\* Neither the lifecycle code nor a constructor changes the set of QWM once
\* deleteAll() has begun to iterate over it.
LEMMA NewPrivateWindows ==
    ASSUME NEW w, NEW a, NEW kind, NEW p, NEW eo, qwm.done,
           PrivateFault(a, kind, p) = None, NewPrivate(w, a, kind, p, eo)
    PROVE  qwm' = qwm
BY NoneAssumption DEF PrivateFault, NewPrivate, Faults

LEMMA ClearWindows ==
    ASSUME NEW w, qwm.done, ClearWindow(w)
    PROVE  qwm' = qwm
BY DEF ClearWindow, QwmRemove

LEMMA UnwindWindows ==
    ASSUME NEW t \in Thread, qwm.done, Unwind(t)
    PROVE  qwm' = qwm
<1>1. CASE \/ ConstructorReturns(t) \/ ConstructorThrows(t) \/ UserDtorEnd(t)
           \/ EndDelete(t) \/ ObjRefDrop(t) \/ QtFree(t) \/ OutOfMemory(t)
           \/ DtorRestEnd(t) \/ Deleted(t) \/ ReturnToQtEnd(t)
  BY <1>1 DEF ConstructorReturns, ConstructorThrows, UserDtorEnd, EndDelete,
              ObjRefDrop, QtFree, OutOfMemory, DtorRestEnd, Deleted, ReturnToQtEnd
<1>2. CASE \/ Deref(t) \/ CommonDestructor(t) \/ QtDestroy(t) \/ DeleteAll(t)
  BY <1>2 DEF Deref, CommonDestructor, QtDestroy, DeleteAll, Abort
<1>3. CASE \/ Hold(t) \/ MethodCall(t) \/ MapHit(t) \/ PdDeref(t)
           \/ ExternalDeleteEnd(t) \/ MapDel(t)
  BY <1>3 DEF Hold, MethodCall, MapHit, PdDeref, ExternalDeleteEnd, MapDel, Abort
<1>4. CASE DtorRest(t) \/ ExternalDelete(t)
  <2>1. qwm' = qwm \/ ClearWindow(Top(t).w)
    BY <1>4 DEF DtorRest, ExternalDelete, Abort
  <2>. QED  BY <2>1, ClearWindows
<1>5. ASSUME NEW w \in Wrap, MapMiss(t, w) PROVE qwm' = qwm
  <2>. DEFINE a == Top(t).a
  <2>1. \/ qwm' = qwm
        \/ /\ PrivateFault(a, qt[a].kind, qt[a].parent) = None
           /\ NewPrivate(w, a, qt[a].kind, qt[a].parent, Top(t).op = "mapMiss")
    BY <1>5 DEF MapMiss, Abort
  <2>. QED  BY <2>1, NewPrivateWindows
<1>6. ASSUME NEW w \in Wrap, NEW b \in Addr, MapMissCopy(t, w, b)
      PROVE  qwm' = qwm
  BY <1>6 DEF MapMissCopy, NewPrivate, IsWindow, Abort
<1>. QED  BY <1>1, <1>2, <1>3, <1>4, <1>5, <1>6 DEF Unwind

LEMMA ActsWindows ==
    ASSUME NEW t \in Thread, qwm.done, QtActs(t) \/ ProgramActs(t)
    PROVE  qwm' = qwm
<1>1. CASE QtActs(t)
  BY <1>1 DEF QtActs, QtDelete, QtReparent, QtCreate
<1>2. ASSUME NEW w \in Wrap,
             \/ Release(t, w) \/ Delete(t, w) \/ SetExternallyOwned(t, w)
             \/ CommonMethod(t, w) \/ ReturnToQt(t, w)
      PROVE  qwm' = qwm
  BY <1>2 DEF Release, Delete, SetExternallyOwned, CommonMethod, ReturnToQt
<1>4. ASSUME NEW w \in Wrap, NEW p \in Addr \cup {None}, SetParent(t, w, p)
      PROVE  qwm' = qwm
  BY <1>4 DEF SetParent, Abort, QwmRemove
<1>5. ASSUME NEW w \in Wrap, NEW p \in Addr \cup {None}, NEW a \in Addr,
             NEW kind \in Kinds, CommonConstructor(t, a, w, kind, p)
      PROVE  qwm' = qwm
  BY <1>5, NewPrivateWindows DEF CommonConstructor, Abort
<1>6. ASSUME NEW a \in Addr,
             ReturnByValue(t, a) \/ \E const \in BOOLEAN : ReturnObject(t, a, const)
      PROVE  qwm' = qwm
  BY <1>6 DEF ReturnByValue, ReturnObject
<1>. QED  BY <1>1, <1>2, <1>4, <1>5, <1>6 DEF ProgramActs

\* From the moment the destructor of the application starts, the set that
\* deleteAll() walks through without a lock does not change.
THEOREM WindowsFrozen == Spec => DoneFreezesWindows
<1>1. [Next]_vars => [qwm.done => qwm' = qwm]_vars
  BY ThreadAssumption, UnwindWindows, ActsWindows DEF Next
<1>. QED  BY <1>1, PTL DEF Spec, DoneFreezesWindows
=============================================================================
