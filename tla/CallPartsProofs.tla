---------------------------- MODULE CallPartsProofs ----------------------------
(***************************************************************************)
(* Proofs about the parts of a call between Qore and Qt other than its     *)
(* arguments (CallArgumentsProofs), and about the four parts together.     *)
(*                                                                         *)
(*   - VirtualDispatch, for any number of threads and objects and any      *)
(*     depth of nested calls: who owns the virtual flag, what it hides,    *)
(*     and where the call of an overridden method arrives;                 *)
(*   - ModelIndexes, for any number of addresses, values and indexes: an   *)
(*     index leads to the value it was made for, and no reference is held  *)
(*     to a value that was freed;                                          *)
(*   - SingleShotTimer, for any number of timers and receivers and any     *)
(*     depth of nested event loops: a slot is called at most once, and a   *)
(*     timer that will not fire any more is freed once;                    *)
(*   - MCCalls, which takes a step of one part at a time: the invariants   *)
(*     of all the parts hold together.                                     *)
(***************************************************************************)
EXTENDS MCCalls, CallArgumentsProofs, SequenceTheorems, FiniteSetTheorems, TLAPS

-----------------------------------------------------------------------------
(* Virtual dispatch: what holds of the stack s of one thread *)

QoreKinds == {"user", "marshal"}

\* a helper whose Qt call has not come back to Qore: what the virtual flag needs
FlagHeld(s) ==
    \E i \in 1..Len(s) :
        /\ s[i].kind = "helper"
        /\ \A j \in i+1 .. Len(s) : s[j].kind \notin QoreKinds \cup {"helper"}

\* such a helper below the j-th call
HelperBelow(s, j) ==
    \E i \in 1 .. j-1 :
        /\ s[i].kind = "helper"
        /\ \A k \in i+1 .. j-1 : s[k].kind \notin QoreKinds

QuietOwned(s) == \A j \in 1..Len(s) : s[j].quiet => HelperBelow(s, j)

\* f is the Qore override of a method, g a call of that method of the same object
Overrides(f) == f.kind = "user" /\ f.meth = "plain" /\ f.obj \in Marked
SameMethod(f, g) == g.obj = f.obj /\ g.meth = "plain"
ReachesBase(s) ==
    \A j \in 1 .. Len(s) - 1 :
        (Overrides(s[j]) /\ SameMethod(s[j], s[j+1])) => s[j+1].kind = "helper"

Sound(s, flag) == (flag => FlagHeld(s)) /\ QuietOwned(s) /\ ReachesBase(s)

DispatchInv ==
    /\ DispatchTypeOK
    /\ dispatchFault # "flag"
    /\ \A t \in Threads : Sound(stack[t], virtualFlag[t])

-----------------------------------------------------------------------------
(* What a call, a return and a change of the innermost call do to a stack *)

LEMMA FrameTypes ==
    /\ \A k \in {"virtual", "marshal", "user", "base", "helper"},
          o \in CallObjects \cup {Nobody}, m \in Methods : Frame(k, o, m) \in Frames
    /\ \A q \in BOOLEAN : Cpp(q) \in Frames
BY DEF Frames, Frame, Cpp, Methods

LEMMA Innermost ==
    ASSUME NEW s \in Seq(Frames), s # <<>>
    PROVE  /\ Len(s) \in Nat \ {0} /\ s[Len(s)] \in Frames
           /\ DOMAIN s = 1..Len(s)
OBVIOUS

\* an innermost call of the binding itself means that the flag is off
LEMMA QoreWithoutFlag ==
    ASSUME NEW s \in Seq(Frames), s = <<>> \/ s[Len(s)].kind \in QoreKinds
    PROVE  ~FlagHeld(s)
<1>1. CASE s = <<>>
  BY <1>1 DEF FlagHeld
<1>2. CASE s # <<>> /\ s[Len(s)].kind \in QoreKinds
  <2>1. Len(s) \in Nat \ {0}
    BY <1>2
  <2>. QED  BY <1>2, <2>1 DEF FlagHeld, QoreKinds
<1>. QED  BY <1>1, <1>2

LEMMA PushSound ==
    ASSUME NEW s \in Seq(Frames), NEW f \in Frames, NEW flag \in BOOLEAN,
           NEW new \in BOOLEAN, Sound(s, flag), ~f.quiet,
           new => f.kind = "helper" \/ (flag /\ f.kind \notin QoreKinds \cup {"helper"}),
           \/ s = <<>>
           \/ ~(Overrides(s[Len(s)]) /\ SameMethod(s[Len(s)], f))
           \/ f.kind = "helper"
    PROVE  Sound(Append(s, f), new)
<1>. DEFINE r == Append(s, f)
<1>1. /\ Len(s) \in Nat /\ Len(r) = Len(s) + 1 /\ r[Len(s) + 1] = f
      /\ \A i \in 1..Len(s) : r[i] = s[i]
  OBVIOUS
<1>2. s # <<>> => Len(s) \in 1..Len(s)
  BY Innermost
<1>. HIDE DEF r
<1>3. new => FlagHeld(r)
  <2>1. ASSUME new, f.kind = "helper" PROVE FlagHeld(r)
    BY <1>1, <2>1 DEF FlagHeld
  <2>2. ASSUME flag, f.kind \notin QoreKinds \cup {"helper"} PROVE FlagHeld(r)
    <3>1. PICK i \in 1..Len(s) :
            /\ s[i].kind = "helper"
            /\ \A j \in i+1 .. Len(s) : s[j].kind \notin QoreKinds \cup {"helper"}
      BY <2>2 DEF Sound, FlagHeld
    <3>2. \A j \in i+1 .. Len(r) : r[j].kind \notin QoreKinds \cup {"helper"}
      BY <1>1, <2>2, <3>1
    <3>. QED  BY <1>1, <3>1, <3>2 DEF FlagHeld
  <2>. QED  BY <2>1, <2>2
<1>4. QuietOwned(r)
  <2>1. ASSUME NEW j \in 1..Len(r), r[j].quiet PROVE HelperBelow(r, j)
    <3>1. j \in 1..Len(s) /\ s[j].quiet
      BY <1>1, <2>1
    <3>2. HelperBelow(s, j)
      BY <3>1 DEF Sound, QuietOwned
    <3>. QED  BY <1>1, <3>1, <3>2 DEF HelperBelow
  <2>. QED  BY <2>1 DEF QuietOwned
<1>5. ReachesBase(r)
  <2>1. ASSUME NEW j \in 1 .. Len(r) - 1, Overrides(r[j]), SameMethod(r[j], r[j+1])
        PROVE  r[j+1].kind = "helper"
    <3>1. j \in 1..Len(s) /\ r[j] = s[j]
      BY <1>1
    <3>2. CASE j = Len(s)
      <4>1. s # <<>>
        BY <3>1, <3>2
      <4>. QED  BY <1>1, <2>1, <3>1, <3>2, <4>1
    <3>3. CASE j # Len(s)
      <4>1. j \in 1 .. Len(s) - 1 /\ r[j+1] = s[j+1]
        BY <1>1, <3>1, <3>3
      <4>. QED  BY <2>1, <3>1, <4>1 DEF Sound, ReachesBase
    <3>. QED  BY <3>2, <3>3
  <2>. QED  BY <2>1 DEF ReachesBase
<1>. QED  BY <1>3, <1>4, <1>5 DEF Sound, r

LEMMA PopSound ==
    ASSUME NEW s \in Seq(Frames), s # <<>>, NEW flag \in BOOLEAN, NEW new \in BOOLEAN,
           Sound(s, flag), new => flag /\ s[Len(s)].kind # "helper"
    PROVE  Sound(SubSeq(s, 1, Len(s) - 1), new)
<1>. DEFINE r == SubSeq(s, 1, Len(s) - 1)
<1>1. Len(s) \in Nat \ {0}
  BY Innermost
<1>2. \A i \in 1 .. Len(s) - 1 : s[i] \in Frames
  BY <1>1
<1>3. /\ Len(r) = IF 1 <= Len(s) - 1 THEN Len(s) - 1 - 1 + 1 ELSE 0
      /\ \A i \in 1 .. Len(s) - 1 - 1 + 1 : r[i] = s[1 + i - 1]
  BY <1>1, <1>2, SubSeqProperties
<1>. HIDE DEF r
<1>4. Len(r) = Len(s) - 1
  <2>1. Len(r) = IF 1 <= Len(s) - 1 THEN Len(s) - 1 - 1 + 1 ELSE 0
    BY <1>3
  <2>2. ASSUME NEW n \in Nat \ {0}
        PROVE  (IF 1 <= n - 1 THEN n - 1 - 1 + 1 ELSE 0) = n - 1
    BY SMT
  <2>. QED  BY <1>1, <2>1, <2>2
<1>5. Len(s) - 1 - 1 + 1 = Len(r)
  BY <1>1, <1>4
<1>6. ASSUME NEW i \in 1..Len(r) PROVE r[i] = s[i]
  <2>1. 1 + i - 1 = i
    OBVIOUS
  <2>. QED  BY <1>3, <1>5, <2>1
<1>7. Len(r) = Len(s) - 1 /\ \A i \in 1..Len(r) : r[i] = s[i]
  BY <1>4, <1>6
<1>8. new => FlagHeld(r)
  <2>1. ASSUME new PROVE FlagHeld(r)
    <3>1. PICK i \in 1..Len(s) :
            /\ s[i].kind = "helper"
            /\ \A j \in i+1 .. Len(s) : s[j].kind \notin QoreKinds \cup {"helper"}
      BY <2>1 DEF Sound, FlagHeld
    <3>2. i \in 1..Len(r)
      BY <1>1, <1>7, <2>1, <3>1
    <3>. QED  BY <1>1, <1>7, <3>1, <3>2 DEF FlagHeld
  <2>. QED  BY <2>1
<1>9. QuietOwned(r)
  <2>1. ASSUME NEW j \in 1..Len(r), r[j].quiet PROVE HelperBelow(r, j)
    <3>1. j \in 1..Len(s) /\ s[j].quiet
      BY <1>1, <1>7, <2>1
    <3>2. HelperBelow(s, j)
      BY <3>1 DEF Sound, QuietOwned
    <3>. QED  BY <1>1, <1>7, <3>2 DEF HelperBelow
  <2>. QED  BY <2>1 DEF QuietOwned
<1>10. ReachesBase(r)
  BY <1>1, <1>7 DEF Sound, ReachesBase
<1>. QED  BY <1>8, <1>9, <1>10 DEF Sound, r

\* the innermost call goes on as another one of the same method, or in C++
LEMMA ReplaceSound ==
    ASSUME NEW s \in Seq(Frames), s # <<>>, NEW f \in Frames, NEW flag \in BOOLEAN,
           Sound(s, flag), s[Len(s)].kind # "helper",
           f.quiet => HelperBelow(s, Len(s)),
           \/ f.obj = Nobody
           \/ f.obj = s[Len(s)].obj /\ f.meth = s[Len(s)].meth
    PROVE  Sound([s EXCEPT ![Len(s)] = f], FALSE)
<1>. DEFINE r == [s EXCEPT ![Len(s)] = f]
<1>1. Len(s) \in Nat \ {0}
  BY Innermost
<1>2. /\ Len(r) = Len(s) /\ r[Len(s)] = f
      /\ \A i \in 1 .. Len(s) - 1 : r[i] = s[i]
  BY <1>1
<1>. HIDE DEF r
<1>3. QuietOwned(r)
  <2>1. ASSUME NEW j \in 1..Len(r), r[j].quiet PROVE HelperBelow(r, j)
    <3>1. HelperBelow(s, j)
      BY <1>1, <1>2, <2>1 DEF Sound, QuietOwned
    <3>. QED  BY <1>1, <1>2, <3>1 DEF HelperBelow
  <2>. QED  BY <2>1 DEF QuietOwned
<1>4. ReachesBase(r)
  <2>1. ASSUME NEW j \in 1 .. Len(r) - 1, Overrides(r[j]), SameMethod(r[j], r[j+1])
        PROVE  r[j+1].kind = "helper"
    <3>1. j \in 1 .. Len(s) - 1 /\ r[j] = s[j]
      BY <1>1, <1>2
    <3>2. CASE j + 1 = Len(s)
      <4>1. f.obj # Nobody
        BY <1>2, <2>1, <3>1, <3>2, DispatchAssumption DEF Overrides, SameMethod
      <4>2. SameMethod(s[j], s[j+1])
        BY <1>2, <2>1, <3>1, <3>2, <4>1 DEF SameMethod
      <4>3. s[j+1].kind = "helper"
        BY <2>1, <3>1, <4>2 DEF Sound, ReachesBase
      <4>. QED  BY <3>2, <4>3
    <3>3. CASE j + 1 # Len(s)
      <4>1. r[j+1] = s[j+1]
        BY <1>1, <1>2, <3>1, <3>3
      <4>. QED  BY <2>1, <3>1, <4>1 DEF Sound, ReachesBase
    <3>. QED  BY <3>2, <3>3
  <2>. QED  BY <2>1 DEF ReachesBase
<1>. QED  BY <1>3, <1>4 DEF Sound, r

-----------------------------------------------------------------------------
(* The steps *)

\* a step that changes the stack and the flag of one thread
LEMMA ThreadStep ==
    ASSUME DispatchInv, NEW t \in Threads, NEW s \in Seq(Frames), NEW flag \in BOOLEAN,
           stack' = [stack EXCEPT ![t] = s],
           virtualFlag' = [virtualFlag EXCEPT ![t] = flag],
           Sound(s, flag), wrapped' \subseteq CallObjects,
           answer' \in [meth : Methods, result : {"none", "defined", "undefined"}],
           dispatchFault' \in {"none", "abstract"}
    PROVE  DispatchInv'
<1>1. stack' \in [Threads -> Seq(Frames)] /\ virtualFlag' \in [Threads -> BOOLEAN]
  BY DEF DispatchInv, DispatchTypeOK
<1>2. \A u \in Threads : Sound(stack'[u], virtualFlag'[u])
  BY DEF DispatchInv, DispatchTypeOK
<1>. QED  BY <1>1, <1>2 DEF DispatchInv, DispatchTypeOK

\* the facts about a running thread that its steps start from
LEMMA RunningThread ==
    ASSUME DispatchInv, NEW t \in Threads
    PROVE  /\ stack[t] \in Seq(Frames) /\ virtualFlag[t] \in BOOLEAN
           /\ virtualFlag = [virtualFlag EXCEPT ![t] = virtualFlag[t]]
           /\ Sound(stack[t], virtualFlag[t])
           /\ At(t) # "idle" => stack[t] # <<>>
           /\ stack[t] # <<>> => /\ Top(t) = stack[t][Len(stack[t])]
                                 /\ At(t) = Top(t).kind /\ Top(t) \in Frames
           /\ At(t) \in {"idle", "user", "marshal"} => virtualFlag[t] = FALSE
           /\ wrapped \subseteq CallObjects
           /\ answer \in [meth : Methods, result : {"none", "defined", "undefined"}]
           /\ dispatchFault \in {"none", "abstract"}
<1>1. stack[t] \in Seq(Frames) /\ virtualFlag[t] \in BOOLEAN
  BY DEF DispatchInv, DispatchTypeOK
<1>2. /\ At(t) # "idle" => stack[t] # <<>>
      /\ stack[t] # <<>> => /\ Top(t) = stack[t][Len(stack[t])]
                            /\ At(t) = Top(t).kind /\ Top(t) \in Frames
  BY <1>1, Innermost DEF At, Top
<1>3. ASSUME At(t) \in {"idle", "user", "marshal"} PROVE virtualFlag[t] = FALSE
  <2>1. stack[t] = <<>> \/ Top(t).kind \in QoreKinds
    <3>1. CASE stack[t] # <<>>
      <4>1. Top(t).kind # "idle"
        BY <1>2, <3>1 DEF Frames
      <4>. QED  BY <1>2, <1>3, <3>1, <4>1 DEF QoreKinds
    <3>. QED  BY <3>1
  <2>2. ~FlagHeld(stack[t])
    BY <1>1, <2>1, QoreWithoutFlag DEF Top
  <2>. QED  BY <1>1, <2>2 DEF DispatchInv, Sound
<1>. QED  BY <1>1, <1>2, <1>3 DEF DispatchInv, DispatchTypeOK

LEMMA PushStep ==
    ASSUME DispatchInv, NEW t \in Threads, NEW f \in Frames, NEW flag \in BOOLEAN,
           Push(t, f), virtualFlag' = [virtualFlag EXCEPT ![t] = flag], ~f.quiet,
           \/ flag /\ f.kind = "helper"
           \/ flag = virtualFlag[t] /\ f.kind \in {"virtual", "base"},
           \/ f.kind = "helper"
           \/ At(t) # "user"
           \/ ~(Overrides(Top(t)) /\ SameMethod(Top(t), f)),
           UNCHANGED <<wrapped, answer, dispatchFault>>
    PROVE  DispatchInv'
<1>1. /\ stack[t] \in Seq(Frames) /\ Sound(stack[t], virtualFlag[t])
      /\ virtualFlag[t] \in BOOLEAN
      /\ stack[t] # <<>> => Top(t) = stack[t][Len(stack[t])] /\ At(t) = Top(t).kind
  BY RunningThread
<1>2. Append(stack[t], f) \in Seq(Frames)
  BY <1>1
<1>3. \/ stack[t] = <<>>
      \/ ~(Overrides(stack[t][Len(stack[t])]) /\ SameMethod(stack[t][Len(stack[t])], f))
      \/ f.kind = "helper"
  BY <1>1 DEF Overrides
<1>4. Sound(Append(stack[t], f), flag)
  BY <1>1, <1>3, PushSound DEF QoreKinds
<1>5. stack' = [stack EXCEPT ![t] = Append(stack[t], f)]
  BY DEF Push
<1>6. /\ flag \in BOOLEAN /\ wrapped' \subseteq CallObjects
      /\ answer' \in [meth : Methods, result : {"none", "defined", "undefined"}]
      /\ dispatchFault' \in {"none", "abstract"}
  BY RunningThread
<1>. QED  BY <1>2, <1>4, <1>5, <1>6, ThreadStep

LEMMA PopStep ==
    ASSUME DispatchInv, NEW t \in Threads, NEW flag \in BOOLEAN, At(t) # "idle", Pop(t),
           virtualFlag' = [virtualFlag EXCEPT ![t] = flag],
           flag => virtualFlag[t] /\ At(t) # "helper",
           answer' \in [meth : Methods, result : {"none", "defined", "undefined"}],
           dispatchFault' = dispatchFault, wrapped' = wrapped
    PROVE  DispatchInv'
<1>. DEFINE s == stack[t]
<1>1. /\ s \in Seq(Frames) /\ s # <<>> /\ Sound(s, virtualFlag[t])
      /\ virtualFlag[t] \in BOOLEAN /\ At(t) = s[Len(s)].kind
  BY RunningThread
<1>2. Sound(SubSeq(s, 1, Len(s) - 1), flag)
  BY <1>1, PopSound
<1>3. SubSeq(s, 1, Len(s) - 1) \in Seq(Frames)
  <2>1. Len(s) \in Nat \ {0}
    BY <1>1, Innermost
  <2>2. \A i \in 1 .. Len(s) - 1 : s[i] \in Frames
    BY <1>1, <2>1
  <2>. QED  BY <2>1, <2>2
<1>4. stack' = [stack EXCEPT ![t] = SubSeq(s, 1, Len(s) - 1)]
  BY DEF Pop
<1>5. wrapped' \subseteq CallObjects /\ dispatchFault' \in {"none", "abstract"}
  BY RunningThread
<1>. QED  BY <1>2, <1>3, <1>4, <1>5, ThreadStep

LEMMA ReplaceStep ==
    ASSUME DispatchInv, NEW t \in Threads, NEW f \in Frames,
           At(t) \in {"virtual", "marshal", "user"}, Replace(t, f),
           virtualFlag' = [virtualFlag EXCEPT ![t] = FALSE],
           f.quiet => HelperBelow(stack[t], Len(stack[t])),
           f.obj = Nobody \/ (f.obj = Top(t).obj /\ f.meth = Top(t).meth),
           answer' = answer, dispatchFault' = dispatchFault, wrapped' = wrapped
    PROVE  DispatchInv'
<1>. DEFINE s == stack[t]
<1>1. /\ s \in Seq(Frames) /\ s # <<>> /\ Sound(s, virtualFlag[t])
      /\ virtualFlag[t] \in BOOLEAN /\ At(t) = s[Len(s)].kind /\ Top(t) = s[Len(s)]
  BY RunningThread
<1>2. Sound([s EXCEPT ![Len(s)] = f], FALSE)
  BY <1>1, ReplaceSound
<1>3. [s EXCEPT ![Len(s)] = f] \in Seq(Frames)
  BY <1>1
<1>4. stack' = [stack EXCEPT ![t] = [s EXCEPT ![Len(s)] = f]]
  BY DEF Replace
<1>. QED  BY <1>2, <1>3, <1>4, RunningThread, ThreadStep

LEMMA AnswerType ==
    ASSUME NEW t, Top(t) \in Frames, NEW r \in {"defined", "undefined"}, Answer(t, r)
    PROVE  answer' \in [meth : Methods, result : {"none", "defined", "undefined"}]
BY DEF Answer, Frames

\* callMethod() comes back: the C++ implementation goes on, or the pure virtual method
\* returns what is in x[0]
LEMMA ReturnFalseStep ==
    ASSUME DispatchInv, NEW t \in Threads, NEW quiet \in BOOLEAN,
           At(t) \in {"virtual", "marshal", "user"}, ReturnFalse(t, quiet),
           virtualFlag' = [virtualFlag EXCEPT ![t] = FALSE],
           quiet => HelperBelow(stack[t], Len(stack[t])),
           dispatchFault' = dispatchFault, wrapped' = wrapped
    PROVE  DispatchInv'
<1>1. CASE Pop(t) /\ Answer(t, "undefined")
  <2>1. Top(t) \in Frames
    BY RunningThread
  <2>. QED  BY <1>1, <2>1, AnswerType, PopStep
<1>2. CASE Replace(t, Cpp(quiet)) /\ UNCHANGED answer
  <2>1. Cpp(quiet) \in Frames
    BY FrameTypes
  <2>. QED  BY <1>2, <2>1, ReplaceStep DEF Cpp
<1>. QED  BY <1>1, <1>2 DEF ReturnFalse

LEMMA ReturnErrorStep ==
    ASSUME DispatchInv, NEW t \in Threads, At(t) \in {"virtual", "marshal", "user"},
           ReturnError(t), ~virtualFlag[t],
           UNCHANGED <<virtualFlag, wrapped, dispatchFault>>
    PROVE  DispatchInv'
<1>1. virtualFlag' = [virtualFlag EXCEPT ![t] = FALSE]
  BY RunningThread
<1>2. ReturnFalse(t, FALSE)
  BY DEF ReturnError, ReturnFalse
<1>. QED  BY <1>1, <1>2, ReturnFalseStep

LEMMA SwallowStep ==
    ASSUME DispatchInv, NEW t \in Threads, SwallowVirtual(t)
    PROVE  DispatchInv'
<1>. DEFINE s == stack[t]
<1>1. /\ At(t) = "virtual" /\ virtualFlag[t] /\ ReturnFalse(t, TRUE)
      /\ virtualFlag' = [virtualFlag EXCEPT ![t] = FALSE]
      /\ UNCHANGED <<wrapped, dispatchFault>>
  BY DEF SwallowVirtual, Running
<1>2. s \in Seq(Frames) /\ s # <<>> /\ s[Len(s)].kind = "virtual" /\ FlagHeld(s)
  BY <1>1, RunningThread DEF Sound
<1>3. HelperBelow(s, Len(s))
  <2>1. PICK i \in 1..Len(s) :
          /\ s[i].kind = "helper"
          /\ \A j \in i+1 .. Len(s) : s[j].kind \notin QoreKinds \cup {"helper"}
    BY <1>2 DEF FlagHeld
  <2>2. Len(s) \in Nat /\ i # Len(s)
    BY <1>2, <2>1
  <2>. QED  BY <2>1, <2>2 DEF HelperBelow
<1>. QED  BY <1>1, <1>3, ReturnFalseStep

LEMMA NoQoreObjectStep ==
    ASSUME DispatchInv, NEW t \in Threads, NoQoreObject(t)
    PROVE  DispatchInv'
<1>1. /\ At(t) = "virtual" /\ ~virtualFlag[t] /\ UNCHANGED <<virtualFlag, wrapped>>
      /\ \/ dispatchFault' = "abstract" /\ UNCHANGED <<stack, answer>>
         \/ ReturnFalse(t, FALSE) /\ UNCHANGED dispatchFault
  BY DEF NoQoreObject, Running
<1>2. virtualFlag' = [virtualFlag EXCEPT ![t] = FALSE]
  BY <1>1, RunningThread
<1>3. CASE dispatchFault' = "abstract" /\ UNCHANGED <<stack, answer>>
  BY <1>1, <1>3 DEF DispatchInv, DispatchTypeOK
<1>. QED  BY <1>1, <1>2, <1>3, ReturnFalseStep

LEMMA FindVariantStep ==
    ASSUME DispatchInv, NEW t \in Threads, FindVariant(t)
    PROVE  DispatchInv'
<1>. DEFINE f == [Top(t) EXCEPT !.kind = "marshal"]
<1>1. /\ At(t) = "virtual" /\ ~virtualFlag[t]
      /\ UNCHANGED <<virtualFlag, wrapped, dispatchFault>>
      /\ \/ Replace(t, f) /\ UNCHANGED answer
         \/ ReturnError(t)
  BY DEF FindVariant, Running
<1>2. CASE Replace(t, f) /\ UNCHANGED answer
  <2>1. /\ Top(t) \in Frames /\ stack[t] \in Seq(Frames) /\ stack[t] # <<>>
        /\ Top(t) = stack[t][Len(stack[t])]
        /\ Sound(stack[t], virtualFlag[t])
        /\ virtualFlag' = [virtualFlag EXCEPT ![t] = FALSE]
    BY <1>1, RunningThread
  <2>2. f \in Frames /\ f.obj = Top(t).obj /\ f.meth = Top(t).meth /\ f.quiet = Top(t).quiet
    BY <2>1 DEF Frames
  <2>3. f.quiet => HelperBelow(stack[t], Len(stack[t]))
    BY <2>1, <2>2, Innermost DEF Sound, QuietOwned
  <2>. HIDE DEF f
  <2>. QED  BY <1>1, <1>2, <2>1, <2>2, <2>3, ReplaceStep
<1>. QED  BY <1>1, <1>2, ReturnErrorStep

LEMMA RunVariantStep ==
    ASSUME DispatchInv, NEW t \in Threads, RunVariant(t)
    PROVE  DispatchInv'
<1>. DEFINE f == [Top(t) EXCEPT !.kind = "user"]
<1>1. /\ At(t) = "marshal" /\ Replace(t, f)
      /\ UNCHANGED <<virtualFlag, wrapped, answer, dispatchFault>>
  BY DEF RunVariant, Running
<1>2. /\ Top(t) \in Frames /\ stack[t] \in Seq(Frames) /\ stack[t] # <<>>
      /\ Top(t) = stack[t][Len(stack[t])]
      /\ Sound(stack[t], virtualFlag[t])
      /\ virtualFlag' = [virtualFlag EXCEPT ![t] = FALSE]
  BY <1>1, RunningThread
<1>3. f \in Frames /\ f.obj = Top(t).obj /\ f.meth = Top(t).meth /\ f.quiet = Top(t).quiet
  BY <1>2 DEF Frames
<1>4. f.quiet => HelperBelow(stack[t], Len(stack[t]))
  BY <1>2, <1>3, Innermost DEF Sound, QuietOwned
<1>. HIDE DEF f
<1>. QED  BY <1>1, <1>2, <1>3, <1>4, ReplaceStep

LEMMA ErrorSteps ==
    ASSUME DispatchInv, NEW t \in Threads, BadArguments(t) \/ BadResult(t)
    PROVE  DispatchInv'
<1>1. /\ At(t) \in {"marshal", "user"} /\ ReturnError(t)
      /\ UNCHANGED <<virtualFlag, wrapped, dispatchFault>>
  BY DEF BadArguments, BadResult, Running
<1>2. ~virtualFlag[t]
  BY <1>1, RunningThread
<1>. QED  BY <1>1, <1>2, ReturnErrorStep

LEMMA ReturnSteps ==
    ASSUME DispatchInv, NEW t \in Threads, UserReturns(t) \/ BaseReturns(t)
    PROVE  DispatchInv'
<1>1. /\ At(t) \in {"user", "base"} /\ Pop(t) /\ Answer(t, "defined")
      /\ UNCHANGED <<virtualFlag, wrapped, dispatchFault>>
  BY DEF UserReturns, BaseReturns, Running
<1>2. Top(t) \in Frames /\ virtualFlag[t] \in BOOLEAN
      /\ virtualFlag' = [virtualFlag EXCEPT ![t] = virtualFlag[t]]
  BY <1>1, RunningThread
<1>. QED  BY <1>1, <1>2, AnswerType, PopStep

LEMMA VirtualCallStep ==
    ASSUME DispatchInv, NEW t \in Threads, NEW o \in CallObjects, NEW m \in Methods,
           VirtualCall(t, o, m)
    PROVE  DispatchInv'
<1>1. PICK f \in Frames : /\ f.kind \in {"virtual", "base"} /\ ~f.quiet /\ Push(t, f)
  <2>1. Frame("virtual", o, m) \in Frames /\ Cpp(FALSE) \in Frames
    BY FrameTypes
  <2>. QED  BY <2>1 DEF VirtualCall, Frame, Cpp
<1>2. /\ At(t) # "user" /\ UNCHANGED <<wrapped, answer, dispatchFault>>
      /\ virtualFlag[t] \in BOOLEAN
      /\ virtualFlag' = [virtualFlag EXCEPT ![t] = virtualFlag[t]]
  BY RunningThread DEF VirtualCall, InQt, Running
<1>. QED  BY <1>1, <1>2, PushStep

\* A Qore override that calls its own method: Class::method() is called by its name.
LEMMA QoreCallsStep ==
    ASSUME DispatchInv, NEW t \in Threads, NEW o \in CallObjects, NEW m \in Methods,
           QoreCalls(t, o, m)
    PROVE  DispatchInv'
<1>. DEFINE f == IF DynamicDispatch(o, m) /\ o \in Generated
                 THEN Frame("virtual", o, m) ELSE Cpp(FALSE)
<1>1. /\ Push(t, f) /\ UNCHANGED <<wrapped, answer, dispatchFault>>
      /\ virtualFlag[t] \in BOOLEAN
      /\ virtualFlag' = [virtualFlag EXCEPT ![t] = virtualFlag[t]]
  BY RunningThread DEF QoreCalls
<1>2. f \in Frames /\ f.kind \in {"virtual", "base"} /\ ~f.quiet
  BY FrameTypes DEF Frame, Cpp
<1>3. ~(Overrides(Top(t)) /\ SameMethod(Top(t), f))
  BY DispatchAssumption DEF Overrides, SameMethod, Frame, Cpp, DynamicDispatch
<1>. HIDE DEF f
<1>. QED  BY <1>1, <1>2, <1>3, PushStep

LEMMA HelperSteps ==
    ASSUME DispatchInv, NEW t \in Threads,
           HelperEnds(t) \/ \E o \in CallObjects : HelperBegins(t, o)
    PROVE  DispatchInv'
<1>1. CASE HelperEnds(t)
  <2>1. /\ At(t) = "helper" /\ Pop(t) /\ UNCHANGED <<wrapped, answer, dispatchFault>>
        /\ virtualFlag' = [virtualFlag EXCEPT ![t] = FALSE]
    BY <1>1 DEF HelperEnds, Running, ClearFlag
  <2>. QED  BY <2>1, RunningThread, PopStep
<1>2. ASSUME NEW o \in CallObjects, HelperBegins(t, o) PROVE DispatchInv'
  <2>1. At(t) \in {"idle", "user", "marshal"}
    BY <1>2 DEF HelperBegins, Running
  <2>2. ~virtualFlag[t]
    BY <2>1, RunningThread
  <2>3. /\ virtualFlag' = [virtualFlag EXCEPT ![t] = TRUE]
        /\ Push(t, Frame("helper", o, "plain"))
        /\ UNCHANGED <<wrapped, answer, dispatchFault>>
    BY <1>2, <2>2 DEF HelperBegins
  <2>4. Frame("helper", o, "plain") \in Frames
    BY FrameTypes DEF Methods
  <2>. QED  BY <2>3, <2>4, PushStep DEF Frame
<1>. QED  BY <1>1, <1>2

LEMMA InitDispatch == DispatchInit => DispatchInv
<1>. SUFFICES ASSUME DispatchInit PROVE DispatchInv
  OBVIOUS
<1>1. DispatchTypeOK
  BY DEF DispatchInit, DispatchTypeOK, NoAnswer, Methods
<1>2. Sound(<<>>, FALSE)
  BY DEF Sound, FlagHeld, QuietOwned, ReachesBase
<1>. QED  BY <1>1, <1>2 DEF DispatchInit, DispatchInv

LEMMA StepDispatch == DispatchInv /\ [DispatchNext]_dispatchVars => DispatchInv'
<1>. SUFFICES ASSUME DispatchInv, [DispatchNext]_dispatchVars PROVE DispatchInv'
  OBVIOUS
<1>1. ASSUME NEW t \in Threads, NEW o \in CallObjects, MapChanges(t, o)
      PROVE  DispatchInv'
  BY <1>1 DEF MapChanges, DispatchInv, DispatchTypeOK
<1>2. CASE UNCHANGED dispatchVars
  BY <1>2 DEF dispatchVars, DispatchInv, DispatchTypeOK
<1>. QED
  BY <1>1, <1>2, VirtualCallStep, QoreCallsStep, HelperSteps, SwallowStep,
     NoQoreObjectStep, FindVariantStep, ErrorSteps, RunVariantStep, ReturnSteps
     DEF DispatchNext

LEMMA DispatchInvariant == DispatchSpec => []DispatchInv
BY InitDispatch, StepDispatch, PTL DEF DispatchSpec

-----------------------------------------------------------------------------
\* The stacks of calls, the flags and the answers of virtual calls keep their types.
THEOREM DispatchTyped == DispatchSpec => []DispatchTypeOK
<1>1. DispatchInv => DispatchTypeOK
  BY DEF DispatchInv
<1>. QED  BY <1>1, DispatchInvariant, PTL

\* The virtual flag of a thread is on only while a helper's Qt call has not come back to
\* Qore code, so assert(!qore_qt_virtual_flag) holds, and an override of Qore code is
\* passed over only inside such a call: for any threads, objects and nesting of calls.
THEOREM FlagAlwaysOwned == DispatchSpec => []FlagOwned
<1>1. DispatchInv => FlagOwned
  <2>. SUFFICES ASSUME DispatchInv PROVE FlagOwned
    OBVIOUS
  <2>1. ASSUME NEW t \in Threads
        PROVE  stack[t] \in Seq(Frames) /\ DOMAIN stack[t] = 1..Len(stack[t])
    BY DEF DispatchInv, DispatchTypeOK
  <2>2. ASSUME NEW t \in Threads, virtualFlag[t]
        PROVE  \E i \in DOMAIN stack[t] :
                   /\ InnermostHelper(t, i)
                   /\ \A j \in i+1 .. Len(stack[t]) :
                         stack[t][j].kind \notin {"user", "marshal"}
    <3>1. FlagHeld(stack[t])
      BY <2>2 DEF DispatchInv, Sound
    <3>. QED  BY <2>1, <3>1 DEF FlagHeld, InnermostHelper, QoreKinds
  <2>3. ASSUME NEW t \in Threads, NEW j \in DOMAIN stack[t], stack[t][j].quiet
        PROVE  \E i \in 1 .. j-1 :
                   /\ stack[t][i].kind = "helper"
                   /\ \A k \in i+1 .. j-1 : stack[t][k].kind \notin {"user", "marshal"}
    <3>1. HelperBelow(stack[t], j)
      BY <2>1, <2>3 DEF DispatchInv, Sound, QuietOwned
    <3>. QED  BY <3>1 DEF HelperBelow, QoreKinds
  <2>. QED  BY <2>2, <2>3 DEF FlagOwned, DispatchInv
<1>. QED  BY <1>1, DispatchInvariant, PTL

\* However deep calls between Qt and Qore nest, a Qore override of an object with the mark
\* that calls its own method reaches the C++ implementation and not itself.
THEOREM BaseAlwaysReached == DispatchSpec => []BaseCallReachesBase
<1>1. DispatchInv => BaseCallReachesBase
  BY DEF DispatchInv, Sound, ReachesBase, Overrides, SameMethod, BaseCallReachesBase
<1>. QED  BY <1>1, DispatchInvariant, PTL

-----------------------------------------------------------------------------
(* Models written in Qore *)

\* What an index points to is kept by the set of the model or for ever, and is still
\* the value the index was made for.
IndexKept == \A x \in indexes :
    x.ptr \in nodeSet \cup leaked /\ value[x.ptr] = x.val

ModelInv == ModelTypeOK /\ KeptAlive /\ IndexKept /\ PointerFaithful

LEMMA IndexFields ==
    ASSUME ModelTypeOK, NEW x \in indexes
    PROVE  x.ptr \in Addresses /\ x.val \in 1..MaxValues
BY DEF ModelTypeOK

LEMMA InitModel == ModelInit => ModelInv
BY IndexesAssumption
   DEF ModelInit, ModelInv, ModelTypeOK, KeptAlive, IndexKept, PointerFaithful,
       Referenced, Nothing, NoValue

\* a value made at an address that nobody refers to: no index leads there
LEMMA NewValueInv ==
    ASSUME ModelInv, NEW n \in Addresses, NewValue(n)
    PROVE  ModelInv'
<1>. USE DEF ModelInv
<1>1. /\ n \notin Referenced /\ values < MaxValues
      /\ values' = values + 1 /\ value' = [value EXCEPT ![n] = values + 1]
      /\ inUse' = inUse \cup {n}
      /\ UNCHANGED <<nodeSet, leaked, wrapper, indexes, found, modelFault>>
  BY DEF NewValue
<1>2. values + 1 \in 1..MaxValues
  BY <1>1, IndexesAssumption DEF ModelTypeOK
<1>3. ModelTypeOK'
  BY <1>1, <1>2 DEF ModelTypeOK
<1>4. KeptAlive'
  BY <1>1, <1>2 DEF KeptAlive, Referenced, NoValue, ModelTypeOK
<1>5. IndexKept'
  BY <1>1, IndexFields DEF IndexKept, Referenced, ModelTypeOK
<1>6. PointerFaithful'
  BY <1>1 DEF PointerFaithful
<1>. QED  BY <1>3, <1>4, <1>5, <1>6

\* the last reference: what an index leads to has another one
LEMMA DropValueInv ==
    ASSUME ModelInv, NEW n \in Addresses, DropValue(n)
    PROVE  ModelInv'
<1>. USE DEF ModelInv
<1>1. /\ n \in inUse /\ inUse' = inUse \ {n}
      /\ value' = IF n \in nodeSet \cup leaked THEN value
                  ELSE [value EXCEPT ![n] = NoValue]
      /\ UNCHANGED <<values, nodeSet, leaked, wrapper, indexes, found, modelFault>>
  BY DEF DropValue, SetReferences
<1>2. ModelTypeOK'
  BY <1>1, IndexesAssumption DEF ModelTypeOK, NoValue
<1>3. KeptAlive'
  BY <1>1 DEF KeptAlive, Referenced, ModelTypeOK
<1>4. IndexKept'
  BY <1>1, IndexFields DEF IndexKept, ModelTypeOK
<1>5. PointerFaithful'
  BY <1>1 DEF PointerFaithful
<1>. QED  BY <1>2, <1>3, <1>4, <1>5

LEMMA CreateIndexInv ==
    ASSUME ModelInv, NEW n \in Addresses, CreateIndex(n)
    PROVE  ModelInv'
<1>. USE DEF ModelInv
<1>1. /\ n \in inUse /\ nodeSet' = nodeSet \cup {n}
      /\ indexes' = indexes \cup {[ptr |-> n, val |-> value[n]]}
      /\ UNCHANGED <<value, values, inUse, leaked, wrapper, found, modelFault>>
  BY DEF CreateIndex, StoreIndex
<1>2. value[n] \in 1..MaxValues
  BY <1>1, IndexesAssumption DEF KeptAlive, Referenced, ModelTypeOK, NoValue
<1>3. ModelTypeOK'
  BY <1>1, <1>2 DEF ModelTypeOK
<1>4. KeptAlive' /\ IndexKept' /\ PointerFaithful'
  BY <1>1 DEF KeptAlive, Referenced, IndexKept, PointerFaithful
<1>. QED  BY <1>3, <1>4

LEMMA InternalPointerInv ==
    ASSUME ModelInv, NEW x \in indexes, InternalPointer(x)
    PROVE  ModelInv'
<1>. USE DEF ModelInv
<1>1. /\ UNCHANGED <<value, values, nodeSet, leaked, wrapper, indexes>>
      /\ \/ /\ found' = [val |-> x.val, got |-> NoValue]
            /\ UNCHANGED <<inUse, modelFault>>
         \/ /\ x.ptr \in nodeSet /\ inUse' = inUse \cup {x.ptr}
            /\ found' = [val |-> x.val, got |-> value[x.ptr]]
            /\ UNCHANGED modelFault
         \/ modelFault' = "cast" /\ UNCHANGED <<found, inUse>>
  BY DEF InternalPointer, ModelTypeOK
<1>2. x.ptr \in Addresses /\ x.val \in 1..MaxValues /\ value[x.ptr] = x.val
  BY IndexFields DEF IndexKept
<1>3. ModelTypeOK'
  BY <1>1, <1>2, IndexesAssumption DEF ModelTypeOK, NoValue
<1>4. KeptAlive' /\ IndexKept'
  BY <1>1 DEF KeptAlive, Referenced, IndexKept
<1>5. PointerFaithful'
  BY <1>1, <1>2 DEF PointerFaithful
<1>. QED  BY <1>3, <1>4, <1>5

LEMMA WrapperDeletedInv ==
    ASSUME ModelInv, WrapperDeleted
    PROVE  ModelInv'
<1>1. /\ leaked' = leaked \cup nodeSet /\ nodeSet' = {} /\ wrapper' = "none"
      /\ UNCHANGED <<value, values, inUse, indexes, found, modelFault>>
  BY DEF WrapperDeleted, KeepForever
<1>. QED
  BY <1>1 DEF ModelInv, ModelTypeOK, KeptAlive, Referenced, IndexKept, PointerFaithful

LEMMA OthersInv ==
    ASSUME ModelInv,
           \/ \E k \in {"model", "plain"} : WrapperMade(k)
           \/ \E x \in indexes : IndexGone(x)
           \/ ViewReset
           \/ UNCHANGED modelVars
    PROVE  ModelInv'
<1>1. /\ indexes' \subseteq indexes
      /\ wrapper' \in {"none", "model", "plain"} /\ modelFault' \in {"none", "cast"}
      /\ UNCHANGED <<value, values, inUse, nodeSet, leaked, found>>
  BY DEF WrapperMade, IndexGone, ViewReset, modelVars, ModelInv, ModelTypeOK
<1>. QED
  BY <1>1 DEF ModelInv, ModelTypeOK, KeptAlive, Referenced, IndexKept, PointerFaithful

LEMMA StepModel == ModelInv /\ [ModelNext]_modelVars => ModelInv'
<1>. SUFFICES ASSUME ModelInv, [ModelNext]_modelVars PROVE ModelInv'
  OBVIOUS
<1>. QED  BY NewValueInv, DropValueInv, CreateIndexInv, InternalPointerInv,
             WrapperDeletedInv, OthersInv DEF ModelNext

LEMMA ModelInvariant == ModelSpec => []ModelInv
BY InitModel, StepModel, PTL DEF ModelSpec

-----------------------------------------------------------------------------
\* The variables of a model written in Qore keep their types.
THEOREM ModelTyped == ModelSpec => []ModelTypeOK
<1>1. ModelInv => ModelTypeOK
  BY DEF ModelInv
<1>. QED  BY <1>1, ModelInvariant, PTL

\* internalPointer() never gives the value that came to live at an address after the one
\* the index was made for: for any number of addresses that are used again, of values and
\* of wrappers that the model gets and loses.
THEOREM PointersFaithful == ModelSpec => []PointerFaithful
<1>1. ModelInv => PointerFaithful
  BY DEF ModelInv
<1>. QED  BY <1>1, ModelInvariant, PTL

\* A value lives exactly as long as somebody refers to it: Qore code, the set of the model,
\* or the references that went with a deleted wrapper.
THEOREM ReferencedAlive == ModelSpec => []KeptAlive
<1>1. ModelInv => KeptAlive
  BY DEF ModelInv
<1>. QED  BY <1>1, ModelInvariant, PTL

-----------------------------------------------------------------------------
(* Timers that fire once *)

Call == [timer : Timers, pc : {"emit", "slot", "delete"}]

-----------------------------------------------------------------------------
(* The stack of calls of timerEvent() *)

\* the innermost call, and what the three steps of timerEvent() do to the stack
LEMMA InnerCall ==
    ASSUME loop \in Seq(Call), loop # <<>>
    PROVE  /\ Len(loop) \in Nat \ {0} /\ Len(loop) \in DOMAIN loop
           /\ DOMAIN loop = 1..Len(loop)
           /\ Inner = loop[Len(loop)] /\ Inner \in Call
           /\ Inner.timer \in Timers
<1>1. /\ Len(loop) \in Nat \ {0} /\ Len(loop) \in DOMAIN loop
      /\ DOMAIN loop = 1..Len(loop) /\ loop[Len(loop)] \in Call
  OBVIOUS
<1>. QED  BY <1>1 DEF Inner, Call

LEMMA MovesInner ==
    ASSUME loop \in Seq(Call), loop # <<>>,
           NEW pc \in {"emit", "slot", "delete"}, MoveTo(pc)
    PROVE  /\ loop' \in Seq(Call) /\ Len(loop') = Len(loop)
           /\ DOMAIN loop' = DOMAIN loop
           /\ \A i \in DOMAIN loop :
                 /\ loop'[i].timer = loop[i].timer
                 /\ loop'[i].pc = IF i = Len(loop) THEN pc ELSE loop[i].pc
<1>1. loop[Len(loop)] \in Call
  BY InnerCall
<1>2. [loop[Len(loop)] EXCEPT !.pc = pc] \in Call
  BY <1>1 DEF Call
<1>3. loop' = [loop EXCEPT ![Len(loop)] = [loop[Len(loop)] EXCEPT !.pc = pc]]
  BY DEF MoveTo
<1>4. loop' \in Seq(Call) /\ Len(loop') = Len(loop) /\ DOMAIN loop' = DOMAIN loop
  BY <1>2, <1>3, InnerCall
<1>5. ASSUME NEW i \in DOMAIN loop
      PROVE  /\ loop'[i].timer = loop[i].timer
             /\ loop'[i].pc = IF i = Len(loop) THEN pc ELSE loop[i].pc
  <2>1. loop[i] \in Call
    OBVIOUS
  <2>. QED  BY <1>1, <1>3, <2>1, InnerCall DEF Call
<1>. QED  BY <1>4, <1>5

LEMMA CallsEvent ==
    ASSUME loop \in Seq(Call), NEW s \in Timers,
           loop' = Append(loop, [timer |-> s, pc |-> "emit"])
    PROVE  /\ loop' \in Seq(Call) /\ Len(loop) \in Nat
           /\ Len(loop') = Len(loop) + 1
           /\ DOMAIN loop = 1..Len(loop) /\ DOMAIN loop' = 1..(Len(loop) + 1)
           /\ loop'[Len(loop) + 1] = [timer |-> s, pc |-> "emit"]
           /\ \A i \in 1..Len(loop) : loop'[i] = loop[i]
<1>1. [timer |-> s, pc |-> "emit"] \in Call
  BY DEF Call
<1>. QED  BY <1>1

LEMMA LeavesEvent ==
    ASSUME loop \in Seq(Call), loop # <<>>,
           loop' = SubSeq(loop, 1, Len(loop) - 1)
    PROVE  /\ loop' \in Seq(Call)
           /\ Len(loop') = Len(loop) - 1
           /\ DOMAIN loop' = 1..(Len(loop) - 1)
           /\ DOMAIN loop' = DOMAIN loop \ {Len(loop)}
           /\ \A i \in DOMAIN loop' : loop'[i] = loop[i]
<1>1. Len(loop) \in Nat \ {0} /\ DOMAIN loop = 1..Len(loop)
  BY InnerCall
<1>2. \A i \in 1..(Len(loop) - 1) : loop[i] \in Call
  BY <1>1
<1>3. Len(loop') = Len(loop) - 1
  BY <1>1
<1>4. loop' \in Seq(Call) /\ DOMAIN loop' = 1..(Len(loop) - 1)
  BY <1>1, <1>2, <1>3
<1>. QED  BY <1>1, <1>3, <1>4

-----------------------------------------------------------------------------
(* The invariant *)

\* a timer that has not fired has no call of timerEvent() and its slot was not called
Unfired == \A s \in Timers :
    timer[s] \in {"unused", "armed"} =>
        calls[s] = 0 /\ \A i \in DOMAIN loop : loop[i].timer # s
\* no two calls of timerEvent() are of one timer
OneEvent == \A i, j \in DOMAIN loop : loop[i].timer = loop[j].timer => i = j
\* timeout() has been emitted at most once, and not before the slot is called
NotYetEmitted == \A i \in DOMAIN loop : loop[i].pc = "emit" => calls[loop[i].timer] = 0
CalledOnce == \A s \in Timers : calls[s] <= 1
\* a timer that was killed is in timerEvent(), and one that is freed there was freed by
\* its slot
StoppedRuns == \A s \in Timers :
    timer[s] = "stopped" => \E i \in DOMAIN loop : loop[i].timer = s
FreedBySlot == \A i \in DOMAIN loop :
    timer[loop[i].timer] = "freed" => loop[i].timer \in deleted
FaultAfterDelete == timerFault # "none" => deleted # {}

TimerInv == /\ TimerTypeOK
            /\ Unfired /\ OneEvent /\ NotYetEmitted /\ CalledOnce
            /\ StoppedRuns /\ FreedBySlot /\ FaultAfterDelete

LEMMA LoopType == TimerTypeOK => loop \in Seq(Call)
BY DEF TimerTypeOK, Call

LEMMA EventTimer ==
    ASSUME TimerTypeOK, NEW i \in DOMAIN loop
    PROVE  loop[i].timer \in Timers
<1>1. loop[i] \in Call
  BY LoopType
<1>. QED  BY <1>1 DEF Call

LEMMA InitTimer == TimerInit => TimerInv
<1>. SUFFICES ASSUME TimerInit PROVE TimerInv
  OBVIOUS
<1>1. TimerTypeOK
  BY DEF TimerInit, TimerTypeOK
<1>. QED
  BY <1>1 DEF TimerInit, TimerInv, Unfired, OneEvent, NotYetEmitted, CalledOnce,
              StoppedRuns, FreedBySlot, FaultAfterDelete

LEMMA StartsInv ==
    ASSUME TimerInv, NEW s \in Timers, StartTimer(s) \/ RefuseSlot(s)
    PROVE  TimerInv'
<1>. USE DEF TimerInv
<1>1. PICK state \in {"armed", "freed"} :
         /\ timer[s] = "unused" /\ timer' = [timer EXCEPT ![s] = state]
         /\ UNCHANGED <<receiver, alive, loop, calls, deleted, timerFault>>
  BY DEF StartTimer, RefuseSlot, Becomes, Dereferenced
<1>2. TimerTypeOK'
  BY <1>1 DEF TimerTypeOK
<1>3. \A i \in DOMAIN loop : loop[i].timer # s
  BY <1>1 DEF Unfired
<1>4. Unfired' /\ OneEvent' /\ NotYetEmitted' /\ CalledOnce'
  BY <1>1 DEF Unfired, OneEvent, NotYetEmitted, CalledOnce, TimerTypeOK
<1>5. StoppedRuns' /\ FreedBySlot' /\ FaultAfterDelete'
  BY <1>1, <1>3 DEF StoppedRuns, FreedBySlot, FaultAfterDelete, TimerTypeOK
<1>. QED  BY <1>2, <1>4, <1>5

LEMMA TimerEventInv ==
    ASSUME TimerInv, NEW s \in Timers, TimerEvent(s)
    PROVE  TimerInv'
<1>. USE DEF TimerInv
<1>1. /\ timer[s] = "armed" /\ timer' = [timer EXCEPT ![s] = "stopped"]
      /\ loop' = Append(loop, [timer |-> s, pc |-> "emit"])
      /\ UNCHANGED <<receiver, alive, calls, deleted, timerFault>>
  BY DEF TimerEvent, KillTimer, Becomes
<1>2. /\ loop' \in Seq(Call) /\ Len(loop) \in Nat
      /\ DOMAIN loop = 1..Len(loop) /\ DOMAIN loop' = 1..(Len(loop) + 1)
      /\ loop'[Len(loop) + 1] = [timer |-> s, pc |-> "emit"]
      /\ \A i \in 1..Len(loop) : loop'[i] = loop[i]
  BY <1>1, LoopType, CallsEvent
<1>3. TimerTypeOK'
  BY <1>1, <1>2 DEF TimerTypeOK, Call
<1>4. calls[s] = 0 /\ \A i \in DOMAIN loop : loop[i].timer # s
  BY <1>1 DEF Unfired
<1>5. Unfired'
  BY <1>1, <1>2 DEF Unfired, TimerTypeOK
<1>6. OneEvent' /\ NotYetEmitted' /\ CalledOnce'
  BY <1>1, <1>2, <1>4 DEF OneEvent, NotYetEmitted, CalledOnce
<1>7. StoppedRuns'
  <2>1. Len(loop) + 1 \in DOMAIN loop'
    BY <1>2
  <2>. QED  BY <1>1, <1>2, <2>1 DEF StoppedRuns, TimerTypeOK
<1>8. FreedBySlot' /\ FaultAfterDelete'
  BY <1>1, <1>2, <1>4 DEF FreedBySlot, FaultAfterDelete, TimerTypeOK
<1>. QED  BY <1>3, <1>5, <1>6, <1>7, <1>8

LEMMA EmitTimeoutInv ==
    ASSUME TimerInv, EmitTimeout
    PROVE  TimerInv'
<1>. USE DEF TimerInv
<1>. DEFINE s == Inner.timer
<1>1. loop # <<>> /\ Inner.pc = "emit" /\ UNCHANGED <<timer, receiver, alive, deleted, timerFault>>
  BY DEF EmitTimeout, AtPc
<1>2. /\ Len(loop) \in DOMAIN loop /\ s = loop[Len(loop)].timer /\ s \in Timers
      /\ loop[Len(loop)].pc = "emit" /\ calls[s] = 0
  BY <1>1, LoopType, InnerCall DEF NotYetEmitted
<1>3. PICK pc \in {"slot", "delete"} :
         MoveTo(pc) /\ (calls' = calls \/ calls' = [calls EXCEPT ![s] = calls[s] + 1])
  BY DEF EmitTimeout
<1>4. /\ loop' \in Seq(Call) /\ DOMAIN loop' = DOMAIN loop
      /\ \A i \in DOMAIN loop :
            /\ loop'[i].timer = loop[i].timer
            /\ loop'[i].pc = IF i = Len(loop) THEN pc ELSE loop[i].pc
  BY <1>1, <1>3, LoopType, MovesInner
<1>5. /\ calls' \in [Timers -> Nat] /\ calls'[s] <= 1
      /\ \A r \in Timers : r # s => calls'[r] = calls[r]
  BY <1>2, <1>3 DEF TimerTypeOK
<1>6. TimerTypeOK'
  BY <1>1, <1>4, <1>5 DEF TimerTypeOK, Call
<1>7. Unfired'
  BY <1>1, <1>2, <1>4, <1>5 DEF Unfired
<1>8. OneEvent'
  BY <1>4 DEF OneEvent
<1>9. NotYetEmitted'
  <2>1. ASSUME NEW i \in DOMAIN loop, loop'[i].pc = "emit"
        PROVE  calls'[loop[i].timer] = 0
    <3>1. i # Len(loop) /\ loop[i].pc = "emit"
      BY <1>4, <2>1
    <3>2. loop[i].timer # s
      BY <1>2, <3>1 DEF OneEvent
    <3>. QED  BY <1>5, <3>1, <3>2, EventTimer DEF NotYetEmitted
  <2>. QED  BY <1>4, <2>1 DEF NotYetEmitted
<1>10. CalledOnce'
  BY <1>5 DEF CalledOnce
<1>11. StoppedRuns' /\ FreedBySlot' /\ FaultAfterDelete'
  BY <1>1, <1>4 DEF StoppedRuns, FreedBySlot, FaultAfterDelete
<1>. QED  BY <1>6, <1>7, <1>8, <1>9, <1>10, <1>11

LEMMA SlotReturnsInv ==
    ASSUME TimerInv, SlotReturns
    PROVE  TimerInv'
<1>. USE DEF TimerInv
<1>1. /\ loop # <<>> /\ MoveTo("delete")
      /\ UNCHANGED <<timer, receiver, alive, calls, deleted, timerFault>>
  BY DEF SlotReturns, AtPc
<1>2. /\ loop' \in Seq(Call) /\ DOMAIN loop' = DOMAIN loop
      /\ \A i \in DOMAIN loop :
            /\ loop'[i].timer = loop[i].timer
            /\ loop'[i].pc = IF i = Len(loop) THEN "delete" ELSE loop[i].pc
  BY <1>1, LoopType, MovesInner
<1>3. TimerTypeOK'
  BY <1>1, <1>2 DEF TimerTypeOK, Call
<1>4. Unfired' /\ OneEvent' /\ NotYetEmitted' /\ CalledOnce'
  BY <1>1, <1>2 DEF Unfired, OneEvent, NotYetEmitted, CalledOnce
<1>5. StoppedRuns' /\ FreedBySlot' /\ FaultAfterDelete'
  BY <1>1, <1>2 DEF StoppedRuns, FreedBySlot, FaultAfterDelete
<1>. QED  BY <1>3, <1>4, <1>5

LEMMA DeleteTimerInv ==
    ASSUME TimerInv, DeleteTimer
    PROVE  TimerInv'
<1>. USE DEF TimerInv
<1>. DEFINE s == Inner.timer
<1>1. /\ loop # <<>> /\ loop' = SubSeq(loop, 1, Len(loop) - 1)
      /\ UNCHANGED <<receiver, alive, calls, deleted>>
      /\ \/ timer[s] = "freed" /\ timer' = timer /\ timerFault' = "freed"
         \/ timer' = [timer EXCEPT ![s] = "freed"] /\ timerFault' = timerFault
  BY DEF DeleteTimer, AtPc, DoDelete, Becomes
<1>2. Len(loop) \in DOMAIN loop /\ s = loop[Len(loop)].timer /\ s \in Timers
  BY <1>1, LoopType, InnerCall
<1>3. /\ loop' \in Seq(Call) /\ DOMAIN loop' = DOMAIN loop \ {Len(loop)}
      /\ \A i \in DOMAIN loop' : loop'[i] = loop[i]
  BY <1>1, LoopType, LeavesEvent
<1>4. /\ timer' \in [Timers -> {"unused", "armed", "stopped", "freed"}]
      /\ timer'[s] = "freed" /\ \A r \in Timers : r # s => timer'[r] = timer[r]
  BY <1>1, <1>2 DEF TimerTypeOK
<1>5. \A i \in DOMAIN loop' : loop[i].timer # s /\ loop[i].timer \in Timers
  <2>1. ASSUME NEW i \in DOMAIN loop' PROVE loop[i].timer # s /\ loop[i].timer \in Timers
    <3>1. i \in DOMAIN loop /\ i # Len(loop)
      BY <1>3, <2>1
    <3>2. loop[i].timer # s
      BY <1>2, <3>1 DEF OneEvent
    <3>. QED  BY <3>1, <3>2, EventTimer
  <2>. QED  BY <2>1
<1>6. TimerTypeOK'
  BY <1>1, <1>3, <1>4 DEF TimerTypeOK, Call
<1>7. Unfired'
  BY <1>1, <1>3, <1>4 DEF Unfired
<1>8. OneEvent' /\ NotYetEmitted' /\ CalledOnce'
  BY <1>1, <1>3 DEF OneEvent, NotYetEmitted, CalledOnce
<1>9. StoppedRuns'
  <2>1. ASSUME NEW r \in Timers, timer'[r] = "stopped"
        PROVE  \E i \in DOMAIN loop' : loop'[i].timer = r
    <3>1. r # s /\ timer[r] = "stopped"
      BY <1>4, <2>1
    <3>2. PICK i \in DOMAIN loop : loop[i].timer = r
      BY <3>1 DEF StoppedRuns
    <3>3. i \in DOMAIN loop'
      BY <1>2, <1>3, <3>1, <3>2
    <3>. QED  BY <1>3, <3>2, <3>3
  <2>. QED  BY <2>1 DEF StoppedRuns
<1>10. FreedBySlot'
  BY <1>1, <1>3, <1>4, <1>5 DEF FreedBySlot
<1>11. FaultAfterDelete'
  BY <1>1, <1>2 DEF FaultAfterDelete, FreedBySlot
<1>. QED  BY <1>6, <1>7, <1>8, <1>9, <1>10, <1>11

LEMMA DeleteSenderInv ==
    ASSUME TimerInv, DeleteSender
    PROVE  TimerInv'
<1>. USE DEF TimerInv
<1>. DEFINE s == Inner.timer
<1>1. /\ loop # <<>> /\ timer' = [timer EXCEPT ![s] = "freed"] /\ deleted' = deleted \cup {s}
      /\ UNCHANGED <<receiver, alive, loop, calls, timerFault>>
  BY DEF DeleteSender, AtPc, Becomes
<1>2. s \in Timers
  BY <1>1, LoopType, InnerCall
<1>3. TimerTypeOK'
  BY <1>1, <1>2 DEF TimerTypeOK
<1>4. Unfired' /\ OneEvent' /\ NotYetEmitted' /\ CalledOnce'
  BY <1>1, <1>2 DEF Unfired, OneEvent, NotYetEmitted, CalledOnce, TimerTypeOK
<1>5. StoppedRuns' /\ FreedBySlot' /\ FaultAfterDelete'
  BY <1>1, <1>2 DEF StoppedRuns, FreedBySlot, FaultAfterDelete, TimerTypeOK
<1>. QED  BY <1>3, <1>4, <1>5

LEMMA StepTimer == TimerInv /\ [TimerNext]_timerVars => TimerInv'
<1>. SUFFICES ASSUME TimerInv, [TimerNext]_timerVars PROVE TimerInv'
  OBVIOUS
<1>1. ASSUME NEW r \in Receivers, DeleteReceiver(r) PROVE TimerInv'
  BY <1>1 DEF DeleteReceiver, TimerInv, TimerTypeOK, Unfired, OneEvent, NotYetEmitted,
              CalledOnce, StoppedRuns, FreedBySlot, FaultAfterDelete
<1>2. CASE UNCHANGED timerVars
  BY <1>2 DEF timerVars, TimerInv, TimerTypeOK, Unfired, OneEvent, NotYetEmitted,
              CalledOnce, StoppedRuns, FreedBySlot, FaultAfterDelete
<1>. QED  BY <1>1, <1>2, StartsInv, TimerEventInv, EmitTimeoutInv, SlotReturnsInv,
             DeleteTimerInv, DeleteSenderInv DEF TimerNext

LEMMA TimerInvariant == TimerSpec => []TimerInv
BY InitTimer, StepTimer, PTL DEF TimerSpec

-----------------------------------------------------------------------------
\* The variables of a program with single-shot timers keep their types.
THEOREM TimersTyped == TimerSpec => []TimerTypeOK
<1>1. TimerInv => TimerTypeOK
  BY DEF TimerInv
<1>. QED  BY <1>1, TimerInvariant, PTL

\* "need to kill the timer _before_ we emit timeout()": however many timers a program
\* starts and however deep slots nest event loops, no slot is called twice and no
\* timerEvent() runs inside another one of the same timer.
THEOREM SlotCalledOnce == TimerSpec => []FiresOnce
<1>1. TimerInv => FiresOnce
  <2>. SUFFICES ASSUME TimerInv, NEW s \in Timers
                PROVE  calls[s] <= 1 /\ Cardinality(EventsOf(s)) <= 1
    BY DEF FiresOnce
  <2>1. calls[s] <= 1
    BY DEF TimerInv, CalledOnce
  <2>2. EventsOf(s) = {} \/ \E i : EventsOf(s) = {i}
    BY DEF TimerInv, OneEvent, EventsOf
  <2>3. Cardinality(EventsOf(s)) \in {0, 1}
    BY <2>2, FS_EmptySet, FS_Singleton
  <2>. QED  BY <2>1, <2>3
<1>. QED  BY <1>1, TimerInvariant, PTL

\* A program only uses a freed timer after one of its slots deleted the sender, and what
\* is neither armed nor in timerEvent() has been freed: for any number of timers, also
\* for those whose slot could not be connected.
THEOREM TimersFreed == TimerSpec => []FreedOnce
<1>1. TimerInv => FreedOnce
  BY DEF TimerInv, FreedOnce, FaultAfterDelete, StoppedRuns, EventsOf
<1>. QED  BY <1>1, TimerInvariant, PTL

-----------------------------------------------------------------------------
(* The four parts *)

PartsInv == DispatchInv /\ CallInv /\ ModelInv /\ TimerInv

LEMMA InitParts == Init => PartsInv
BY InitDispatch, InitCall, InitModel, InitTimer DEF Init, PartsInv

\* a step of one part leaves the state of the others alone
LEMMA StepParts == PartsInv /\ [Next]_vars => PartsInv'
<1>. SUFFICES ASSUME PartsInv, [Next]_vars PROVE PartsInv'
  OBVIOUS
<1>1. /\ [DispatchNext]_dispatchVars /\ [CallNext]_callVars
      /\ [ModelNext]_modelVars /\ [TimerNext]_timerVars
  BY DEF Next, vars
<1>. QED  BY <1>1, StepDispatch, StepCall, StepModel, StepTimer DEF PartsInv

LEMMA PartsInvariant == Spec => []PartsInv
BY InitParts, StepParts, PTL DEF Spec

\* The state of callMethod(), of CommonQoreMethod, of a model written in Qore and of the
\* single-shot timers keeps its types, for any threads, objects, arguments, values and
\* timers.
THEOREM PartsTyped == Spec => []PartsTypeOK
<1>1. PartsInv => PartsTypeOK
  BY DEF PartsInv, PartsTypeOK, DispatchInv, CallInv, ModelInv, TimerInv
<1>. QED  BY <1>1, PartsInvariant, PTL
=============================================================================
