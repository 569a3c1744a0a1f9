-------------------------- MODULE LoneProgramProofs --------------------------
(***************************************************************************)
(* The programs in which the map can be trusted (LoneProgram): one thread, *)
(* every Qt object made from Qore, and no constructor that raises an       *)
(* exception.  TLC finds the map unsound as soon as one of the three is    *)
(* given up; code of the program may run in constructors and destructors,  *)
(* to any depth.                                                           *)
(*                                                                         *)
(* The invariant (LoneInv) describes the stack of the one thread and what  *)
(* its calls rely on.  Frames are named by their height above the bottom   *)
(* of the stack, which the calls above them do not change.  StackInv says  *)
(* which call stands on which (Fitted), and that nothing of importance     *)
(* comes between a destructor of Qt and its caller (DestroyLast); DataInv  *)
(* says that what is pointed to lives or is having its callback run        *)
(* (PointerOk), that data taken off an object is in the hands of exactly   *)
(* one call (LooseOk, RestOk), and that map, objects and windows agree.    *)
(*                                                                         *)
(* A step replaces the top of the stack (Rebuilt).  Fits and Keeps say     *)
(* what it may put there and what it may do to the data; that such a step  *)
(* (Moves) keeps the invariant is proved once, and of each action only     *)
(* that it is one.  Most actions are calm: they leave the pointers alone.  *)
(*                                                                         *)
(* The last part adds what keeps an object from being deleted twice        *)
(* (OnceInv), for programs whose destructors leave other objects alone     *)
(* (MutedProgram), in the same way: Plants says what a step may put on the *)
(* stack, that such a step keeps the invariant is proved once (OnceKept).  *)
(***************************************************************************)
EXTENDS WrapperReferencesProofs

\* one thread; every Qt object is made by the program, and no constructor
\* written in Qore throws
LoneProgram == Thread = {GuiThread} /\ QtMakes = FALSE /\ MayThrow = FALSE

-----------------------------------------------------------------------------
(* The stack by height *)

Tower == stack[GuiThread]
Heights(s) == 0 .. Len(s) - 1
At(s, h) == s[Len(s) - h]

\* everything from the height b on is replaced by fs, first one on top
Grows(s, r, b, fs) ==
    /\ Len(r) = b + Len(fs)
    /\ \A h \in 0 .. b - 1 : At(r, h) = At(s, h)
    /\ \A j \in 1 .. Len(fs) : At(r, b + Len(fs) - j) = fs[j]

Rebuilt(b, fs) ==
    /\ Tower \in Seq(Frame) /\ Tower' \in Seq(Frame)
    /\ b \in 0 .. Len(Tower) /\ b >= Len(Tower) - 1
    /\ fs \in Seq(Frame)
    /\ Grows(Tower, Tower', b, fs)

LEMMA ReplacesGrows ==
    ASSUME TypeOK, TypeOK', NEW m \in 0..1, NEW fs \in Seq(Frame),
           m <= Len(Tower), Replaces(GuiThread, m, fs)
    PROVE  Rebuilt(Len(Tower) - m, fs)
<1>. DEFINE s == Tower
            r == Tower'
            b == Len(Tower) - m
<1>1. s \in Seq(Frame) /\ r \in Seq(Frame) /\ Len(s) \in Nat /\ Len(fs) \in Nat
  BY ThreadAssumption DEF TypeOK, Tower
<1>2. /\ Len(r) = Len(fs) + Len(s) - m
      /\ \A i \in 1..Len(fs) : r[i] = fs[i]
      /\ \A i \in 1 .. Len(s) - m : r[Len(fs) + i] = s[m + i]
  BY DEF Replaces, Tower
<1>3. b \in 0..Len(s) /\ b >= Len(s) - 1 /\ Len(r) = b + Len(fs) /\ b = Len(s) - m
  BY <1>1, <1>2
<1>. HIDE DEF s, r, b
<1>4. ASSUME NEW h \in 0 .. b - 1 PROVE At(r, h) = At(s, h)
  <2>1. Len(s) - m - h \in 1 .. Len(s) - m
    BY <1>1, <1>3
  <2>2. r[Len(fs) + (Len(s) - m - h)] = s[m + (Len(s) - m - h)]
    BY <1>2, <2>1
  <2>3. Len(fs) + (Len(s) - m - h) = Len(r) - h /\ m + (Len(s) - m - h) = Len(s) - h
    BY <1>1, <1>3
  <2>. QED  BY <2>2, <2>3 DEF At
<1>5. ASSUME NEW j \in 1 .. Len(fs) PROVE At(r, b + Len(fs) - j) = fs[j]
  <2>1. Len(r) - (b + Len(fs) - j) = j
    BY <1>1, <1>3
  <2>. QED  BY <1>2, <2>1 DEF At
<1>6. Grows(s, r, b, fs)
  BY <1>3, <1>4, <1>5 DEF Grows
<1>. QED  BY <1>1, <1>3, <1>6 DEF Rebuilt, s, r, b

LEMMA CallsRebuild ==
    ASSUME TypeOK, TypeOK', NEW fs \in Seq(Frame), Tower # <<>>, Calls(GuiThread, fs)
    PROVE  Rebuilt(Len(Tower) - 1, fs) /\ Len(Tower) >= 1
<1>1. Tower \in Seq(Frame) /\ Len(Tower) \in Nat /\ Len(Tower) >= 1
  BY ThreadAssumption DEF TypeOK, Tower
<1>2. Replaces(GuiThread, 1, fs) /\ 1 \in 0..1
  BY ThreadAssumption, CallsReplaces DEF Tower
<1>. QED  BY <1>1, <1>2, ReplacesGrows

LEMMA EnterRebuilds ==
    ASSUME TypeOK, TypeOK', NEW fs \in Seq(Frame), Enter(GuiThread, fs)
    PROVE  Rebuilt(Len(Tower), fs)
<1>1. Tower \in Seq(Frame) /\ Len(Tower) \in Nat /\ Len(Tower) >= 0
  BY ThreadAssumption DEF TypeOK, Tower
<1>2. Replaces(GuiThread, 0, fs) /\ 0 \in 0..1
  BY ThreadAssumption, EnterReplaces DEF Tower
<1>3. Rebuilt(Len(Tower) - 0, fs)
  BY <1>1, <1>2, ReplacesGrows
<1>4. Len(Tower) - 0 = Len(Tower)
  BY <1>1
<1>. QED  BY <1>3, <1>4

\* the frames of the new stack are old ones below b and new ones from b on
LEMMA NewFrames ==
    ASSUME NEW b, NEW fs, Rebuilt(b, fs), NEW h \in Heights(Tower')
    PROVE  \/ h \in 0 .. b - 1 /\ h \in Heights(Tower) /\ At(Tower', h) = At(Tower, h)
           \/ \E j \in 1 .. Len(fs) : h = b + Len(fs) - j /\ At(Tower', h) = fs[j]
<1>1. /\ Len(Tower) \in Nat /\ Len(fs) \in Nat /\ b \in Nat /\ Len(Tower') = b + Len(fs)
      /\ b <= Len(Tower)
  BY DEF Rebuilt, Grows
<1>2. h \in Nat /\ h < b + Len(fs)
  BY <1>1 DEF Heights
<1>3. CASE h < b
  BY <1>1, <1>2, <1>3 DEF Rebuilt, Grows, Heights
<1>4. CASE h >= b
  <2>1. b + Len(fs) - h \in 1 .. Len(fs) /\ h = b + Len(fs) - (b + Len(fs) - h)
    BY <1>1, <1>2, <1>4
  <2>2. At(Tower', b + Len(fs) - (b + Len(fs) - h)) = fs[b + Len(fs) - h]
    BY <2>1 DEF Rebuilt, Grows
  <2>. QED  BY <2>1, <2>2
<1>. QED  BY <1>2, <1>3, <1>4, <1>1

LEMMA OldFrames ==
    ASSUME NEW b, NEW fs, Rebuilt(b, fs), NEW h \in 0 .. b - 1
    PROVE  h \in Heights(Tower) /\ h \in Heights(Tower') /\ At(Tower', h) = At(Tower, h)
<1>1. /\ Len(Tower) \in Nat /\ Len(fs) \in Nat /\ b \in Nat /\ Len(Tower') = b + Len(fs)
      /\ b <= Len(Tower)
  BY DEF Rebuilt, Grows
<1>. QED  BY <1>1 DEF Rebuilt, Grows, Heights

\* the calls of common_destructor that have taken w off its key
RestFrames(a, w) == {f \in Frame : f.op \in RestOps /\ f.a = a /\ f.w = w}

LEMMA FrameAt ==
    ASSUME NEW s \in Seq(Frame), NEW h \in Heights(s)
    PROVE  /\ At(s, h) \in Frame
           /\ At(s, h).op \in WOps => At(s, h).w \in Wrap /\ At(s, h) = WFrame(At(s, h).op, At(s, h).w)
           /\ At(s, h).op \in AOps => At(s, h).a \in Addr /\ At(s, h) = AFrame(At(s, h).op, At(s, h).a)
           /\ At(s, h).op \in RestOps => /\ At(s, h).w \in Wrap /\ At(s, h).a \in Addr
                                          /\ At(s, h) \in RestFrames(At(s, h).a, At(s, h).w)
           /\ At(s, h).op = "deleteAll" => At(s, h).s \in SUBSET Addr
<1>1. Len(s) - h \in 1..Len(s)
  BY DEF Heights
<1>2. At(s, h) \in Frame
  BY <1>1 DEF At
<1>3. At(s, h).op \in RestOps => At(s, h).w \in Wrap /\ At(s, h).a \in Addr
  BY <1>2 DEF Frame, WOps, AOps, RestOps, RestDelOps, RestEndOps
<1>4. At(s, h).op \in RestOps => At(s, h) \in RestFrames(At(s, h).a, At(s, h).w)
  BY <1>2 DEF RestFrames
<1>5. At(s, h).op \notin RestOps =>
         /\ At(s, h).op \in WOps => At(s, h).w \in Wrap /\ At(s, h) = WFrame(At(s, h).op, At(s, h).w)
         /\ At(s, h).op \in AOps => At(s, h).a \in Addr /\ At(s, h) = AFrame(At(s, h).op, At(s, h).a)
         /\ At(s, h).op = "deleteAll" => At(s, h).s \in SUBSET Addr
  <2>1. \/ At(s, h) \in [op : AOps, a : Addr, w : {None}, s : {{}}]
        \/ At(s, h) \in [op : WOps, a : {None}, w : Wrap, s : {{}}]
        \/ At(s, h) \in [op : RestOps, a : Addr, w : Wrap, s : {{}}]
        \/ At(s, h) \in [op : {"deleteAll"}, a : {None}, w : {None}, s : SUBSET Addr]
    BY <1>2 DEF Frame
  <2>. QED  BY <2>1 DEF WOps, AOps, WFrame, AFrame
<1>6. /\ At(s, h).op \in WOps \cup AOps \cup {"deleteAll"} => At(s, h).op \notin RestOps
  BY DEF WOps, AOps, RestOps, RestDelOps, RestEndOps
<1>. QED  BY <1>2, <1>3, <1>4, <1>5, <1>6

-----------------------------------------------------------------------------
(* How calls stand on each other *)

HearOps == {"hold", "externalDelete", "externalDel", "externalEnd"}
CallbackOps == {"deleted"} \cup HearOps
TenseOps == RestOps \cup CallbackOps
GiveOps == {"returnDel", "returnEnd"}
\* a window in the hands of such a call has left the widget manager
ClearOps == RestDelOps \cup RestEndOps \cup GiveOps \cup {"externalDel", "externalEnd"}
SimpleOps == CallbackOps \cup GiveOps \cup
             {"mapMiss", "mapMissOwned", "mapMissCopy", "mapHit", "methodCall"}
LeafOps == SimpleOps \cup RestDelOps \cup RestEndOps
USE DEF RestOps, RestDelOps, RestEndOps, HearOps, CallbackOps, TenseOps, GiveOps,
        ClearOps, SimpleOps
MissOps == {"mapMiss", "mapMissOwned", "mapMissCopy"}
DropOps == {"objRefDrop", "deref"}
CallerOps == {"userDtor", "ctorBody", "qtFree"}

FitAt(s, h) ==
    /\ At(s, h).op \in LeafOps => h = Len(s) - 1
    /\ At(s, h).op = "userDtor" =>
           h >= 1 /\ At(s, h - 1) = WFrame("commonDtor", At(s, h).w)
    /\ At(s, h).op = "commonDtor" =>
           h >= 1 /\ At(s, h - 1) = WFrame("endDelete", At(s, h).w)
    /\ At(s, h).op \in RestOps =>
           h >= 2 /\ At(s, h - 1) = WFrame("pdDeref", At(s, h).w)
                  /\ At(s, h - 2) = WFrame("endDelete", At(s, h).w)
    /\ At(s, h).op = "deleteAll" => h >= 1 /\ At(s, h - 1).op = "dtorRest"
Fitted(s) == \A h \in Heights(s) : FitAt(s, h)

\* a destructor that has not ended keeps its wrapper from being used
EndsOk ==
    \A h \in Heights(Tower) :
        At(Tower, h).op = "endDelete" => wr[At(Tower, h).w].status # "ok"

\* nothing but the return of a reference comes between a destructor of Qt and
\* the call that asked for it
DestroyLast ==
    \A h \in Heights(Tower) : At(Tower, h).op = "qtDestroy" =>
        \/ h = Len(Tower) - 1
        \/ /\ h = Len(Tower) - 2 /\ At(Tower, h + 1).op \in DropOps
           /\ wr[At(Tower, h + 1).w].status # "ok"

\* what the call on top may rely on
TopOk(f) ==
    /\ f.op = "deleted" => Dying(f.a)
    /\ f.op \in HearOps => pd[f.w].obj # None /\ Dying(pd[f.w].obj)
    /\ f.op \in GiveOps => pd[f.w].obj # None /\ pd[f.w].attached
    /\ f.op \in ClearOps => qwm.done \/ pd[f.w].obj \notin qwm.set
    /\ f.op \in MissOps => Live(f.a) /\ map[f.a] = None
    /\ f.op = "mapHit" => wr[f.w].status # "free"
    /\ f.op = "methodCall" => pd[f.w].obj # None
SummitOk == Len(Tower) > 0 => TopOk(At(Tower, Len(Tower) - 1))

\* a wrapper with private data is in order until its destructor takes the data
Awake ==
    \A w \in Wrap : pd[w].attached =>
        \/ wr[w].status = "ok"
        \/ \E h \in Heights(Tower) : At(Tower, h) = WFrame("commonDtor", w)

StackInv == Fitted(Tower) /\ EndsOk /\ DestroyLast /\ SummitOk /\ Awake

\* What a step may put on the stack from the height b on: it covers only calls
\* that call,
Covers(b) == b = Len(Tower) /\ b > 0 => At(Tower, b - 1).op \in CallerOps
\* a call that returns a reference goes on with its destructor only if the
\* wrapper was in order
Drops(b, fs) ==
    b < Len(Tower) /\ At(Tower, b).op \in DropOps /\ Len(fs) > 0 =>
        \/ wr[At(Tower, b).w].status = "ok"
        \/ Len(fs) = 1 /\ fs[1].op \in DropOps /\ wr'[fs[1].w].status # "ok"
\* and the wrappers remain awake
Statuses(b, fs) ==
    \A w \in Wrap :
        /\ wr'[w].status = "ok" => wr[w].status \in {"ok", "free"}
        /\ pd'[w].attached =>
              \/ wr'[w].status = "ok"
              \/ pd[w].attached /\ wr[w].status # "ok"
                    /\ (b < Len(Tower) => At(Tower, b) # WFrame("commonDtor", w))
              \/ \E j \in 1..Len(fs) : fs[j] = WFrame("commonDtor", w)
Fits(b, fs) ==
    /\ Covers(b) /\ Drops(b, fs) /\ Statuses(b, fs)
    /\ \A j \in 1..Len(fs) :
          /\ FitAt(Tower', b + Len(fs) - j)
          /\ fs[j].op = "endDelete" => wr'[fs[j].w].status # "ok"
          /\ fs[j].op = "qtDestroy" =>
                \/ j = 1
                \/ j = 2 /\ fs[1].op \in DropOps /\ wr'[fs[1].w].status # "ok"
    /\ Len(fs) > 0 => TopOk(fs[1])'

LEMMA FittedKept ==
    ASSUME NEW b, NEW fs, Rebuilt(b, fs), Fits(b, fs), Fitted(Tower)
    PROVE  Fitted(Tower')
<1>. SUFFICES ASSUME NEW h \in Heights(Tower') PROVE FitAt(Tower', h)
  BY DEF Fitted
<1>1. /\ Len(Tower) \in Nat /\ Len(fs) \in Nat /\ b \in Nat /\ Len(Tower') = b + Len(fs)
      /\ b <= Len(Tower) /\ b >= Len(Tower) - 1 /\ h \in Nat
  BY DEF Rebuilt, Grows, Heights
<1>2. CASE \E j \in 1..Len(fs) : h = b + Len(fs) - j
  BY <1>2 DEF Fits
<1>3. CASE h \in 0 .. b - 1 /\ h \in Heights(Tower) /\ At(Tower', h) = At(Tower, h)
  <2>1. FitAt(Tower, h)
    BY <1>3 DEF Fitted
  <2>2. \A k \in 0 .. h : At(Tower', k) = At(Tower, k)
    BY <1>1, <1>3 DEF Rebuilt, Grows
  <2>3. At(Tower, h).op \in LeafOps => h = Len(Tower') - 1
    <3>1. SUFFICES ASSUME At(Tower, h).op \in LeafOps PROVE h = Len(Tower') - 1
      OBVIOUS
    <3>2. h = Len(Tower) - 1
      BY <2>1, <3>1 DEF FitAt
    <3>3. b = Len(Tower) /\ b > 0 /\ h = b - 1
      BY <1>1, <1>3, <3>2
    <3>. QED  BY <3>1, <3>3 DEF Fits, Covers, CallerOps, LeafOps
  <2>4. h >= 1 => At(Tower', h - 1) = At(Tower, h - 1)
    BY <1>1, <2>2
  <2>5. h >= 2 => At(Tower', h - 2) = At(Tower, h - 2)
    BY <1>1, <2>2
  <2>. QED  BY <1>1, <1>3, <2>1, <2>3, <2>4, <2>5 DEF FitAt
<1>. QED  BY <1>2, <1>3, NewFrames

LEMMA PlacedAt ==
    ASSUME TypeOK, NEW F, NEW h \in Int
    PROVE  <<GuiThread, h>> \in Places(F) <=> h \in Heights(Tower) /\ At(Tower, h) \in F
<1>1. stack \in [Thread -> Seq(Frame)] /\ GuiThread \in Thread
  BY ThreadAssumption DEF TypeOK
<1>. QED  BY <1>1, PlaceOf, PlacesNow DEF Heights, At, Tower

\* a wrapper that a destructor or a call in progress owns a reference to is not free
LEMMA OwedNotFree ==
    ASSUME TypeOK, RefsInv, NEW h \in Heights(Tower), NEW w \in Wrap,
           At(Tower, h) \in OwingFrames(w)
    PROVE  wr[w].status # "free"
<1>1. h \in Int
  BY DEF Heights, Tower, TypeOK
<1>2. <<GuiThread, h>> \in Places(OwingFrames(w))
  BY <1>1, PlacedAt
<1>. QED  BY <1>2, NobodyNow DEF NobodyRefersToFree

LEMMA EndsKept ==
    ASSUME TypeOK, RefsInv, NEW b, NEW fs, Rebuilt(b, fs), Fits(b, fs), EndsOk
    PROVE  EndsOk'
<1>. SUFFICES ASSUME NEW h \in Heights(Tower'), At(Tower', h).op = "endDelete"
              PROVE  wr'[At(Tower', h).w].status # "ok"
  BY DEF EndsOk
<1>1. CASE \E j \in 1..Len(fs) : h = b + Len(fs) - j /\ At(Tower', h) = fs[j]
  BY <1>1 DEF Fits
<1>2. CASE h \in 0 .. b - 1 /\ h \in Heights(Tower) /\ At(Tower', h) = At(Tower, h)
  <2>. DEFINE w == At(Tower, h).w
  <2>1. w \in Wrap /\ At(Tower, h) = WFrame("endDelete", w)
    BY <1>2, FrameAt DEF Rebuilt, WOps
  <2>2. wr[w].status # "ok"
    BY <1>2 DEF EndsOk
  <2>3. wr[w].status # "free"
    BY <1>2, <2>1, OwedNotFree DEF OwingFrames
  <2>. QED  BY <1>2, <2>1, <2>2, <2>3 DEF Fits, Covers, Drops, Statuses
<1>. QED  BY <1>1, <1>2, NewFrames

LEMMA DestroyKept ==
    ASSUME NEW b, NEW fs, Rebuilt(b, fs), Fits(b, fs), DestroyLast
    PROVE  DestroyLast'
<1>. SUFFICES ASSUME NEW h \in Heights(Tower'), At(Tower', h).op = "qtDestroy"
              PROVE  \/ h = Len(Tower') - 1
                     \/ /\ h = Len(Tower') - 2 /\ At(Tower', h + 1).op \in DropOps
                        /\ wr'[At(Tower', h + 1).w].status # "ok"
  BY DEF DestroyLast
<1>1. /\ Len(Tower) \in Nat /\ Len(fs) \in Nat /\ b \in Nat /\ Len(Tower') = b + Len(fs)
      /\ b <= Len(Tower) /\ b >= Len(Tower) - 1 /\ h \in Nat
  BY DEF Rebuilt, Grows, Heights
<1>2. ASSUME NEW j \in 1..Len(fs), h = b + Len(fs) - j, At(Tower', h) = fs[j]
      PROVE  \/ h = Len(Tower') - 1
             \/ /\ h = Len(Tower') - 2 /\ At(Tower', h + 1).op \in DropOps
                /\ wr'[At(Tower', h + 1).w].status # "ok"
  <2>1. \/ j = 1
        \/ j = 2 /\ fs[1].op \in DropOps /\ wr'[fs[1].w].status # "ok"
    BY <1>2 DEF Fits
  <2>2. CASE j = 1
    BY <1>1, <1>2, <2>2
  <2>3. CASE j = 2 /\ fs[1].op \in DropOps /\ wr'[fs[1].w].status # "ok"
    <3>1. 1 \in 1..Len(fs) /\ h + 1 = b + Len(fs) - 1 /\ h = Len(Tower') - 2
      BY <1>1, <1>2, <2>3
    <3>2. At(Tower', b + Len(fs) - 1) = fs[1]
      BY <3>1 DEF Rebuilt, Grows
    <3>. QED  BY <2>3, <3>1, <3>2
  <2>. QED  BY <2>1, <2>2, <2>3
<1>3. CASE h \in 0 .. b - 1 /\ h \in Heights(Tower) /\ At(Tower', h) = At(Tower, h)
  <2>1. \/ h = Len(Tower) - 1
        \/ /\ h = Len(Tower) - 2 /\ At(Tower, h + 1).op \in DropOps
           /\ wr[At(Tower, h + 1).w].status # "ok"
    BY <1>3 DEF DestroyLast
  <2>2. h # Len(Tower) - 1
    <3>1. SUFFICES ASSUME h = Len(Tower) - 1 PROVE FALSE
      OBVIOUS
    <3>2. b = Len(Tower) /\ b > 0 /\ h = b - 1
      BY <1>1, <1>3, <3>1
    <3>. QED  BY <1>3, <3>2 DEF Fits, Covers, CallerOps
  <2>3. h = Len(Tower) - 2 /\ h + 1 = Len(Tower) - 1 /\ At(Tower, Len(Tower) - 1).op \in DropOps
        /\ wr[At(Tower, Len(Tower) - 1).w].status # "ok"
    <3>1. h + 1 = Len(Tower) - 1 \/ h = Len(Tower) - 1
      BY <1>1, <2>1
    <3>. QED  BY <2>1, <2>2, <3>1
  <2>4. b = Len(Tower) - 1
    <3>1. SUFFICES ASSUME b = Len(Tower) PROVE FALSE
      BY <1>1
    <3>2. b > 0 /\ b - 1 = Len(Tower) - 1
      BY <1>1, <2>3, <3>1
    <3>3. At(Tower, b - 1).op \in CallerOps
      BY <3>1, <3>2 DEF Fits, Covers, Drops, Statuses
    <3>. QED  BY <2>3, <3>2, <3>3 DEF CallerOps, DropOps
  <2>5. b < Len(Tower) /\ At(Tower, b).op \in DropOps /\ wr[At(Tower, b).w].status # "ok"
    BY <1>1, <2>3, <2>4
  <2>6. CASE Len(fs) = 0
    BY <1>1, <2>3, <2>4, <2>6
  <2>7. CASE Len(fs) > 0
    <3>1. Len(fs) = 1 /\ fs[1].op \in DropOps /\ wr'[fs[1].w].status # "ok"
      BY <2>5, <2>7 DEF Fits, Covers, Drops, Statuses
    <3>2. At(Tower', b + Len(fs) - 1) = fs[1] /\ b + Len(fs) - 1 = h + 1 /\ h = Len(Tower') - 2
      BY <1>1, <2>3, <2>4, <3>1 DEF Rebuilt, Grows
    <3>. QED  BY <3>1, <3>2
  <2>. QED  BY <1>1, <2>6, <2>7
<1>. QED  BY <1>2, <1>3, NewFrames

LEMMA SummitKept ==
    ASSUME NEW b, NEW fs, Rebuilt(b, fs), Fits(b, fs), Fitted(Tower)
    PROVE  SummitOk'
<1>. SUFFICES ASSUME Len(Tower') > 0 PROVE TopOk(At(Tower, Len(Tower) - 1))'
  BY DEF SummitOk
<1>1. /\ Len(Tower) \in Nat /\ Len(fs) \in Nat /\ b \in Nat /\ Len(Tower') = b + Len(fs)
      /\ b <= Len(Tower) /\ b >= Len(Tower) - 1
  BY DEF Rebuilt, Grows
<1>2. CASE Len(fs) > 0
  <2>1. 1 \in 1..Len(fs) /\ Len(Tower') - 1 = b + Len(fs) - 1
    BY <1>1, <1>2
  <2>2. At(Tower', Len(Tower') - 1) = fs[1]
    BY <2>1 DEF Rebuilt, Grows
  <2>. QED  BY <1>2, <2>2 DEF Fits, TopOk
<1>3. CASE Len(fs) = 0
  <2>. DEFINE h == b - 1
  <2>1. h \in 0 .. b - 1 /\ h = Len(Tower') - 1 /\ b > 0
    BY <1>1, <1>3
  <2>2. h \in Heights(Tower) /\ At(Tower', h) = At(Tower, h)
    BY <2>1, OldFrames
  <2>3. At(Tower, h).op \notin LeafOps
    <3>1. CASE b = Len(Tower)
      BY <2>1, <3>1 DEF Fits, Covers, CallerOps, LeafOps
    <3>2. CASE b # Len(Tower)
      <4>1. h # Len(Tower) - 1
        BY <1>1, <2>1, <3>2
      <4>. QED  BY <2>2, <4>1 DEF Fitted, FitAt
    <3>. QED  BY <3>1, <3>2
  <2>4. At(Tower', Len(Tower') - 1) = At(Tower, h)
    BY <2>1, <2>2
  <2>. QED  BY <2>3, <2>4 DEF TopOk, LeafOps, MissOps
<1>. QED  BY <1>1, <1>2, <1>3

LEMMA AwakeKept ==
    ASSUME NEW b, NEW fs, Rebuilt(b, fs), Fits(b, fs), Awake
    PROVE  Awake'
<1>. SUFFICES ASSUME NEW w \in Wrap, pd'[w].attached, wr'[w].status # "ok"
              PROVE  \E h \in Heights(Tower') : At(Tower', h) = WFrame("commonDtor", w)
  BY DEF Awake
<1>1. /\ Len(Tower) \in Nat /\ Len(fs) \in Nat /\ b \in Nat /\ Len(Tower') = b + Len(fs)
      /\ b <= Len(Tower) /\ b >= Len(Tower) - 1
  BY DEF Rebuilt, Grows
<1>2. CASE \E j \in 1..Len(fs) : fs[j] = WFrame("commonDtor", w)
  <2>1. PICK j \in 1..Len(fs) : fs[j] = WFrame("commonDtor", w)
    BY <1>2
  <2>2. b + Len(fs) - j \in Heights(Tower') /\ At(Tower', b + Len(fs) - j) = fs[j]
    BY <1>1 DEF Rebuilt, Grows, Heights
  <2>. QED  BY <2>1, <2>2
<1>3. CASE /\ pd[w].attached /\ wr[w].status # "ok"
           /\ b < Len(Tower) => At(Tower, b) # WFrame("commonDtor", w)
  <2>1. PICK h \in Heights(Tower) : At(Tower, h) = WFrame("commonDtor", w)
    BY <1>3 DEF Awake
  <2>2. h < b
    <3>1. SUFFICES ASSUME h >= b PROVE FALSE
      BY <1>1 DEF Heights
    <3>2. h = b /\ b < Len(Tower)
      BY <1>1, <3>1 DEF Heights
    <3>. QED  BY <1>3, <2>1, <3>2
  <2>3. h \in 0 .. b - 1
    BY <1>1, <2>2 DEF Heights
  <2>. QED  BY <2>1, <2>3, OldFrames
<1>. QED  BY <1>2, <1>3 DEF Fits, Covers, Drops, Statuses

LEMMA StackKept ==
    ASSUME TypeOK, RefsInv, StackInv, NEW b, NEW fs, Rebuilt(b, fs), Fits(b, fs)
    PROVE  StackInv'
<1>1. Fitted(Tower') /\ EndsOk' /\ DestroyLast' /\ SummitOk' /\ Awake'
  BY FittedKept, EndsKept, DestroyKept, SummitKept, AwakeKept DEF StackInv
<1>2. Fitted(Tower)'
  BY <1>1 DEF Fitted, FitAt
<1>. QED  BY <1>1, <1>2 DEF StackInv

-----------------------------------------------------------------------------
(* What is pointed to *)

\* The rest of common_destructor has a live object that is still pointed to;
\* only that of an application is ever covered by other calls.
RestAt(h) ==
    /\ pd[At(Tower, h).w].obj = At(Tower, h).a
    /\ ~pd[At(Tower, h).w].attached
    /\ Live(At(Tower, h).a)
    /\ h = Len(Tower) - 1 \/ qt[At(Tower, h).a].kind = "app"
RestOk ==
    /\ \A h \in Heights(Tower) : At(Tower, h).op \in RestOps => RestAt(h)
    /\ \A h, k \in Heights(Tower) :
          /\ At(Tower, h).op \in RestOps /\ At(Tower, k).op \in RestOps
          /\ At(Tower, h).w = At(Tower, k).w
          => h = k

\* private data without its key points to an object only for that call
LooseOk ==
    \A w \in Wrap : pd[w].obj # None /\ ~pd[w].attached =>
        \E h \in Heights(Tower) : At(Tower, h) \in RestFrames(pd[w].obj, w)

\* what is pointed to lives, or the callback of its destructor is running
Hears(f, a, w) == f = AFrame("deleted", a) \/ (f.op \in HearOps /\ f.w = w)
PointerOk ==
    \A w \in Wrap : pd[w].obj # None =>
        \/ Live(pd[w].obj)
        \/ Len(Tower) > 0 /\ Hears(At(Tower, Len(Tower) - 1), pd[w].obj, w)

ObjectOk(a) ==
    /\ qt[a].state = "free" => qt[a].kind = "plain"
    /\ qt[a].state # "free" => qt[a].bound
    /\ qt[a].parent # None => qt[a].kind \in {"object", "widget"}

\* deleteAll() runs for an application and deletes none
LoopAt(h) ==
    /\ qt[At(Tower, h - 1).a].kind = "app"
    /\ \A a \in At(Tower, h).s : qt[a].kind # "app"
LoopOk == \A h \in Heights(Tower) : At(Tower, h).op = "deleteAll" => LoopAt(h)

\* nothing points to an application once its destructor is called
Unpointed(a) == qt[a].kind = "app" => \A w \in Wrap : pd[w].obj # a
AppSafe ==
    \A h \in Heights(Tower) : At(Tower, h).op = "qtDestroy" => Unpointed(At(Tower, h).a)

\* the windows are widgets that are pointed to
SetOk ==
    ~qwm.done => \A a \in qwm.set : qt[a].kind = "widget" /\ \E w \in Wrap : pd[w].obj = a

DataInv ==
    /\ RestOk /\ LooseOk /\ PointerOk /\ (\A a \in Addr : ObjectOk(a))
    /\ LoopOk /\ AppSafe /\ SetOk /\ MapSound

\* What a step that puts fs on the stack may do to the data.
RestsKept(b, fs) ==
    /\ \A h \in 0 .. b - 1 : At(Tower, h).op \in RestOps =>
          /\ pd'[At(Tower, h).w].obj = pd[At(Tower, h).w].obj
          /\ ~pd'[At(Tower, h).w].attached
          /\ qt'[At(Tower, h).a].state = "live"
          /\ qt'[At(Tower, h).a].kind = qt[At(Tower, h).a].kind
    /\ \A j \in 1..Len(fs) : fs[j].op \in RestOps =>
          /\ pd'[fs[j].w].obj = fs[j].a
          /\ ~pd'[fs[j].w].attached
          /\ qt'[fs[j].a].state = "live"
          /\ j = 1 \/ qt'[fs[j].a].kind = "app"
          /\ \A h \in 0 .. b - 1 : At(Tower, h).op \in RestOps => At(Tower, h).w # fs[j].w
          /\ \A k \in 1..Len(fs) : fs[k].op \in RestOps => k = j
LooseKept(b, fs) ==
    \A w \in Wrap : pd'[w].obj # None /\ ~pd'[w].attached =>
        \/ /\ pd'[w].obj = pd[w].obj /\ ~pd[w].attached
           /\ b < Len(Tower) => At(Tower, b) \notin RestFrames(pd[w].obj, w)
        \/ \E j \in 1..Len(fs) : fs[j] \in RestFrames(pd'[w].obj, w)
PointersKept(fs) ==
    \A w \in Wrap : pd'[w].obj # None =>
        \/ qt'[pd'[w].obj].state = "live"
        \/ Len(fs) > 0 /\ Hears(fs[1], pd'[w].obj, w)
LoopsKept(b, fs) ==
    /\ \/ \A a \in Addr : qt'[a].kind = "app" => qt[a].kind = "app"
       \/ \A a \in Addr : qt[a].kind # "app"
    /\ \A j \in 1..Len(fs) : fs[j].op = "deleteAll" =>
          /\ qt'[At(Tower', b + Len(fs) - j - 1).a].kind = "app"
          /\ \A a \in fs[j].s : qt'[a].kind # "app"
AppsKept(b, fs) ==
    /\ \A h \in 0 .. b - 1 :
          At(Tower, h).op = "qtDestroy" /\ qt'[At(Tower, h).a].kind = "app" =>
              \A w \in Wrap : pd'[w].obj # At(Tower, h).a
    /\ \A j \in 1..Len(fs) :
          fs[j].op = "qtDestroy" /\ qt'[fs[j].a].kind = "app" =>
              \A w \in Wrap : pd'[w].obj # fs[j].a
Keeps(b, fs) ==
    /\ RestsKept(b, fs) /\ LooseKept(b, fs) /\ PointersKept(fs)
    /\ \A a \in Addr : ObjectOk(a)'
    /\ LoopsKept(b, fs) /\ AppsKept(b, fs) /\ SetOk' /\ MapSound'

LEMMA Cover ==
    ASSUME NEW b, NEW fs, Rebuilt(b, fs), Fits(b, fs), NEW h \in 0 .. b - 1,
           At(Tower, h).op \notin CallerOps
    PROVE  h # Len(Tower) - 1
<1>1. Len(Tower) \in Nat /\ b \in 0..Len(Tower)
  BY DEF Rebuilt
<1>2. SUFFICES ASSUME h = Len(Tower) - 1 PROVE FALSE
  OBVIOUS
<1>3. b = Len(Tower) /\ b > 0 /\ h = b - 1
  BY <1>1, <1>2
<1>. QED  BY <1>3 DEF Fits, Covers, Drops, Statuses

LEMMA RestOkKept ==
    ASSUME NEW b, NEW fs, Rebuilt(b, fs), Fits(b, fs), RestOk, RestsKept(b, fs)
    PROVE  RestOk'
<1>1. /\ Len(Tower) \in Nat /\ Len(fs) \in Nat /\ b \in Nat /\ Len(Tower') = b + Len(fs)
      /\ b <= Len(Tower) /\ b >= Len(Tower) - 1
  BY DEF Rebuilt, Grows
<1>. DEFINE Old(h) == h \in 0 .. b - 1 /\ h \in Heights(Tower) /\ At(Tower', h) = At(Tower, h)
            New(h, j) == h = b + Len(fs) - j /\ At(Tower', h) = fs[j]
<1>2. ASSUME NEW h \in Heights(Tower') PROVE Old(h) \/ \E j \in 1..Len(fs) : New(h, j)
  BY NewFrames
<1>. DEFINE Rest(h) == /\ pd'[At(Tower', h).w].obj = At(Tower', h).a
                       /\ ~pd'[At(Tower', h).w].attached
                       /\ qt'[At(Tower', h).a].state = "live"
                       /\ h = Len(Tower') - 1 \/ qt'[At(Tower', h).a].kind = "app"
<1>3. ASSUME NEW h \in Heights(Tower'), At(Tower', h).op \in RestOps PROVE Rest(h)
  <2>1. CASE Old(h)
    <3>1. RestAt(h)
      BY <1>3, <2>1 DEF RestOk
    <3>2. h # Len(Tower) - 1
      BY <1>3, <2>1, Cover DEF CallerOps
    <3>. QED  BY <1>3, <2>1, <3>1, <3>2 DEF RestsKept, RestAt
  <2>2. ASSUME NEW j \in 1..Len(fs), New(h, j) PROVE Rest(h)
    <3>1. j = 1 => h = Len(Tower') - 1
      BY <1>1, <2>2
    <3>. QED  BY <1>3, <2>2, <3>1 DEF RestsKept
  <2>. QED  BY <1>2, <2>1, <2>2
<1>4. ASSUME NEW h \in Heights(Tower'), NEW k \in Heights(Tower'),
             At(Tower', h).op \in RestOps, At(Tower', k).op \in RestOps,
             At(Tower', h).w = At(Tower', k).w
      PROVE  h = k
  <2>1. CASE Old(h) /\ Old(k)
    BY <1>4, <2>1 DEF RestOk
  <2>2. ASSUME NEW j \in 1..Len(fs), New(h, j), Old(k) PROVE FALSE
    BY <1>4, <2>2 DEF RestsKept
  <2>3. ASSUME NEW j \in 1..Len(fs), New(k, j), Old(h) PROVE FALSE
    BY <1>4, <2>3 DEF RestsKept
  <2>4. ASSUME NEW i \in 1..Len(fs), NEW j \in 1..Len(fs), New(h, i), New(k, j) PROVE h = k
    BY <1>4, <2>4 DEF RestsKept
  <2>. QED  BY <1>2, <2>1, <2>2, <2>3, <2>4
<1>. QED  BY <1>3, <1>4 DEF RestOk, RestAt, Live

LEMMA LooseOkKept ==
    ASSUME NEW b, NEW fs, Rebuilt(b, fs), LooseOk, LooseKept(b, fs)
    PROVE  LooseOk'
<1>1. /\ Len(Tower) \in Nat /\ Len(fs) \in Nat /\ b \in Nat /\ Len(Tower') = b + Len(fs)
      /\ b <= Len(Tower) /\ b >= Len(Tower) - 1
  BY DEF Rebuilt, Grows
<1>. SUFFICES ASSUME NEW w \in Wrap, pd'[w].obj # None, ~pd'[w].attached
              PROVE  \E h \in Heights(Tower') : At(Tower', h) \in RestFrames(pd'[w].obj, w)
  BY DEF LooseOk
<1>2. CASE \E j \in 1..Len(fs) : fs[j] \in RestFrames(pd'[w].obj, w)
  <2>1. PICK j \in 1..Len(fs) : fs[j] \in RestFrames(pd'[w].obj, w)
    BY <1>2
  <2>2. b + Len(fs) - j \in Heights(Tower') /\ At(Tower', b + Len(fs) - j) = fs[j]
    BY <1>1 DEF Rebuilt, Grows, Heights
  <2>. QED  BY <2>1, <2>2
<1>3. CASE /\ pd'[w].obj = pd[w].obj /\ ~pd[w].attached
           /\ b < Len(Tower) => At(Tower, b) \notin RestFrames(pd[w].obj, w)
  <2>1. PICK h \in Heights(Tower) : At(Tower, h) \in RestFrames(pd[w].obj, w)
    BY <1>3 DEF LooseOk
  <2>2. h \in 0 .. b - 1
    <3>1. SUFFICES ASSUME h >= b PROVE FALSE
      BY <1>1 DEF Heights
    <3>2. h = b /\ b < Len(Tower)
      BY <1>1, <3>1 DEF Heights
    <3>. QED  BY <1>3, <2>1, <3>2
  <2>. QED  BY <1>3, <2>1, <2>2, OldFrames
<1>. QED  BY <1>2, <1>3 DEF LooseKept

LEMMA PointerOkKept ==
    ASSUME NEW b, NEW fs, Rebuilt(b, fs), PointersKept(fs)
    PROVE  PointerOk'
<1>1. Len(fs) \in Nat /\ b \in Nat /\ Len(Tower') = b + Len(fs)
  BY DEF Rebuilt, Grows
<1>2. Len(fs) > 0 => Len(Tower') > 0 /\ At(Tower', Len(Tower') - 1) = fs[1]
  <2>1. Len(fs) > 0 => 1 \in 1..Len(fs) /\ Len(Tower') - 1 = b + Len(fs) - 1 /\ Len(Tower') > 0
    BY <1>1
  <2>. QED  BY <2>1 DEF Rebuilt, Grows
<1>. QED  BY <1>2 DEF PointersKept, PointerOk, Hears, Live, AFrame

LEMMA LoopOkKept ==
    ASSUME NEW b, NEW fs, Rebuilt(b, fs), Fits(b, fs), Fitted(Tower), RestsKept(b, fs),
           LoopOk, LoopsKept(b, fs)
    PROVE  LoopOk'
<1>1. /\ Len(Tower) \in Nat /\ Len(fs) \in Nat /\ b \in Nat /\ Len(Tower') = b + Len(fs)
      /\ Tower \in Seq(Frame)
  BY DEF Rebuilt, Grows
<1>. SUFFICES ASSUME NEW h \in Heights(Tower'), At(Tower', h).op = "deleteAll"
              PROVE  /\ qt'[At(Tower', h - 1).a].kind = "app"
                     /\ \A a \in At(Tower', h).s : qt'[a].kind # "app"
  BY DEF LoopOk, LoopAt
<1>2. ASSUME NEW j \in 1..Len(fs), h = b + Len(fs) - j, At(Tower', h) = fs[j]
      PROVE  /\ qt'[At(Tower', h - 1).a].kind = "app"
             /\ \A a \in At(Tower', h).s : qt'[a].kind # "app"
  <2>1. h - 1 = b + Len(fs) - j - 1
    BY <1>1, <1>2
  <2>2. fs[j].op = "deleteAll" /\ fs[j] = At(Tower', h)
    BY <1>2
  <2>3. /\ qt'[At(Tower', b + Len(fs) - j - 1).a].kind = "app"
        /\ \A a \in fs[j].s : qt'[a].kind # "app"
    BY <2>2 DEF LoopsKept
  <2>. QED  BY <2>1, <2>2, <2>3
<1>3. CASE h \in 0 .. b - 1 /\ h \in Heights(Tower) /\ At(Tower', h) = At(Tower, h)
  <2>1. LoopAt(h) /\ FitAt(Tower, h) /\ At(Tower, h).s \in SUBSET Addr
    BY <1>1, <1>3, FrameAt DEF LoopOk, Fitted
  <2>2. h >= 1 /\ At(Tower, h - 1).op = "dtorRest"
    BY <1>3, <2>1 DEF FitAt
  <2>3. h - 1 \in 0 .. b - 1 /\ h - 1 \in Heights(Tower)
    BY <1>1, <1>3, <2>2 DEF Heights
  <2>4. At(Tower', h - 1) = At(Tower, h - 1) /\ At(Tower, h - 1).a \in Addr
    BY <1>1, <2>2, <2>3, OldFrames, FrameAt
  <2>5. qt'[At(Tower, h - 1).a].kind = "app" /\ qt[At(Tower, h - 1).a].kind = "app"
    BY <2>1, <2>2, <2>3 DEF LoopAt, RestsKept
  <2>6. \A a \in Addr : qt'[a].kind = "app" => qt[a].kind = "app"
    BY <2>4, <2>5 DEF LoopsKept
  <2>. QED  BY <1>3, <2>1, <2>4, <2>5, <2>6 DEF LoopAt
<1>. QED  BY <1>2, <1>3, NewFrames

LEMMA AppSafeKept ==
    ASSUME NEW b, NEW fs, Rebuilt(b, fs), AppsKept(b, fs)
    PROVE  AppSafe'
<1>. SUFFICES ASSUME NEW h \in Heights(Tower'), At(Tower', h).op = "qtDestroy",
                     qt'[At(Tower', h).a].kind = "app", NEW w \in Wrap
              PROVE  pd'[w].obj # At(Tower', h).a
  BY DEF AppSafe, Unpointed
<1>. QED  BY NewFrames DEF AppsKept

LEMMA DataKept ==
    ASSUME NEW b, NEW fs, Rebuilt(b, fs), Fits(b, fs), Fitted(Tower), DataInv, Keeps(b, fs)
    PROVE  DataInv'
BY RestOkKept, LooseOkKept, PointerOkKept, LoopOkKept, AppSafeKept DEF DataInv, Keeps

-----------------------------------------------------------------------------
(* What follows from the invariant *)

Ground ==
    /\ TypeOK /\ RefsInv /\ PrivateInv /\ IdentityInv
    /\ StackInv /\ DataInv

LEMMA TowerTop ==
    ASSUME TypeOK, Tower # <<>>
    PROVE  /\ Tower \in Seq(Frame) /\ Len(Tower) \in Nat /\ Len(Tower) >= 1
           /\ Len(Tower) - 1 \in Heights(Tower)
           /\ Top(GuiThread) = At(Tower, Len(Tower) - 1)
<1>1. Tower \in Seq(Frame) /\ Len(Tower) \in Nat /\ Len(Tower) >= 1
  BY ThreadAssumption DEF TypeOK, Tower
<1>2. Len(Tower) - 1 \in Heights(Tower) /\ Len(Tower) - (Len(Tower) - 1) = 1
  BY <1>1 DEF Heights
<1>3. Head(Tower) = Tower[1]
  BY <1>1
<1>. QED  BY <1>1, <1>2, <1>3 DEF At, Top, Tower

\* a destructor in progress owns a reference
LEMMA EndingThere ==
    ASSUME Ground, NEW w \in Wrap, NEW h \in Heights(Tower),
           \/ At(Tower, h) = WFrame("commonDtor", w)
           \/ At(Tower, h).op \in RestOps /\ At(Tower, h).w = w
    PROVE  wr[w].status \notin {"free", "ok"}
<1>1. FitAt(Tower, h) /\ h \in Nat /\ Len(Tower) \in Nat
  <2>1. Tower \in Seq(Frame)
    BY ThreadAssumption DEF Ground, TypeOK, Tower
  <2>. QED  BY <2>1 DEF Ground, StackInv, Fitted, Heights
<1>2. PICK k \in Heights(Tower) : At(Tower, k) = WFrame("endDelete", w)
  <2>1. CASE At(Tower, h) = WFrame("commonDtor", w)
    <3>1. At(Tower, h - 1) = WFrame("endDelete", w) /\ h >= 1
      <4>1. At(Tower, h).op = "commonDtor" /\ At(Tower, h).w = w
        BY <2>1 DEF WFrame
      <4>. QED  BY <1>1, <4>1 DEF FitAt
    <3>2. h - 1 \in Heights(Tower)
      BY <1>1, <3>1 DEF Heights
    <3>. QED  BY <3>1, <3>2
  <2>2. CASE At(Tower, h).op \in RestOps /\ At(Tower, h).w = w
    <3>1. At(Tower, h - 2) = WFrame("endDelete", w) /\ h >= 2
      BY <1>1, <2>2 DEF FitAt
    <3>2. h - 2 \in Heights(Tower)
      BY <1>1, <3>1 DEF Heights
    <3>. QED  BY <3>1, <3>2
  <2>. QED  BY <2>1, <2>2
<1>3. wr[w].status # "free"
  BY <1>2, OwedNotFree DEF Ground, OwingFrames
<1>4. wr[w].status # "ok"
  BY <1>2 DEF Ground, StackInv, EndsOk, WFrame
<1>. QED  BY <1>3, <1>4

LEMMA AttachedThere ==
    ASSUME Ground, NEW w \in Wrap, pd[w].attached
    PROVE  wr[w].status # "free"
<1>1. CASE wr[w].status = "ok"
  BY <1>1
<1>2. CASE wr[w].status # "ok"
  <2>1. PICK h \in Heights(Tower) : At(Tower, h) = WFrame("commonDtor", w)
    BY <1>2 DEF Ground, StackInv, Awake
  <2>. QED  BY <2>1, EndingThere
<1>. QED  BY <1>1, <1>2

\* what points to an object without a key is the rest of common_destructor
LEMMA LooseRest ==
    ASSUME Ground, NEW w \in Wrap, pd[w].obj # None, ~pd[w].attached
    PROVE  /\ Live(pd[w].obj)
           /\ \E h \in Heights(Tower) :
                 /\ At(Tower, h) \in RestFrames(pd[w].obj, w)
                 /\ h >= 2 /\ At(Tower, h - 1) = WFrame("pdDeref", w)
<1>1. PICK h \in Heights(Tower) : At(Tower, h) \in RestFrames(pd[w].obj, w)
  BY DEF Ground, DataInv, LooseOk
<1>2. At(Tower, h).op \in RestOps /\ At(Tower, h).w = w /\ At(Tower, h).a = pd[w].obj
  BY <1>1 DEF RestFrames
<1>3. RestAt(h) /\ FitAt(Tower, h)
  BY <1>2 DEF Ground, DataInv, RestOk, StackInv, Fitted
<1>. QED  BY <1>1, <1>2, <1>3 DEF RestAt, FitAt

LEMMA PointingThere ==
    ASSUME Ground, NEW w \in Wrap, pd[w].obj # None
    PROVE  wr[w].status # "free"
<1>1. CASE pd[w].attached
  BY <1>1, AttachedThere
<1>2. CASE ~pd[w].attached
  <2>1. PICK h \in Heights(Tower) : At(Tower, h) \in RestFrames(pd[w].obj, w)
    BY <1>2, LooseRest
  <2>. QED  BY <2>1, EndingThere DEF RestFrames
<1>. QED  BY <1>1, <1>2

LEMMA PointsLive ==
    ASSUME Ground, NEW w \in Wrap, pd[w].obj # None,
           Tower # <<>> => Top(GuiThread).op \notin CallbackOps
    PROVE  pd[w].obj \in Addr /\ Live(pd[w].obj)
<1>1. pd[w].obj \in Addr
  BY PdFields DEF Ground
<1>2. CASE Tower = <<>>
  <2>1. ~(Len(Tower) > 0)
    BY <1>2
  <2>. QED  BY <1>1, <2>1 DEF Ground, DataInv, PointerOk
<1>3. CASE Tower # <<>>
  <2>1. At(Tower, Len(Tower) - 1).op \notin CallbackOps
    BY <1>3, TowerTop DEF Ground
  <2>2. ~Hears(At(Tower, Len(Tower) - 1), pd[w].obj, w)
    BY <2>1 DEF Hears, AFrame
  <2>. QED  BY <1>1, <2>2 DEF Ground, DataInv, PointerOk
<1>. QED  BY <1>2, <1>3

LEMMA OnePointer ==
    ASSUME Ground, NEW v \in Wrap, NEW w \in Wrap, pd[v].obj # None, pd[v].obj = pd[w].obj
    PROVE  v = w
BY NoneAssumption DEF Ground, IdentityInv, MapInv, Settled, SettledBut

\* the entry of an address leads to the wrapper that points to it
LEMMA EntryPoints ==
    ASSUME Ground, NEW a \in Addr, map[a] # None
    PROVE  map[a] \in Wrap /\ pd[map[a]].obj = a /\ pd[map[a]].obj # None
BY NoneAssumption DEF Ground, TypeOK, DataInv, MapSound

\* the last reference to private data goes when it points to nothing
LEMMA LastUse ==
    ASSUME Ground, NEW w \in Wrap, Tower # <<>>, Top(GuiThread) = WFrame("pdDeref", w),
           ~(pd[w].refs > 1)
    PROVE  pd[w].obj = None /\ ~pd[w].attached
<1>. DEFINE F == UseFrames(w)
            n == Len(Tower) - 1
<1>0. TypeOK /\ PrivateInv /\ GuiThread \in Thread
  BY ThreadAssumption DEF Ground
<1>1. Len(Tower) \in Nat /\ n \in Heights(Tower) /\ At(Tower, n) = WFrame("pdDeref", w)
  BY <1>0, TowerTop
<1>2. n \in Int /\ <<GuiThread, n>> \in Places(F)
  <2>1. n \in Int
    BY <1>1 DEF Heights
  <2>. QED  BY <1>0, <1>1, <2>1, PlacedAt DEF UseFrames
<1>3. /\ IsFiniteSet(Places(F))
      /\ pd[w].refs = (IF pd[w].attached THEN 1 ELSE 0) + Cardinality(Places(F))
      /\ pd[w].refs \in Int
  BY <1>0, PdFields DEF PrivateInv, UseOk, Uses
<1>4. ASSUME NEW x \in Places(F) PROVE /\ Cardinality(Places(F) \ {x}) = Cardinality(Places(F)) - 1
                                       /\ IsFiniteSet(Places(F) \ {x})
                                       /\ Cardinality(Places(F) \ {x}) \in Nat
  BY <1>3, FS_RemoveElement, FS_CardinalityType
<1>5. Cardinality(Places(F)) >= 1 /\ Cardinality(Places(F)) \in Nat
  <2>1. Cardinality(Places(F)) \in Nat
    BY <1>3, FS_CardinalityType
  <2>2. Cardinality(Places(F)) - 1 \in Nat
    BY <1>2, <1>4
  <2>. QED  BY <2>1, <2>2
<1>6. ~pd[w].attached /\ Cardinality(Places(F)) = 1
  BY <1>3, <1>5
<1>7. ASSUME pd[w].obj # None PROVE FALSE
  <2>1. PICK h \in Heights(Tower) : h >= 2 /\ At(Tower, h - 1) = WFrame("pdDeref", w)
                                    /\ h \in Int
    BY <1>1, <1>6, <1>7, LooseRest DEF Heights
  <2>2. h - 1 \in Heights(Tower) /\ h - 1 \in Int /\ h - 1 # n
    BY <1>1, <2>1 DEF Heights
  <2>3. <<GuiThread, h - 1>> \in Places(F)
    BY <1>0, <2>1, <2>2, PlacedAt DEF UseFrames
  <2>4. <<GuiThread, h - 1>> \in Places(F) \ {<<GuiThread, n>>}
    BY <2>2, <2>3
  <2>5. Cardinality(Places(F) \ {<<GuiThread, n>>}) = 0
    BY <1>2, <1>4, <1>6
  <2>6. Places(F) \ {<<GuiThread, n>>} = {}
    BY <1>2, <1>4, <2>5, FS_EmptySet
  <2>. QED  BY <2>4, <2>6
<1>. QED  BY <1>6, <1>7

-----------------------------------------------------------------------------
(* Steps that leave the data alone *)

\* calls that may stand anywhere
FreeOps == {"qtFree", "ctorBody", "pdDeref", "deref", "objRefDrop"}

\* the wrappers that are in order remain the same, no private data is attached
OkSame(b) ==
    \A w \in Wrap :
        /\ wr'[w].status = "ok" <=> wr[w].status = "ok"
        /\ pd'[w].attached =>
              pd[w].attached /\ (b < Len(Tower) => At(Tower, b) # WFrame("commonDtor", w))

LEMMA OkSameStatuses ==
    ASSUME NEW b, NEW fs, OkSame(b)
    PROVE  Statuses(b, fs)
BY DEF OkSame, Statuses

SimpleAt(fs, j) ==
    \/ fs[j].op \in FreeOps
    \/ j = 1 /\ fs[j].op \in SimpleOps \cup {"qtDestroy"}

LEMMA SimpleFits ==
    ASSUME NEW b, NEW fs, Rebuilt(b, fs), Covers(b), Drops(b, fs), Statuses(b, fs),
           \A j \in 1..Len(fs) : SimpleAt(fs, j), Len(fs) > 0 => TopOk(fs[1])'
    PROVE  Fits(b, fs)
<1>. SUFFICES ASSUME NEW j \in 1..Len(fs)
              PROVE  /\ FitAt(Tower', b + Len(fs) - j)
                     /\ fs[j].op # "endDelete"
                     /\ fs[j].op = "qtDestroy" => j = 1
  BY DEF Fits
<1>1. /\ Len(fs) \in Nat /\ b \in Nat /\ Len(Tower') = b + Len(fs)
      /\ At(Tower', b + Len(fs) - j) = fs[j]
  BY DEF Rebuilt, Grows
<1>2. CASE fs[j].op \in FreeOps
  BY <1>1, <1>2 DEF FreeOps, FitAt, LeafOps
<1>3. CASE j = 1 /\ fs[j].op \in SimpleOps \cup {"qtDestroy"}
  BY <1>1, <1>3 DEF FitAt, LeafOps
<1>. QED  BY <1>2, <1>3 DEF SimpleAt

\* the pointers and the kinds of the objects are the same, the map gains nothing
CalmData ==
    /\ \A a \in Addr : map'[a] = map[a] \/ map'[a] = None
    /\ \A w \in Wrap : pd'[w].obj = pd[w].obj /\ pd'[w].attached = pd[w].attached
    /\ \A a \in Addr :
          /\ qt'[a].state = qt[a].state /\ qt'[a].kind = qt[a].kind
          /\ qt'[a].bound = qt[a].bound
          /\ qt'[a].parent = qt[a].parent \/ qt[a].kind \in {"object", "widget"}
    /\ ~qwm'.done =>
          /\ ~qwm.done
          /\ \A a \in qwm'.set :
                \/ a \in qwm.set
                \/ qt[a].kind = "widget" /\ \E w \in Wrap : pd[w].obj = a
\* and the calls that they matter to are not touched
CalmFrames(b, fs) ==
    /\ b < Len(Tower) => At(Tower, b).op \notin TenseOps
    /\ \A j \in 1..Len(fs) :
          /\ fs[j].op \notin RestOps
          /\ fs[j].op = "qtDestroy" => qt[fs[j].a].kind # "app"
          /\ fs[j].op = "deleteAll" =>
                /\ qt'[At(Tower', b + Len(fs) - j - 1).a].kind = "app"
                /\ \A a \in fs[j].s : qt'[a].kind # "app"
Calm(b, fs) == CalmData /\ CalmFrames(b, fs)

LEMMA CalmKeeps ==
    ASSUME Ground, TypeOK', NEW b, NEW fs, Rebuilt(b, fs), Covers(b), Calm(b, fs)
    PROVE  Keeps(b, fs)
<1>0. /\ Len(Tower) \in Nat /\ Len(fs) \in Nat /\ b \in Nat /\ b <= Len(Tower)
      /\ b >= Len(Tower) - 1 /\ Tower \in Seq(Frame) /\ fs \in Seq(Frame)
  BY DEF Rebuilt
<1>1. RestsKept(b, fs)
  <2>1. SUFFICES ASSUME NEW h \in 0 .. b - 1, At(Tower, h).op \in RestOps
                 PROVE  /\ pd'[At(Tower, h).w].obj = pd[At(Tower, h).w].obj
                        /\ ~pd'[At(Tower, h).w].attached
                        /\ qt'[At(Tower, h).a].state = "live"
                        /\ qt'[At(Tower, h).a].kind = qt[At(Tower, h).a].kind
    BY DEF RestsKept, Calm, CalmData, CalmFrames
  <2>2. h \in Heights(Tower)
    BY <1>0 DEF Heights
  <2>3. RestAt(h) /\ At(Tower, h).w \in Wrap /\ At(Tower, h).a \in Addr
    BY <1>0, <2>1, <2>2, FrameAt DEF Ground, DataInv, RestOk
  <2>. QED  BY <2>3 DEF RestAt, Calm, CalmData, CalmFrames, Live
<1>2. LooseKept(b, fs)
  <2>1. SUFFICES ASSUME NEW w \in Wrap, b < Len(Tower)
                 PROVE  At(Tower, b) \notin RestFrames(pd[w].obj, w)
    BY DEF LooseKept, Calm, CalmData, CalmFrames
  <2>. QED  BY <2>1 DEF Calm, CalmData, CalmFrames, RestFrames
<1>3. PointersKept(fs)
  <2>1. SUFFICES ASSUME NEW w \in Wrap, pd'[w].obj # None
                 PROVE  qt'[pd'[w].obj].state = "live"
    BY DEF PointersKept
  <2>2. pd'[w].obj = pd[w].obj /\ pd[w].obj \in Addr
    BY <2>1, PdFields DEF Calm, CalmData, CalmFrames, Ground
  <2>3. ASSUME Tower # <<>> PROVE Top(GuiThread).op \notin CallbackOps
    <3>1. Top(GuiThread) = At(Tower, Len(Tower) - 1) /\ Len(Tower) >= 1
      BY <2>3, TowerTop DEF Ground
    <3>2. CASE b = Len(Tower)
      BY <1>0, <3>1, <3>2 DEF Covers, CallerOps
    <3>3. CASE b = Len(Tower) - 1
      BY <1>0, <3>1, <3>3 DEF Calm, CalmData, CalmFrames
    <3>. QED  BY <1>0, <3>2, <3>3
  <2>4. Live(pd[w].obj)
    BY <2>1, <2>2, <2>3, PointsLive
  <2>. QED  BY <2>2, <2>4 DEF Calm, CalmData, CalmFrames, Live
<1>4. ASSUME NEW a \in Addr PROVE ObjectOk(a)'
  BY DEF Ground, DataInv, ObjectOk, Calm, CalmData, CalmFrames
<1>5. LoopsKept(b, fs)
  BY DEF LoopsKept, Calm, CalmData, CalmFrames
<1>6. AppsKept(b, fs)
  <2>1. ASSUME NEW h \in 0 .. b - 1, At(Tower, h).op = "qtDestroy",
               qt'[At(Tower, h).a].kind = "app", NEW w \in Wrap
        PROVE  pd'[w].obj # At(Tower, h).a
    <3>1. h \in Heights(Tower)
      BY <1>0 DEF Heights
    <3>2. Unpointed(At(Tower, h).a) /\ At(Tower, h).a \in Addr
      BY <1>0, <2>1, <3>1, FrameAt DEF Ground, DataInv, AppSafe, AOps
    <3>. QED  BY <2>1, <3>2 DEF Calm, CalmData, CalmFrames, Unpointed
  <2>2. ASSUME NEW j \in 1..Len(fs), fs[j].op = "qtDestroy" PROVE qt'[fs[j].a].kind # "app"
    <3>1. fs[j] \in Frame
      BY <1>0
    <3>2. fs[j].a \in Addr
      BY <2>2, <3>1 DEF Frame, WOps
    <3>. QED  BY <2>2, <3>2 DEF Calm, CalmData, CalmFrames
  <2>. QED  BY <2>1, <2>2 DEF AppsKept
<1>7. SetOk'
  <2>1. SUFFICES ASSUME ~qwm'.done, NEW a \in qwm'.set
                 PROVE  qt'[a].kind = "widget" /\ \E w \in Wrap : pd'[w].obj = a
    BY DEF SetOk
  <2>2. a \in Addr
    BY <2>1 DEF TypeOK
  <2>3. qt[a].kind = "widget" /\ \E w \in Wrap : pd[w].obj = a
    BY <2>1 DEF Calm, CalmData, CalmFrames, Ground, DataInv, SetOk
  <2>. QED  BY <2>2, <2>3 DEF Calm, CalmData, CalmFrames
<1>8. MapSound'
  <2>1. SUFFICES ASSUME NEW a \in Addr, map'[a] # None PROVE pd'[map[a]].obj = a /\ map[a] = map'[a]
    BY DEF MapSound, Calm, CalmData, CalmFrames
  <2>. QED  BY <2>1, EntryPoints DEF Calm, CalmData, CalmFrames
<1>. QED  BY <1>1, <1>2, <1>3, <1>4, <1>5, <1>6, <1>7, <1>8 DEF Keeps

Moves == \E b \in Nat, fs \in Seq(Frame) : Rebuilt(b, fs) /\ Fits(b, fs) /\ Keeps(b, fs)

LEMMA MovesKeep ==
    ASSUME Ground, Moves
    PROVE  StackInv' /\ DataInv'
<1>1. PICK b \in Nat, fs \in Seq(Frame) : Rebuilt(b, fs) /\ Fits(b, fs) /\ Keeps(b, fs)
  BY DEF Moves
<1>2. TypeOK /\ RefsInv /\ StackInv /\ DataInv /\ Fitted(Tower)
  BY DEF Ground, StackInv
<1>. QED  BY <1>1, <1>2, StackKept, DataKept

QuietAt(fs, j) ==
    /\ SimpleAt(fs, j)
    /\ fs[j].op = "qtDestroy" => qt[fs[j].a].kind # "app"

\* The top frame makes simple calls and returns.
LEMMA CalmCalls ==
    ASSUME Ground, TypeOK', Tower # <<>>, NEW fs \in Seq(Frame), Calls(GuiThread, fs),
           Top(GuiThread).op \notin TenseOps,
           Top(GuiThread).op \in DropOps => Drops(Len(Tower) - 1, fs),
           OkSame(Len(Tower) - 1), CalmData,
           \A j \in 1..Len(fs) : QuietAt(fs, j),
           Len(fs) > 0 => TopOk(fs[1])'
    PROVE  Moves
<1>. DEFINE b == Len(Tower) - 1
<1>1. /\ Len(Tower) \in Nat /\ Len(Tower) >= 1 /\ At(Tower, b) = Top(GuiThread)
      /\ b \in Nat /\ b # Len(Tower)
  BY TowerTop DEF Ground
<1>2. Rebuilt(b, fs)
  BY CallsRebuild DEF Ground
<1>3. Covers(b) /\ Drops(b, fs) /\ Statuses(b, fs)
  BY <1>1, OkSameStatuses DEF Covers, Drops
<1>4. Fits(b, fs)
  <2>. HIDE DEF b
  <2>. QED  BY <1>2, <1>3, SimpleFits DEF QuietAt
<1>5. CalmFrames(b, fs)
  BY <1>1 DEF CalmFrames, QuietAt, SimpleAt, FreeOps, LeafOps
<1>6. Keeps(b, fs)
  <2>. HIDE DEF b
  <2>. QED  BY <1>2, <1>3, <1>5, CalmKeeps DEF Calm
<1>. QED  BY <1>1, <1>2, <1>4, <1>6 DEF Moves

LEMMA CalmReturn ==
    ASSUME Ground, TypeOK', Tower # <<>>, Return(GuiThread),
           Top(GuiThread).op \notin TenseOps,
           OkSame(Len(Tower) - 1), CalmData
    PROVE  Moves
<1>1. <<>> \in Seq(Frame) /\ Calls(GuiThread, <<>>) /\ ~(Len(<<>>) > 0)
      /\ \A j \in 1..Len(<<>>) : FALSE
  BY DEF Return
<1>. HIDE DEF Moves
<1>. QED  BY <1>1, CalmCalls DEF Drops

\* Calls are made from a program that goes on afterwards.
LEMMA CalmEnter ==
    ASSUME Ground, TypeOK', NEW fs \in Seq(Frame), Enter(GuiThread, fs),
           Tower # <<>> => Top(GuiThread).op \in CallerOps,
           Statuses(Len(Tower), fs), CalmData,
           \A j \in 1..Len(fs) : QuietAt(fs, j),
           Len(fs) > 0 => TopOk(fs[1])'
    PROVE  Moves
<1>. DEFINE b == Len(Tower)
<1>1. b \in Nat /\ ~(b < Len(Tower))
  <2>1. Tower \in Seq(Frame)
    BY ThreadAssumption DEF Ground, TypeOK, Tower
  <2>. QED  BY <2>1
<1>2. Rebuilt(b, fs)
  BY EnterRebuilds DEF Ground
<1>3. Covers(b) /\ Drops(b, fs) /\ Statuses(b, fs)
  <2>1. CASE Tower = <<>>
    BY <1>1, <2>1 DEF Covers, Drops
  <2>2. CASE Tower # <<>>
    BY <1>1, <2>2, TowerTop DEF Covers, Drops, Ground
  <2>. QED  BY <2>1, <2>2
<1>4. Fits(b, fs)
  <2>. HIDE DEF b
  <2>. QED  BY <1>2, <1>3, SimpleFits DEF QuietAt
<1>5. CalmFrames(b, fs)
  BY <1>1 DEF CalmFrames, QuietAt, SimpleAt, FreeOps, LeafOps
<1>6. Keeps(b, fs)
  <2>. HIDE DEF b
  <2>. QED  BY <1>2, <1>3, <1>5, CalmKeeps DEF Calm
<1>. QED  BY <1>1, <1>2, <1>4, <1>6 DEF Moves

\* A program acts and makes no call.
LEMMA CalmStill ==
    ASSUME Ground, TypeOK', stack' = stack,
           Tower # <<>> => Top(GuiThread).op \in CallerOps,
           OkSame(Len(Tower)), CalmData
    PROVE  Moves
<1>1. <<>> \in Seq(Frame) /\ ~(Len(<<>>) > 0) /\ \A j \in 1..Len(<<>>) : FALSE
  OBVIOUS
<1>2. Enter(GuiThread, <<>>)
  <2>1. stack \in [Thread -> Seq(Frame)] /\ GuiThread \in Thread
    BY ThreadAssumption DEF Ground, TypeOK
  <2>2. <<>> \o stack[GuiThread] = stack[GuiThread]
    BY <2>1
  <2>. QED  BY <2>1, <2>2 DEF Enter
<1>3. Statuses(Len(Tower), <<>>)
  BY OkSameStatuses
<1>. QED  BY <1>1, <1>2, <1>3, CalmEnter

LEMMA UserTop ==
    ASSUME UserCode(GuiThread)
    PROVE  /\ fault = None
           /\ Tower # <<>> => Top(GuiThread).op \in CallerOps
           /\ Tower # <<>> => Top(GuiThread).op \notin CallbackOps
BY DEF UserCode, Running, Tower, UserFrames, CallerOps

-----------------------------------------------------------------------------
(* The steps, one by one *)

Idle == UNCHANGED <<qt, wr, pd, map, qwm, stack>>
Harmless ==
    \/ fault' = fault
    \/ fault' \in {"qwm_add", "qwm_deleteAll", "obj_ref", "deleteAll_dangling", "double_free"}
Good == Harmless /\ (Idle \/ Moves)

LEMMA AbortGood ==
    ASSUME NEW f \in {"qwm_add", "qwm_deleteAll", "obj_ref", "deleteAll_dangling", "double_free"},
           Abort(f)
    PROVE  Good
BY DEF Abort, Good, Harmless, Idle

LEMMA SameOk ==
    ASSUME TypeOK, \A w \in Wrap : /\ wr'[w].status = "ok" <=> wr[w].status = "ok"
                                   /\ pd'[w].attached => pd[w].attached
    PROVE  /\ OkSame(Len(Tower))
           /\ Tower # <<>> /\ Top(GuiThread).op # "commonDtor" => OkSame(Len(Tower) - 1)
<1>1. OkSame(Len(Tower))
  <2>1. Tower \in Seq(Frame)
    BY ThreadAssumption DEF TypeOK, Tower
  <2>2. ~(Len(Tower) < Len(Tower))
    BY <2>1
  <2>. QED  BY <2>2 DEF OkSame
<1>2. ASSUME Tower # <<>>, Top(GuiThread).op # "commonDtor" PROVE OkSame(Len(Tower) - 1)
  <2>1. At(Tower, Len(Tower) - 1).op # "commonDtor"
    BY <1>2, TowerTop
  <2>. QED  BY <2>1 DEF OkSame, WFrame
<1>. QED  BY <1>1, <1>2

LEMMA SameData ==
    ASSUME TypeOK, UNCHANGED <<qt, map, qwm>>,
           \A w \in Wrap : pd'[w].obj = pd[w].obj /\ pd'[w].attached = pd[w].attached
    PROVE  CalmData
BY DEF CalmData

LEMMA RunningTower ==
    ASSUME TypeOK, NEW op, AtTop(GuiThread, op)
    PROVE  Tower # <<>> /\ Top(GuiThread).op = op /\ fault = None
BY DEF AtTop, Running, Tower

LEMMA ReturnsGood ==
    ASSUME Ground, TypeOK',
           \/ ConstructorReturns(GuiThread) \/ UserDtorEnd(GuiThread) \/ OutOfMemory(GuiThread)
    PROVE  Good
<1>1. /\ Tower # <<>> /\ Return(GuiThread)
      /\ Top(GuiThread).op \notin {"commonDtor"} \cup TenseOps
  BY DEF ConstructorReturns, UserDtorEnd, OutOfMemory, AtTop, Running, Tower
<1>2. UNCHANGED <<qt, wr, pd, map, qwm, fault>>
  BY DEF ConstructorReturns, UserDtorEnd, OutOfMemory
<1>3. OkSame(Len(Tower) - 1) /\ CalmData
  BY <1>1, <1>2, SameOk, SameData DEF Ground
<1>4. Moves
  BY <1>1, <1>3, CalmReturn
<1>. QED  BY <1>2, <1>4 DEF Good, Harmless

LEMMA EndDeleteGood ==
    ASSUME Ground, TypeOK', EndDelete(GuiThread)
    PROVE  Good
<1>1. PICK w \in Wrap : w = Top(GuiThread).w /\ Tower # <<>> /\ Top(GuiThread).op = "endDelete"
  BY ThreadAssumption, TopArguments DEF EndDelete, AtTop, Running, WOps, Ground, Tower
<1>2. /\ wr' = [wr EXCEPT ![w].status = "deleted"] /\ UNCHANGED <<qt, pd, map, qwm, fault>>
      /\ Calls(GuiThread, <<WFrame("deref", w)>>)
  BY <1>1 DEF EndDelete
<1>3. wr[w].status # "ok"
  BY <1>1, TowerTop DEF Ground, StackInv, EndsOk
<1>4. \A v \in Wrap : wr'[v].status = "ok" <=> wr[v].status = "ok"
  <2>1. wr \in [Wrap -> WrRecord]
    BY DEF Ground, TypeOK
  <2>2. wr'[w].status = "deleted" /\ \A v \in Wrap \ {w} : wr'[v] = wr[v]
    BY <1>2, <2>1 DEF WrRecord
  <2>. QED  BY <1>3, <2>2
<1>5. OkSame(Len(Tower) - 1) /\ CalmData
  BY <1>1, <1>2, <1>4, SameOk, SameData DEF Ground
<1>. DEFINE fs == <<WFrame("deref", w)>>
<1>6. /\ fs \in Seq(Frame) /\ \A j \in 1..Len(fs) : QuietAt(fs, j)
      /\ TopOk(fs[1])'
  <2>1. fs \in Seq(Frame)
    BY WFrameType, Seqs DEF WOps
  <2>2. Len(fs) = 1 /\ fs[1].op = "deref"
    BY DEF WFrame
  <2>. QED  BY <2>1, <2>2 DEF QuietAt, SimpleAt, FreeOps, TopOk, MissOps
<1>7. Moves
  BY <1>1, <1>2, <1>5, <1>6, CalmCalls DEF DropOps
<1>. QED  BY <1>2, <1>7 DEF Good, Harmless

LEMMA QuietOne ==
    ASSUME NEW f \in Frame, f.op \in FreeOps \cup SimpleOps
    PROVE  /\ <<f>> \in Seq(Frame) /\ Len(<<f>>) = 1 /\ <<f>>[1] = f
           /\ \A j \in 1..Len(<<f>>) : QuietAt(<<f>>, j)
<1>. DEFINE fs == <<f>>
<1>1. fs \in Seq(Frame) /\ Len(fs) = 1 /\ fs[1] = f
  OBVIOUS
<1>. HIDE DEF fs
<1>2. ASSUME NEW j \in 1..Len(fs) PROVE QuietAt(fs, j)
  <2>1. j = 1
    BY <1>1
  <2>. QED  BY <1>1, <2>1 DEF QuietAt, SimpleAt, FreeOps, LeafOps
<1>. QED  BY <1>1, <1>2 DEF fs

LEMMA QuietTwo ==
    ASSUME NEW f \in Frame, f.op \in FreeOps \cup SimpleOps, NEW g \in Frame, g.op \in FreeOps
    PROVE  /\ <<f, g>> \in Seq(Frame) /\ Len(<<f, g>>) = 2 /\ <<f, g>>[1] = f
           /\ \A j \in 1..Len(<<f, g>>) : QuietAt(<<f, g>>, j)
<1>. DEFINE fs == <<f, g>>
<1>1. fs \in Seq(Frame) /\ Len(fs) = 2 /\ fs[1] = f /\ fs[2] = g
  OBVIOUS
<1>. HIDE DEF fs
<1>2. ASSUME NEW j \in 1..Len(fs) PROVE QuietAt(fs, j)
  <2>1. j = 1 \/ j = 2
    BY <1>1
  <2>. QED  BY <1>1, <2>1 DEF QuietAt, SimpleAt, FreeOps, LeafOps
<1>. QED  BY <1>1, <1>2 DEF fs

LEMMA FreeTop ==
    ASSUME NEW f, f.op \in FreeOps \cup {"qtDestroy", "userDtor", "commonDtor", "endDelete",
                                         "deleteAll", "dtorRest"}
    PROVE  TopOk(f)'
BY DEF TopOk, MissOps, FreeOps

\* the destructor of a wrapper that was in order
DestroysWrapper(w) ==
    /\ wr[w].status = "ok" /\ wr'[w].status = "deleting"
    /\ \A v \in Wrap \ {w} : wr'[v].status = wr[v].status
    /\ \A v \in Wrap : pd'[v].attached => pd[v].attached

LEMMA FrameOffset ==
    ASSUME NEW b \in Nat, NEW n \in Nat, NEW j \in 1..n
    PROVE  b + n - j \in Int /\ (n = 3 \/ n = 4 => j \in {1, 2, 3, 4})
OBVIOUS

LEMMA DestructorFits ==
    ASSUME NEW b, NEW fs, Rebuilt(b, fs), NEW w \in Wrap,
           Covers(b), Drops(b, fs),
           b < Len(Tower) => At(Tower, b).op # "commonDtor",
           DestroysWrapper(w),
           \/ fs = DestructorFrames(w)
           \/ fs = Append(DestructorFrames(w), WFrame("objRefDrop", w))
    PROVE  Fits(b, fs)
<1>1. /\ Len(fs) \in {3, 4}
      /\ fs[1] = WFrame("userDtor", w) /\ fs[2] = WFrame("commonDtor", w)
      /\ fs[3] = WFrame("endDelete", w)
      /\ Len(fs) = 4 => fs[4] = WFrame("objRefDrop", w)
  BY DEF DestructorFrames
<1>2. b \in Nat /\ Len(Tower') = b + Len(fs)
      /\ \A j \in 1..Len(fs) : At(Tower', b + Len(fs) - j) = fs[j]
  BY DEF Rebuilt, Grows
<1>3. Statuses(b, fs)
  <2>1. ASSUME NEW v \in Wrap
        PROVE  /\ wr'[v].status = "ok" => wr[v].status \in {"ok", "free"}
               /\ pd'[v].attached =>
                     \/ wr'[v].status = "ok"
                     \/ pd[v].attached /\ wr[v].status # "ok"
                           /\ (b < Len(Tower) => At(Tower, b) # WFrame("commonDtor", v))
                     \/ \E j \in 1..Len(fs) : fs[j] = WFrame("commonDtor", v)
    <3>1. CASE v = w
      <4>1. 2 \in 1..Len(fs)
        BY <1>1
      <4>. QED  BY <1>1, <3>1, <4>1 DEF DestroysWrapper
    <3>2. CASE v # w
      BY <3>2 DEF DestroysWrapper, WFrame
    <3>. QED  BY <3>1, <3>2
  <2>. QED  BY <2>1 DEF Statuses
<1>4. ASSUME NEW j \in 1..Len(fs), NEW h, h = b + Len(fs) - j
      PROVE  /\ FitAt(Tower', h)
             /\ fs[j].op = "endDelete" => wr'[fs[j].w].status # "ok"
             /\ fs[j].op # "qtDestroy"
  <2>1. At(Tower', h) = fs[j] /\ h \in Int /\ j \in {1, 2, 3, 4}
    <3>1. b \in Nat /\ Len(fs) \in Nat
      BY <1>1, <1>2
    <3>2. b + Len(fs) - j \in Int /\ (Len(fs) = 3 \/ Len(fs) = 4 => j \in {1, 2, 3, 4})
      BY <1>4, <3>1, FrameOffset
    <3>3. At(Tower', b + Len(fs) - j) = fs[j]
      BY <1>2, <1>4
    <3>4. Len(fs) = 3 \/ Len(fs) = 4
      BY <1>1
    <3>. QED  BY <1>4, <3>2, <3>3, <3>4, Zenon
  <2>2. CASE j = 1
    <3>1. h >= 1 /\ h - 1 = b + Len(fs) - 2 /\ 2 \in 1..Len(fs)
      BY <1>1, <1>2, <1>4, <2>2
    <3>2. At(Tower', h - 1) = fs[2]
      BY <1>2, <3>1
    <3>3. At(Tower', h).op = "userDtor" /\ At(Tower', h).w = w
      BY <1>1, <2>1, <2>2 DEF WFrame
    <3>. QED  BY <1>1, <2>1, <2>2, <3>1, <3>2, <3>3 DEF FitAt, LeafOps
  <2>3. CASE j = 2
    <3>1. h >= 1 /\ h - 1 = b + Len(fs) - 3 /\ 3 \in 1..Len(fs)
      BY <1>1, <1>2, <1>4, <2>3
    <3>2. At(Tower', h - 1) = fs[3]
      BY <1>2, <3>1
    <3>3. At(Tower', h).op = "commonDtor" /\ At(Tower', h).w = w
      BY <1>1, <2>1, <2>3 DEF WFrame
    <3>. QED  BY <1>1, <2>1, <2>3, <3>1, <3>2, <3>3 DEF FitAt, LeafOps
  <2>4. CASE j = 3
    <3>1. fs[j].op = "endDelete" /\ fs[j].w = w
      BY <1>1, <2>4 DEF WFrame
    <3>. QED  BY <2>1, <3>1 DEF FitAt, LeafOps, DestroysWrapper
  <2>5. CASE j = 4
    <3>1. fs[j].op = "objRefDrop"
      BY <1>1, <1>4, <2>5 DEF WFrame
    <3>. QED  BY <2>1, <3>1 DEF FitAt, LeafOps
  <2>. QED  BY <2>1, <2>2, <2>3, <2>4, <2>5
<1>5. TopOk(fs[1])'
  BY <1>1, FreeTop DEF WFrame
<1>. QED  BY <1>3, <1>4, <1>5 DEF Fits

LEMMA DestructorSeq ==
    ASSUME NEW w \in Wrap, NEW fs, \/ fs = DestructorFrames(w)
                                   \/ fs = Append(DestructorFrames(w), WFrame("objRefDrop", w))
    PROVE  /\ fs \in Seq(Frame)
           /\ \A j \in 1..Len(fs) :
                 fs[j].op \in {"userDtor", "commonDtor", "endDelete", "objRefDrop"}
<1>1. /\ WFrame("userDtor", w) \in Frame /\ WFrame("commonDtor", w) \in Frame
      /\ WFrame("endDelete", w) \in Frame /\ WFrame("objRefDrop", w) \in Frame
  BY WFrameType DEF WOps
<1>2. fs \in Seq(Frame)
  <2>1. DestructorFrames(w) \in Seq(Frame)
    BY DestructorFramesType
  <2>. QED  BY <1>1, <2>1
<1>3. /\ Len(fs) \in {3, 4}
      /\ fs[1] = WFrame("userDtor", w) /\ fs[2] = WFrame("commonDtor", w)
      /\ fs[3] = WFrame("endDelete", w)
      /\ Len(fs) = 4 => fs[4] = WFrame("objRefDrop", w)
  BY DEF DestructorFrames
<1>4. ASSUME NEW j \in 1..Len(fs)
      PROVE  fs[j].op \in {"userDtor", "commonDtor", "endDelete", "objRefDrop"}
  <2>1. j = 1 \/ j = 2 \/ j = 3 \/ (j = 4 /\ Len(fs) = 4)
    <3>1. CASE Len(fs) = 3
      BY <3>1
    <3>2. CASE Len(fs) = 4
      BY <3>2
    <3>. QED  BY <1>3, <3>1, <3>2
  <2>. QED  BY <1>3, <2>1 DEF WFrame
<1>. QED  BY <1>2, <1>4

\* a destructor begins and nothing is changed but the status of its wrapper
LEMMA DestructorMoves ==
    ASSUME Ground, TypeOK', NEW b \in Nat, NEW w \in Wrap,
           Rebuilt(b, DestructorFrames(w)), Covers(b), Drops(b, DestructorFrames(w)),
           b < Len(Tower) => At(Tower, b).op \notin {"commonDtor"} \cup TenseOps,
           DestroysWrapper(w), CalmData
    PROVE  Moves
<1>. DEFINE fs == DestructorFrames(w)
<1>1. /\ fs \in Seq(Frame)
      /\ \A j \in 1..Len(fs) :
            fs[j].op \in {"userDtor", "commonDtor", "endDelete", "objRefDrop"}
  BY DestructorSeq
<1>2. fs = DestructorFrames(w)
  OBVIOUS
<1>. HIDE DEF fs
<1>3. Rebuilt(b, fs) /\ Drops(b, fs)
  BY <1>2
<1>4. Fits(b, fs)
  BY <1>2, <1>3, DestructorFits
<1>5. CalmFrames(b, fs)
  BY <1>1 DEF CalmFrames
<1>6. Keeps(b, fs)
  BY <1>3, <1>5, CalmKeeps DEF Calm
<1>. QED  BY <1>1, <1>3, <1>4, <1>6 DEF Moves

LEMMA DerefGood ==
    ASSUME Ground, TypeOK', Deref(GuiThread)
    PROVE  Good
<1>0. TypeOK /\ wr \in [Wrap -> WrRecord] /\ pd \in [Wrap -> PdRecord]
  BY DEF Ground, TypeOK
<1>1. PICK w \in Wrap : w = Top(GuiThread).w /\ Tower # <<>> /\ Top(GuiThread).op = "deref"
                        /\ Top(GuiThread) = WFrame("deref", w)
  BY ThreadAssumption, TopArguments, TowerTop, FrameAt
     DEF Deref, AtTop, Running, WOps, Ground, Tower
<1>2. wr[w].status # "free"
  <2>1. Len(Tower) - 1 \in Heights(Tower) /\ At(Tower, Len(Tower) - 1) \in OwingFrames(w)
    BY <1>0, <1>1, TowerTop DEF OwingFrames
  <2>. QED  BY <2>1, OwedNotFree DEF Ground
<1>3. UNCHANGED <<qt, map, qwm, fault>>
  BY <1>1, <1>2 DEF Deref
<1>4. \/ /\ wr' = [wr EXCEPT ![w].refs = @ - 1] /\ UNCHANGED pd /\ Return(GuiThread)
      \/ /\ wr' = [wr EXCEPT ![w].refs = IF pd[w].obj_ref THEN 0 ELSE 1]
         /\ pd' = [pd EXCEPT ![w].obj_ref = TRUE] /\ Return(GuiThread)
      \/ /\ wr[w].status = "ok" /\ wr' = [wr EXCEPT ![w] = Wr("deleting", 1, @.held)]
         /\ UNCHANGED pd /\ Calls(GuiThread, DestructorFrames(w))
      \/ /\ wr[w].status # "ok" /\ wr' = [wr EXCEPT ![w] = NoWr]
         /\ UNCHANGED pd /\ Return(GuiThread)
  BY <1>1, <1>2 DEF Deref
<1>5. \A v \in Wrap : pd'[v].obj = pd[v].obj /\ pd'[v].attached = pd[v].attached
  BY <1>0, <1>4 DEF PdRecord
<1>6. CalmData
  BY <1>0, <1>3, <1>5, SameData
<1>7. CASE Return(GuiThread) /\ \A v \in Wrap : wr'[v].status = "ok" <=> wr[v].status = "ok"
  <2>1. OkSame(Len(Tower) - 1)
    BY <1>0, <1>1, <1>5, <1>7, SameOk
  <2>2. Moves
    BY <1>1, <1>6, <1>7, <2>1, CalmReturn
  <2>. QED  BY <1>3, <2>2 DEF Good, Harmless
<1>8. CASE /\ wr[w].status = "ok" /\ wr' = [wr EXCEPT ![w] = Wr("deleting", 1, @.held)]
           /\ UNCHANGED pd /\ Calls(GuiThread, DestructorFrames(w))
  <2>. DEFINE b == Len(Tower) - 1
  <2>1. /\ DestructorFrames(w) \in Seq(Frame) /\ Rebuilt(b, DestructorFrames(w))
        /\ b \in Nat /\ b # Len(Tower) /\ At(Tower, b) = Top(GuiThread)
    BY <1>0, <1>1, <1>8, DestructorSeq, CallsRebuild, TowerTop
  <2>2. Covers(b) /\ Drops(b, DestructorFrames(w))
    BY <1>1, <1>8, <2>1 DEF Covers, Drops
  <2>3. DestroysWrapper(w)
    BY <1>0, <1>8 DEF DestroysWrapper, Wr
  <2>4. Moves
    <3>. HIDE DEF b
    <3>. QED  BY <1>1, <1>6, <2>1, <2>2, <2>3, DestructorMoves
  <2>. QED  BY <1>3, <2>4 DEF Good, Harmless
<1>9. CASE /\ wr' = [wr EXCEPT ![w].refs = @ - 1] /\ UNCHANGED pd /\ Return(GuiThread)
  BY <1>0, <1>7, <1>9 DEF WrRecord
<1>10. CASE /\ wr' = [wr EXCEPT ![w].refs = IF pd[w].obj_ref THEN 0 ELSE 1]
            /\ pd' = [pd EXCEPT ![w].obj_ref = TRUE] /\ Return(GuiThread)
  BY <1>0, <1>7, <1>10 DEF WrRecord
<1>11. CASE /\ wr[w].status # "ok" /\ wr' = [wr EXCEPT ![w] = NoWr]
            /\ UNCHANGED pd /\ Return(GuiThread)
  BY <1>0, <1>7, <1>11 DEF NoWr, Wr
<1>. QED  BY <1>4, <1>8, <1>9, <1>10, <1>11

LEMMA PdDerefGood ==
    ASSUME Ground, TypeOK', PdDeref(GuiThread)
    PROVE  Good
<1>0. TypeOK /\ pd \in [Wrap -> PdRecord]
  BY DEF Ground, TypeOK
<1>1. PICK w \in Wrap : w = Top(GuiThread).w /\ Tower # <<>> /\ Top(GuiThread).op = "pdDeref"
                        /\ Top(GuiThread) = WFrame("pdDeref", w)
  <2>1. Top(GuiThread).op = "pdDeref" /\ Tower # <<>>
    BY DEF PdDeref, AtTop, Running, Tower
  <2>2. Top(GuiThread).w \in Wrap
    BY <1>0, <2>1, ThreadAssumption, TopArguments DEF WOps, Tower
  <2>3. Top(GuiThread) = WFrame("pdDeref", Top(GuiThread).w)
    BY <1>0, <2>1, TowerTop, FrameAt DEF WOps
  <2>. QED  BY <2>1, <2>2, <2>3
<1>2. ASSUME Return(GuiThread), UNCHANGED <<qt, wr, map, qwm, fault>>,
             \A v \in Wrap : pd'[v].obj = pd[v].obj /\ pd'[v].attached = pd[v].attached
      PROVE  Good
  <2>1. OkSame(Len(Tower) - 1) /\ CalmData
    BY <1>0, <1>1, <1>2, SameOk, SameData
  <2>2. Moves
    BY <1>1, <1>2, <2>1, CalmReturn
  <2>. QED  BY <1>2, <2>2 DEF Good, Harmless
<1>3. CASE pd[w].refs > 1
  <2>1. /\ pd' = [pd EXCEPT ![w].refs = @ - 1]
        /\ Return(GuiThread) /\ UNCHANGED <<qt, wr, map, qwm, fault>>
    BY <1>1, <1>3 DEF PdDeref
  <2>. QED  BY <1>0, <1>2, <2>1 DEF PdRecord
<1>4. CASE ~(pd[w].refs > 1) /\ pd[w].obj_ref
  <2>1. Abort("obj_ref")
    BY <1>1, <1>4 DEF PdDeref
  <2>. QED  BY <2>1, AbortGood
<1>5. CASE ~(pd[w].refs > 1) /\ ~pd[w].obj_ref
  <2>1. pd[w].obj = None /\ ~pd[w].attached
    BY <1>1, <1>5, LastUse
  <2>2. /\ pd' = [pd EXCEPT ![w] = NoPd] /\ map' = map
        /\ Calls(GuiThread, <<>>) /\ UNCHANGED <<qt, wr, qwm, fault>>
    BY <1>1, <1>5, <2>1 DEF PdDeref
  <2>3. \A v \in Wrap : pd'[v].obj = pd[v].obj /\ pd'[v].attached = pd[v].attached
    <3>1. pd[w].attached = FALSE
      BY <1>0, <2>1, PdFields
    <3>2. pd'[w] = NoPd /\ \A v \in Wrap \ {w} : pd'[v] = pd[v]
      BY <1>0, <2>2
    <3>3. pd'[w].obj = None /\ pd'[w].attached = FALSE
      BY <3>2 DEF NoPd
    <3>4. pd'[w].obj = pd[w].obj /\ pd'[w].attached = pd[w].attached
      BY <2>1, <3>1, <3>3, Zenon
    <3>. QED  BY <3>2, <3>4, Zenon
  <2>. QED  BY <1>2, <2>2, <2>3 DEF Return
<1>. QED  BY <1>3, <1>4, <1>5

LEMMA ObjRefDropGood ==
    ASSUME Ground, TypeOK', ObjRefDrop(GuiThread)
    PROVE  Good
<1>0. TypeOK /\ pd \in [Wrap -> PdRecord]
  BY DEF Ground, TypeOK
<1>1. PICK w \in Wrap : w = Top(GuiThread).w /\ Tower # <<>> /\ Top(GuiThread).op = "objRefDrop"
  BY ThreadAssumption, TopArguments DEF ObjRefDrop, AtTop, Running, WOps, Ground, Tower
<1>2. /\ pd' = [pd EXCEPT ![w].obj_ref = FALSE] /\ UNCHANGED <<qt, wr, map, qwm, fault>>
      /\ \/ Return(GuiThread)
         \/ Calls(GuiThread, <<WFrame("deref", w)>>)
  BY <1>1 DEF ObjRefDrop, Return
<1>3. \A v \in Wrap : pd'[v].obj = pd[v].obj /\ pd'[v].attached = pd[v].attached
  BY <1>0, <1>2 DEF PdRecord
<1>4. OkSame(Len(Tower) - 1) /\ CalmData
  BY <1>0, <1>1, <1>2, <1>3, SameOk, SameData
<1>5. CASE Return(GuiThread)
  <2>1. Moves
    BY <1>1, <1>4, <1>5, CalmReturn
  <2>. QED  BY <1>2, <2>1 DEF Good, Harmless
<1>6. CASE Calls(GuiThread, <<WFrame("deref", w)>>)
  <2>. DEFINE f == WFrame("deref", w)
              fs == <<f>>
  <2>1. f \in Frame /\ f.op \in FreeOps /\ f.w = w /\ f.op \in DropOps
    BY WFrameType DEF WOps, WFrame, FreeOps, DropOps
  <2>2. TopOk(f)'
    BY <2>1, FreeTop
  <2>. HIDE DEF f
  <2>3. /\ fs \in Seq(Frame) /\ Len(fs) = 1 /\ fs[1] = f
        /\ \A j \in 1..Len(fs) : QuietAt(fs, j)
    BY <2>1, QuietOne
  <2>4. Drops(Len(Tower) - 1, fs)
    <3>1. At(Tower, Len(Tower) - 1).w = w
      BY <1>0, <1>1, TowerTop
    <3>2. wr' = wr
      BY <1>2
    <3>. QED  BY <2>1, <2>3, <3>1, <3>2 DEF Drops
  <2>5. TopOk(fs[1])'
    BY <2>2, <2>3
  <2>6. Calls(GuiThread, fs)
    BY <1>6 DEF f
  <2>. HIDE DEF fs
  <2>7. Moves
    BY <1>1, <1>4, <2>3, <2>4, <2>5, <2>6, CalmCalls
  <2>. QED  BY <1>2, <2>7 DEF Good, Harmless
<1>. QED  BY <1>2, <1>5, <1>6

LEMMA MethodCallGood ==
    ASSUME Ground, TypeOK', MethodCall(GuiThread)
    PROVE  Good
<1>0. TypeOK
  BY DEF Ground
<1>1. PICK w \in Wrap : w = Top(GuiThread).w /\ Tower # <<>> /\ Top(GuiThread).op = "methodCall"
  BY ThreadAssumption, TopArguments DEF MethodCall, AtTop, Running, WOps, Ground, Tower
<1>2. pd[w].obj # None
  <2>1. TopOk(At(Tower, Len(Tower) - 1)) /\ At(Tower, Len(Tower) - 1) = Top(GuiThread)
    BY <1>0, <1>1, TowerTop DEF Ground, StackInv, SummitOk
  <2>. QED  BY <1>1, <2>1 DEF TopOk
<1>3. Live(pd[w].obj)
  BY <1>1, <1>2, PointsLive
<1>4. Return(GuiThread) /\ UNCHANGED <<qt, wr, pd, map, qwm, fault>>
  BY <1>1, <1>2, <1>3 DEF MethodCall, Live
<1>5. OkSame(Len(Tower) - 1) /\ CalmData
  BY <1>0, <1>1, <1>4, SameOk, SameData
<1>6. Moves
  BY <1>1, <1>4, <1>5, CalmReturn
<1>. QED  BY <1>4, <1>6 DEF Good, Harmless

LEMMA MapHitGood ==
    ASSUME Ground, TypeOK', MapHit(GuiThread)
    PROVE  Good
<1>0. TypeOK /\ wr \in [Wrap -> WrRecord]
  BY DEF Ground, TypeOK
<1>1. PICK w \in Wrap : w = Top(GuiThread).w /\ Tower # <<>> /\ Top(GuiThread).op = "mapHit"
  BY ThreadAssumption, TopArguments DEF MapHit, AtTop, Running, WOps, Ground, Tower
<1>2. wr[w].status # "free"
  <2>1. TopOk(At(Tower, Len(Tower) - 1)) /\ At(Tower, Len(Tower) - 1) = Top(GuiThread)
    BY <1>0, <1>1, TowerTop DEF Ground, StackInv, SummitOk
  <2>. QED  BY <1>1, <2>1 DEF TopOk
<1>3. /\ Return(GuiThread) /\ UNCHANGED <<qt, pd, map, qwm, fault>>
      /\ wr' = [wr EXCEPT ![w] = Wr(@.status, @.refs + 1, @.held + 1)]
  BY <1>1, <1>2 DEF MapHit
<1>4. \A v \in Wrap : wr'[v].status = wr[v].status
  BY <1>0, <1>3 DEF Wr
<1>5. OkSame(Len(Tower) - 1) /\ CalmData
  BY <1>0, <1>1, <1>3, <1>4, SameOk, SameData
<1>6. Moves
  BY <1>1, <1>3, <1>5, CalmReturn
<1>. QED  BY <1>3, <1>6 DEF Good, Harmless

LEMMA LoopMoves ==
    ASSUME Ground, TypeOK', Tower # <<>>, Top(GuiThread).op = "deleteAll",
           UNCHANGED <<qt, wr, pd, map, qwm>>,
           NEW fs \in Seq(Frame), NEW more \in Frame, more.op = "deleteAll",
           more.s \subseteq Top(GuiThread).s,
           \/ fs = <<more>>
           \/ \E a \in Top(GuiThread).s : fs = <<AFrame("qtDestroy", a), more>>,
           Calls(GuiThread, fs)
    PROVE  Moves
<1>. DEFINE n == Len(Tower) - 1
<1>0. TypeOK /\ Tower \in Seq(Frame)
  BY ThreadAssumption DEF Ground, TypeOK, Tower
<1>1. PICK b : b = n
  OBVIOUS
<1>2. /\ b \in Nat /\ Len(Tower) = b + 1 /\ b # Len(Tower) /\ At(Tower, b) = Top(GuiThread)
      /\ b \in Heights(Tower)
  BY <1>0, <1>1, TowerTop
<1>3. Rebuilt(b, fs)
  BY <1>0, <1>1, CallsRebuild
<1>4. FitAt(Tower, b) /\ LoopAt(b)
  BY <1>2 DEF Ground, StackInv, Fitted, DataInv, LoopOk
<1>5. /\ b >= 1 /\ At(Tower, b - 1).op = "dtorRest" /\ qt[At(Tower, b - 1).a].kind = "app"
      /\ \A a \in Top(GuiThread).s : qt[a].kind # "app"
  BY <1>2, <1>4 DEF FitAt, LoopAt
<1>6. /\ Len(fs) \in {1, 2} /\ fs[Len(fs)] = more
      /\ Len(fs) = 2 => \E a \in Top(GuiThread).s : fs[1] = AFrame("qtDestroy", a)
  <2>1. CASE fs = <<more>>
    <3>1. Len(fs) = 1 /\ fs[1] = more
      BY <2>1
    <3>. QED  BY <3>1
  <2>2. ASSUME NEW a \in Top(GuiThread).s, fs = <<AFrame("qtDestroy", a), more>> PROVE <1>6
    <3>1. Len(fs) = 2 /\ fs[1] = AFrame("qtDestroy", a) /\ fs[2] = more
      BY <2>2
    <3>. QED  BY <3>1
  <2>. QED  BY <2>1, <2>2
<1>7. /\ Len(Tower') = b + Len(fs)
      /\ At(Tower', b) = more /\ At(Tower', b - 1) = At(Tower, b - 1)
  <2>0. Len(fs) = 1 \/ Len(fs) = 2
    BY <1>6
  <2>1. Len(fs) \in 1..Len(fs) /\ b + Len(fs) - Len(fs) = b /\ b - 1 \in 0 .. b - 1
    <3>1. CASE Len(fs) = 1
      BY <1>2, <1>5, <3>1
    <3>2. CASE Len(fs) = 2
      BY <1>2, <1>5, <3>2
    <3>. QED  BY <2>0, <3>1, <3>2
  <2>. QED  BY <1>3, <1>6, <2>1 DEF Rebuilt, Grows
<1>8. ASSUME NEW j \in 1..Len(fs)
      PROVE  \/ j = Len(fs) /\ fs[j] = more /\ b + Len(fs) - j = b
             \/ /\ j = 1 /\ Len(fs) = 2 /\ b + Len(fs) - j = b + 1
                /\ \E a \in Top(GuiThread).s : fs[j] = AFrame("qtDestroy", a)
  <2>1. j = Len(fs) \/ (j = 1 /\ Len(fs) = 2)
    BY <1>6
  <2>. QED  BY <1>2, <1>6, <2>1
<1>9. OkSame(b) /\ CalmData
  BY <1>0, <1>1, SameOk, SameData
<1>10. Covers(b) /\ Drops(b, fs) /\ Statuses(b, fs)
  BY <1>2, <1>9, OkSameStatuses DEF Covers, Drops, DropOps
<1>11. FitAt(Tower', b)
  BY <1>5, <1>7 DEF FitAt, LeafOps
<1>12. Fits(b, fs)
  <2>1. ASSUME NEW j \in 1..Len(fs)
        PROVE  /\ FitAt(Tower', b + Len(fs) - j)
               /\ fs[j].op # "endDelete"
               /\ fs[j].op = "qtDestroy" => j = 1
    <3>1. CASE j = Len(fs) /\ fs[j] = more /\ b + Len(fs) - j = b
      BY <1>11, <3>1
    <3>2. CASE /\ j = 1 /\ b + Len(fs) - j = b + 1
               /\ \E a \in Top(GuiThread).s : fs[j] = AFrame("qtDestroy", a)
      <4>1. At(Tower', b + Len(fs) - j) = fs[j] /\ fs[j].op = "qtDestroy"
        BY <1>3, <3>2 DEF Rebuilt, Grows, AFrame
      <4>. QED  BY <3>2, <4>1 DEF FitAt, LeafOps
    <3>. QED  BY <1>8, <3>1, <3>2
  <2>2. TopOk(fs[1])'
    <3>1. fs[1].op \in {"deleteAll", "qtDestroy"}
      BY <1>6 DEF AFrame
    <3>. QED  BY <3>1, FreeTop
  <2>. QED  BY <1>10, <2>1, <2>2 DEF Fits
<1>13. CalmFrames(b, fs)
  <2>1. ASSUME NEW j \in 1..Len(fs)
        PROVE  /\ fs[j].op \notin RestOps
               /\ fs[j].op = "qtDestroy" => qt[fs[j].a].kind # "app"
               /\ fs[j].op = "deleteAll" =>
                     /\ qt'[At(Tower', b + Len(fs) - j - 1).a].kind = "app"
                     /\ \A a \in fs[j].s : qt'[a].kind # "app"
    <3>1. CASE j = Len(fs) /\ fs[j] = more /\ b + Len(fs) - j = b
      <4>1. b + Len(fs) - j - 1 = b - 1
        BY <1>2, <3>1
      <4>. QED  BY <1>5, <1>7, <3>1, <4>1
    <3>2. CASE \E a \in Top(GuiThread).s : fs[j] = AFrame("qtDestroy", a)
      <4>1. PICK a \in Top(GuiThread).s : fs[j] = AFrame("qtDestroy", a)
        BY <3>2
      <4>2. fs[j].op = "qtDestroy" /\ fs[j].a = a
        BY <4>1 DEF AFrame
      <4>. QED  BY <1>5, <4>2
    <3>. QED  BY <1>8, <3>1, <3>2
  <2>. QED  BY <1>2, <2>1 DEF CalmFrames
<1>14. Keeps(b, fs)
  BY <1>3, <1>9, <1>10, <1>13, CalmKeeps DEF Calm
<1>. QED  BY <1>2, <1>3, <1>12, <1>14 DEF Moves

LEMMA DeleteAllGood ==
    ASSUME Ground, TypeOK', DeleteAll(GuiThread)
    PROVE  Good
<1>0. TypeOK
  BY DEF Ground
<1>1. PICK s \in SUBSET Addr : s = Top(GuiThread).s /\ Tower # <<>> /\ Top(GuiThread).op = "deleteAll"
  BY ThreadAssumption, TopArguments DEF DeleteAll, AtTop, Running, Ground, Tower
<1>2. CASE s = {}
  <2>1. Return(GuiThread) /\ UNCHANGED <<qt, wr, pd, map, qwm, fault>>
    BY <1>1, <1>2 DEF DeleteAll
  <2>2. OkSame(Len(Tower) - 1) /\ CalmData
    BY <1>0, <1>1, <2>1, SameOk, SameData
  <2>3. Moves
    BY <1>1, <2>1, <2>2, CalmReturn
  <2>. QED  BY <2>1, <2>3 DEF Good, Harmless
<1>3. CASE s # {}
  <2>1. PICK a \in s :
          IF qt[a].state = "free" THEN Abort("deleteAll_dangling")
          ELSE /\ Calls(GuiThread, IF qt[a].parent = None
                                   THEN <<AFrame("qtDestroy", a), LoopFrame(s \ {a})>>
                                   ELSE <<LoopFrame(s \ {a})>>)
               /\ UNCHANGED <<qt, wr, pd, map, qwm, fault>>
    BY <1>1, <1>3 DEF DeleteAll
  <2>2. CASE qt[a].state = "free"
    BY <2>1, <2>2, AbortGood
  <2>3. CASE qt[a].state # "free"
    <3>. DEFINE more == LoopFrame(s \ {a})
    <3>1. more \in Frame /\ more.op = "deleteAll" /\ more.s \subseteq s /\ AFrame("qtDestroy", a) \in Frame
      BY LoopFrameType, AFrameType DEF LoopFrame, AOps
    <3>2. UNCHANGED <<qt, wr, pd, map, qwm, fault>>
      BY <2>1, <2>3
    <3>3. \/ Calls(GuiThread, <<more>>)
          \/ Calls(GuiThread, <<AFrame("qtDestroy", a), more>>)
      BY <2>1, <2>3
    <3>. HIDE DEF more
    <3>4. <<more>> \in Seq(Frame) /\ <<AFrame("qtDestroy", a), more>> \in Seq(Frame)
      BY <3>1, Seqs
    <3>5. CASE Calls(GuiThread, <<more>>)
      <4>1. Moves
        BY <1>1, <3>1, <3>2, <3>4, <3>5, LoopMoves
      <4>. QED  BY <3>2, <4>1 DEF Good, Harmless
    <3>6. CASE Calls(GuiThread, <<AFrame("qtDestroy", a), more>>)
      <4>. DEFINE fs == <<AFrame("qtDestroy", a), more>>
      <4>1. /\ fs \in Seq(Frame) /\ Calls(GuiThread, fs)
            /\ \E x \in Top(GuiThread).s : fs = <<AFrame("qtDestroy", x), more>>
        BY <1>1, <3>4, <3>6
      <4>. HIDE DEF fs
      <4>2. Moves
        BY <1>1, <3>1, <3>2, <4>1, LoopMoves
      <4>. QED  BY <3>2, <4>2 DEF Good, Harmless
    <3>. QED  BY <3>3, <3>5, <3>6
  <2>. QED  BY <2>2, <2>3
<1>. QED  BY <1>2, <1>3

LEMMA UserStill ==
    ASSUME Ground, TypeOK', UserCode(GuiThread), UNCHANGED <<wr, stack, fault>>, CalmData,
           \A w \in Wrap : pd'[w].attached => pd[w].attached
    PROVE  Good
<1>1. OkSame(Len(Tower))
  BY SameOk DEF Ground
<1>2. Tower # <<>> => Top(GuiThread).op \in CallerOps
  BY UserTop
<1>3. Moves
  BY <1>1, <1>2, CalmStill
<1>. QED  BY <1>3 DEF Good, Harmless

LEMMA QtReparentGood ==
    ASSUME Ground, TypeOK', NEW a \in Addr, NEW p \in Addr \cup {None},
           QtReparent(GuiThread, a, p)
    PROVE  Good
<1>1. /\ UserCode(GuiThread) /\ qt[a].kind \in {"object", "widget"}
      /\ qt' = [qt EXCEPT ![a].parent = p] /\ UNCHANGED <<wr, pd, map, qwm, stack, fault>>
  BY DEF QtReparent
<1>2. qt \in [Addr -> QtRecord]
  BY DEF Ground, TypeOK
<1>3. CalmData
  BY <1>1, <1>2 DEF CalmData, QtRecord
<1>. QED  BY <1>1, <1>3, UserStill

LEMMA SetExternallyOwnedGood ==
    ASSUME Ground, TypeOK', NEW w \in Wrap, SetExternallyOwned(GuiThread, w)
    PROVE  Good
<1>1. /\ UserCode(GuiThread) /\ pd' = [pd EXCEPT ![w].eo = TRUE]
      /\ qt' = [qt EXCEPT ![pd[w].obj].taken = TRUE]
      /\ UNCHANGED <<wr, map, qwm, stack, fault>>
  BY DEF SetExternallyOwned
<1>2. qt \in [Addr -> QtRecord] /\ pd \in [Wrap -> PdRecord]
  BY DEF Ground, TypeOK
<1>3. \A v \in Wrap : pd'[v].obj = pd[v].obj /\ pd'[v].attached = pd[v].attached
  BY <1>1, <1>2 DEF PdRecord
<1>4. \A a \in Addr : /\ qt'[a].state = qt[a].state /\ qt'[a].kind = qt[a].kind
                      /\ qt'[a].bound = qt[a].bound /\ qt'[a].parent = qt[a].parent
  BY <1>1, <1>2 DEF QtRecord
<1>5. CalmData
  BY <1>1, <1>3, <1>4 DEF CalmData
<1>. QED  BY <1>1, <1>3, <1>5, UserStill

LEMMA SetParentGood ==
    ASSUME Ground, TypeOK', NEW w \in Wrap, NEW p \in Addr \cup {None},
           SetParent(GuiThread, w, p)
    PROVE  Good
<1>1. UserCode(GuiThread) /\ pd[w].obj # None /\ pd[w].obj \in Addr /\ qt[pd[w].obj].kind = "widget"
  BY PdFields DEF SetParent, Ground
<1>2. PICK a \in Addr : a = pd[w].obj
  BY <1>1
<1>3. CASE Abort("qwm_add")
  BY <1>3, AbortGood
<1>4. CASE ~Abort("qwm_add")
  <2>1. /\ qt' = [qt EXCEPT ![a].parent = p]
        /\ qwm' = IF p = None THEN QwmAdd(a) ELSE QwmRemove(a)
        /\ UNCHANGED <<wr, pd, map, stack, fault>>
    BY <1>2, <1>4 DEF SetParent
  <2>2. qt \in [Addr -> QtRecord] /\ qwm \in [set : SUBSET Addr, done : BOOLEAN]
    BY DEF Ground, TypeOK
  <2>3. qwm'.done = qwm.done /\ qwm'.set \subseteq qwm.set \cup {a}
    <3>1. CASE p = None
      BY <2>1, <2>2, <3>1 DEF QwmAdd
    <3>2. CASE p # None
      BY <2>1, <2>2, <3>2 DEF QwmRemove
    <3>. QED  BY <3>1, <3>2
  <2>4. \A x \in Addr : /\ qt'[x].state = qt[x].state /\ qt'[x].kind = qt[x].kind
                        /\ qt'[x].bound = qt[x].bound
                        /\ qt'[x].parent = qt[x].parent \/ x = a
    BY <2>1, <2>2 DEF QtRecord
  <2>5. CalmData
    BY <1>1, <1>2, <2>1, <2>3, <2>4 DEF CalmData
  <2>. QED  BY <1>1, <2>1, <2>5, UserStill
<1>. QED  BY <1>3, <1>4

\* what a program enters
LEMMA UserEnter ==
    ASSUME Ground, TypeOK', UserCode(GuiThread), UNCHANGED fault, CalmData,
           NEW fs \in Seq(Frame), Enter(GuiThread, fs),
           \A w \in Wrap : /\ wr'[w].status = wr[w].status
                           /\ pd'[w].attached => pd[w].attached,
           \A j \in 1..Len(fs) : QuietAt(fs, j),
           Len(fs) > 0 => TopOk(fs[1])'
    PROVE  Good
<1>1. Statuses(Len(Tower), fs)
  BY SameOk, OkSameStatuses DEF Ground
<1>2. Tower # <<>> => Top(GuiThread).op \in CallerOps
  BY UserTop
<1>3. Moves
  BY <1>1, <1>2, CalmEnter
<1>. QED  BY <1>3 DEF Good, Harmless

LEMMA QtDeleteGood ==
    ASSUME Ground, TypeOK', NEW a \in Addr, QtDelete(GuiThread, a)
    PROVE  Good
<1>. DEFINE f == AFrame("qtDestroy", a)
            fs == <<f>>
<1>1. /\ UserCode(GuiThread) /\ qt[a].kind # "app" /\ Enter(GuiThread, fs)
      /\ UNCHANGED <<qt, wr, pd, map, qwm, fault>>
  BY DEF QtDelete
<1>2. f \in Frame /\ f.op = "qtDestroy" /\ f.a = a
  BY AFrameType DEF AOps, AFrame
<1>. HIDE DEF f
<1>3. fs \in Seq(Frame) /\ Len(fs) = 1 /\ fs[1] = f
  BY <1>2
<1>4. \A j \in 1..Len(fs) : QuietAt(fs, j)
  <2>1. SUFFICES ASSUME NEW j \in 1..Len(fs) PROVE QuietAt(fs, j)
    OBVIOUS
  <2>2. j = 1
    BY <1>3
  <2>. QED  BY <1>1, <1>2, <1>3, <2>2 DEF QuietAt, SimpleAt
<1>5. TopOk(fs[1])'
  BY <1>2, <1>3, FreeTop
<1>. HIDE DEF fs
<1>6. CalmData
  BY <1>1, SameData DEF Ground
<1>. QED  BY <1>1, <1>3, <1>4, <1>5, <1>6, UserEnter

LEMMA ReleaseGood ==
    ASSUME Ground, TypeOK', NEW w \in Wrap, Release(GuiThread, w)
    PROVE  Good
<1>. DEFINE f == WFrame("deref", w)
            fs == <<f>>
<1>1. /\ UserCode(GuiThread) /\ wr' = [wr EXCEPT ![w].held = @ - 1]
      /\ Enter(GuiThread, fs) /\ UNCHANGED <<qt, pd, map, qwm, fault>>
  BY DEF Release
<1>2. f \in Frame /\ f.op \in FreeOps
  BY WFrameType DEF WOps, WFrame, FreeOps
<1>3. TopOk(f)'
  BY <1>2, FreeTop
<1>. HIDE DEF f
<1>4. /\ fs \in Seq(Frame) /\ fs[1] = f /\ \A j \in 1..Len(fs) : QuietAt(fs, j)
  BY <1>2, QuietOne
<1>. HIDE DEF fs
<1>5. \A v \in Wrap : wr'[v].status = wr[v].status
  BY <1>1 DEF Ground, TypeOK, WrRecord
<1>6. CalmData
  BY <1>1, SameData DEF Ground
<1>. QED  BY <1>1, <1>3, <1>4, <1>5, <1>6, UserEnter

LEMMA CommonMethodGood ==
    ASSUME Ground, TypeOK', NEW w \in Wrap, CommonMethod(GuiThread, w)
    PROVE  Good
<1>. DEFINE f == WFrame("methodCall", w)
            g == WFrame("pdDeref", w)
            fs == <<f, g>>
<1>1. /\ UserCode(GuiThread) /\ pd[w].obj # None
      /\ pd' = [pd EXCEPT ![w].refs = @ + 1]
      /\ Enter(GuiThread, fs) /\ UNCHANGED <<qt, wr, map, qwm, fault>>
  BY DEF CommonMethod
<1>2. /\ f \in Frame /\ f.op = "methodCall" /\ f.w = w
      /\ g \in Frame /\ g.op \in FreeOps
  BY WFrameType DEF WOps, WFrame, FreeOps
<1>3. \A v \in Wrap : pd'[v].obj = pd[v].obj /\ pd'[v].attached = pd[v].attached
  BY <1>1 DEF Ground, TypeOK, PdRecord
<1>4. TopOk(f)'
  BY <1>1, <1>2, <1>3 DEF TopOk, MissOps
<1>. HIDE DEF f, g
<1>5. /\ fs \in Seq(Frame) /\ fs[1] = f /\ \A j \in 1..Len(fs) : QuietAt(fs, j)
  BY <1>2, QuietTwo DEF LeafOps
<1>. HIDE DEF fs
<1>6. CalmData
  BY <1>1, <1>3, SameData DEF Ground
<1>. QED  BY <1>1, <1>3, <1>4, <1>5, <1>6, UserEnter

LEMMA ReturnObjectGood ==
    ASSUME Ground, TypeOK', NEW a \in Addr, NEW const \in BOOLEAN,
           ReturnObject(GuiThread, a, const)
    PROVE  Good
<1>0. TypeOK
  BY DEF Ground
<1>1. PICK miss \in MissOps :
        /\ UserCode(GuiThread) /\ Live(a)
        /\ Enter(GuiThread, <<Lookup(a, miss)>>) /\ UNCHANGED <<qt, wr, pd, map, qwm, fault>>
  BY DEF ReturnObject, MissOps
<1>2. PICK f : f = Lookup(a, miss)
  OBVIOUS
<1>. DEFINE fs == <<f>>
<1>3. f \in Frame /\ f.op \in SimpleOps /\ TopOk(f)'
  <2>1. CASE map[a] # None
    <3>1. map[a] \in Wrap /\ wr[map[a]].status # "free"
      BY <2>1, EntryPoints, PointingThere
    <3>2. f = WFrame("mapHit", map[a]) /\ f \in Frame
      BY <1>2, <2>1, <3>1, WFrameType DEF Lookup, WOps
    <3>3. f.op = "mapHit" /\ f.w = map[a]
      BY <3>2 DEF WFrame
    <3>4. wr' = wr
      BY <1>1
    <3>5. f.op \in SimpleOps
      BY <3>3
    <3>6. f.op \notin MissOps \cup HearOps \cup ClearOps \cup GiveOps
      BY <3>3 DEF MissOps
    <3>7. wr'[f.w].status # "free"
      BY <3>1, <3>3, <3>4
    <3>8. TopOk(f)'
      <4>. HIDE DEF HearOps, GiveOps, ClearOps
      <4>. QED  BY <3>3, <3>6, <3>7, Zenon DEF TopOk
    <3>. QED  BY <3>2, <3>5, <3>8
  <2>2. CASE map[a] = None
    <3>1. f = AFrame(miss, a) /\ f \in Frame
      BY <1>2, <2>2, AFrameType DEF Lookup, AOps, MissOps
    <3>2. f.op = miss /\ f.a = a
      BY <3>1 DEF AFrame
    <3>3. qt' = qt /\ map' = map
      BY <1>1
    <3>4. f.op \in SimpleOps /\ f.op \notin CallbackOps \cup ClearOps \cup {"mapHit", "methodCall"}
      BY <3>2 DEF MissOps
    <3>5. qt'[f.a].state = "live" /\ map'[f.a] = None
      BY <1>1, <2>2, <3>2, <3>3 DEF Live
    <3>6. /\ f.op # "deleted" /\ f.op \notin HearOps /\ f.op \notin GiveOps /\ f.op \notin ClearOps
          /\ f.op # "mapHit" /\ f.op # "methodCall"
      BY <3>4
    <3>7. TopOk(f)'
      <4>. HIDE DEF HearOps, GiveOps, ClearOps
      <4>. QED  BY <3>5, <3>6, Zenon DEF TopOk, Live
    <3>. QED  BY <3>1, <3>4, <3>7
  <2>. QED  BY <2>1, <2>2
<1>4. Enter(GuiThread, fs)
  BY <1>1, <1>2
<1>5. /\ fs \in Seq(Frame) /\ fs[1] = f /\ \A j \in 1..Len(fs) : QuietAt(fs, j)
  BY <1>3, QuietOne
<1>. HIDE DEF fs
<1>6. CalmData
  BY <1>0, <1>1, SameData
<1>7. UNCHANGED fault /\ \A w \in Wrap : /\ wr'[w].status = wr[w].status
                                         /\ pd'[w].attached => pd[w].attached
  BY <1>1
<1>. QED  BY <1>1, <1>3, <1>4, <1>5, <1>6, <1>7, UserEnter

LEMMA DeleteGood ==
    ASSUME Ground, TypeOK', NEW w \in Wrap, Delete(GuiThread, w)
    PROVE  Good
<1>0. TypeOK /\ wr \in [Wrap -> WrRecord]
  BY DEF Ground, TypeOK
<1>1. /\ UserCode(GuiThread) /\ wr[w].status = "ok"
      /\ wr' = [wr EXCEPT ![w] = Wr("deleting", @.refs + 1, @.held)]
      /\ Enter(GuiThread, DestructorFrames(w)) /\ UNCHANGED <<qt, pd, map, qwm, fault>>
  BY DEF Delete
<1>2. CalmData /\ DestroysWrapper(w)
  BY <1>0, <1>1, SameData DEF DestroysWrapper, Wr
<1>. DEFINE b == Len(Tower)
<1>3. b \in Nat /\ ~(b < Len(Tower)) /\ Rebuilt(b, DestructorFrames(w))
  <2>1. Tower \in Seq(Frame)
    BY <1>0, ThreadAssumption DEF TypeOK, Tower
  <2>2. Rebuilt(b, DestructorFrames(w))
    BY <1>0, <1>1, DestructorFramesType, EnterRebuilds
  <2>. QED  BY <2>1, <2>2
<1>4. Covers(b) /\ Drops(b, DestructorFrames(w))
  <2>1. Tower # <<>> => At(Tower, b - 1).op \in CallerOps
    BY <1>0, <1>1, UserTop, TowerTop
  <2>2. b > 0 => Tower # <<>>
    OBVIOUS
  <2>. QED  BY <1>3, <2>1, <2>2 DEF Covers, Drops
<1>. HIDE DEF b
<1>5. Moves
  BY <1>2, <1>3, <1>4, DestructorMoves
<1>. QED  BY <1>1, <1>5 DEF Good, Harmless

-----------------------------------------------------------------------------
(* Steps that make a wrapper *)

\* a destructor of Qt is not covered by calls other than the return of a reference
LEMMA DestroysAbove ==
    ASSUME Ground, NEW b, NEW fs, Rebuilt(b, fs), Covers(b),
           b < Len(Tower) => At(Tower, b).op \notin DropOps,
           NEW h \in 0 .. b - 1
    PROVE  At(Tower, h).op # "qtDestroy"
<1>1. /\ Len(Tower) \in Nat /\ b \in Nat /\ b <= Len(Tower) /\ b >= Len(Tower) - 1
      /\ h \in Heights(Tower) /\ h \in Int /\ h >= 0 /\ h <= b - 1
  BY DEF Rebuilt, Heights
<1>2. SUFFICES ASSUME At(Tower, h).op = "qtDestroy" PROVE FALSE
  OBVIOUS
<1>3. \/ h = Len(Tower) - 1
      \/ h = Len(Tower) - 2 /\ At(Tower, h + 1).op \in DropOps
  BY <1>1, <1>2 DEF Ground, StackInv, DestroyLast
<1>4. CASE b = Len(Tower)
  <2>1. At(Tower, b - 1).op \in CallerOps
    BY <1>1, <1>4 DEF Covers
  <2>2. h = b - 1 \/ (h + 1 = b - 1 /\ At(Tower, h + 1).op \in DropOps)
    BY <1>1, <1>3, <1>4
  <2>. QED  BY <1>2, <2>1, <2>2 DEF CallerOps, DropOps
<1>5. CASE b = Len(Tower) - 1
  <2>1. h + 1 = b /\ At(Tower, h + 1).op \in DropOps
    BY <1>1, <1>3, <1>5
  <2>. QED  BY <1>1, <1>5, <2>1
<1>. QED  BY <1>1, <1>4, <1>5

\* the rest of common_destructor and what it stands for
LEMMA RestThere ==
    ASSUME Ground, NEW h \in Heights(Tower), At(Tower, h).op \in RestOps
    PROVE  /\ At(Tower, h).w \in Wrap /\ At(Tower, h).a \in Addr /\ At(Tower, h).a # None
           /\ pd[At(Tower, h).w].obj = At(Tower, h).a /\ ~pd[At(Tower, h).w].attached
           /\ Live(At(Tower, h).a)
           /\ wr[At(Tower, h).w].status \notin {"free", "ok"}
<1>1. Tower \in Seq(Frame)
  BY ThreadAssumption DEF Ground, TypeOK, Tower
<1>2. At(Tower, h).w \in Wrap /\ At(Tower, h).a \in Addr /\ RestAt(h)
  BY <1>1, FrameAt DEF Ground, DataInv, RestOk
<1>3. At(Tower, h).a # None
  BY <1>2, NoneAssumption
<1>4. wr[At(Tower, h).w].status \notin {"free", "ok"}
  BY <1>2, EndingThere
<1>. QED  BY <1>2, <1>3, <1>4 DEF RestAt

\* the map leads from what is pointed to back, unless a call has just taken it off
LEMMA PointedMapped ==
    ASSUME Ground, NEW w \in Wrap, pd[w].obj # None,
           Tower # <<>> => Top(GuiThread).op \notin EndOps
    PROVE  map[pd[w].obj] = w
<1>1. ~InEnd(GuiThread)
  BY DEF InEnd, Tower
<1>. QED  BY <1>1 DEF Ground, IdentityInv, MapInv, Settled

LEMMA CoveredTop ==
    ASSUME TypeOK, NEW b \in Nat, NEW fs, Rebuilt(b, fs), Covers(b), NEW S,
           b < Len(Tower) => At(Tower, b).op \notin S, CallerOps \cap S = {}
    PROVE  Tower # <<>> => Top(GuiThread).op \notin S
<1>1. SUFFICES ASSUME Tower # <<>> PROVE Top(GuiThread).op \notin S
  OBVIOUS
<1>2. Top(GuiThread) = At(Tower, Len(Tower) - 1) /\ Len(Tower) >= 1
  BY <1>1, TowerTop
<1>3. Len(Tower) \in Nat /\ b <= Len(Tower) /\ b >= Len(Tower) - 1
  BY DEF Rebuilt
<1>4. CASE b = Len(Tower)
  BY <1>2, <1>3, <1>4 DEF Covers
<1>5. CASE b = Len(Tower) - 1
  BY <1>2, <1>3, <1>5
<1>. QED  BY <1>3, <1>4, <1>5

LEMMA MakeMoves ==
    ASSUME Ground, TypeOK', NEW w \in Wrap, FreeWrap(w),
           NEW b \in Nat, NEW fs \in Seq(Frame), Rebuilt(b, fs), Covers(b),
           b < Len(Tower) => At(Tower, b).op \in MissOps,
           fs = <<>> \/ fs = <<WFrame("ctorBody", w)>>,
           NEW a \in Addr, NEW kind, NEW p, NEW eo \in BOOLEAN,
           NewPrivate(w, a, kind, p, eo), map[a] = None,
           qt'[a].state = "live", qt'[a].kind = kind, ObjectOk(a)',
           \A x \in Addr \ {a} : qt'[x] = qt[x],
           kind = "app" => qt[a].kind = "app" \/ \A x \in Addr : qt[x].kind # "app"
    PROVE  Moves
<1>0. /\ wr \in [Wrap -> WrRecord] /\ pd \in [Wrap -> PdRecord]
      /\ map \in [Addr -> Wrap \cup {None}]
  BY DEF Ground, TypeOK
<1>1. /\ wr'[w].status = "ok" /\ pd'[w].attached /\ pd'[w].obj = a
      /\ map'[a] = w /\ a # None
      /\ \A v \in Wrap \ {w} : wr'[v] = wr[v] /\ pd'[v] = pd[v]
      /\ \A x \in Addr \ {a} : map'[x] = map[x]
  BY <1>0, NoneAssumption DEF NewPrivate, Wr
<1>2. /\ qwm'.done = qwm.done
      /\ \A x \in qwm'.set : x \in qwm.set \/ (x = a /\ kind = "widget")
  <2>1. qwm \in [set : SUBSET Addr, done : BOOLEAN]
    BY DEF Ground, TypeOK
  <2>. QED  BY <2>1 DEF NewPrivate, QwmAdd, IsWindow
<1>3. wr[w].status = "free" /\ pd[w].obj = None /\ ~pd[w].attached
  BY DEF FreeWrap, Ground, IdentityInv, PrivateOk
<1>4. \A v \in Wrap : pd[v].obj # None => v # w /\ pd[v].obj # a
  <2>1. CallerOps \cap EndOps = {} /\ MissOps \cap EndOps = {}
    BY DEF CallerOps, MissOps, EndOps
  <2>2. Tower # <<>> => Top(GuiThread).op \notin EndOps
    BY <2>1, CoveredTop DEF Ground
  <2>. QED  BY <1>1, <1>3, <2>2, PointedMapped, NoneAssumption
<1>5. Len(Tower) \in Nat /\ b <= Len(Tower) /\ b >= Len(Tower) - 1 /\ Tower \in Seq(Frame)
  BY DEF Rebuilt
<1>6. \A j \in 1..Len(fs) : fs[j].op = "ctorBody"
  <2>1. CASE fs = <<>>
    BY <2>1
  <2>2. CASE fs = <<WFrame("ctorBody", w)>>
    BY <2>2 DEF WFrame
  <2>. QED  BY <2>1, <2>2
<1>7. b < Len(Tower) => At(Tower, b).op \notin DropOps \cup {"commonDtor"} \cup RestOps
  BY DEF DropOps, MissOps
<1>8. Fits(b, fs)
  <2>1. Drops(b, fs)
    BY <1>7 DEF Drops
  <2>2. Statuses(b, fs)
    <3>1. SUFFICES ASSUME NEW v \in Wrap
                   PROVE  /\ wr'[v].status = "ok" => wr[v].status \in {"ok", "free"}
                          /\ pd'[v].attached =>
                                \/ wr'[v].status = "ok"
                                \/ /\ pd[v].attached /\ wr[v].status # "ok"
                                   /\ b < Len(Tower) => At(Tower, b) # WFrame("commonDtor", v)
      BY DEF Statuses
    <3>2. b < Len(Tower) => At(Tower, b) # WFrame("commonDtor", v)
      BY <1>7 DEF WFrame
    <3>3. CASE v = w
      BY <1>1, <1>3, <3>3
    <3>4. CASE v # w
      <4>1. wr'[v] = wr[v] /\ pd'[v] = pd[v]
        BY <1>1, <3>4
      <4>. QED  BY <3>2, <4>1
    <3>. QED  BY <3>3, <3>4
  <2>3. \A j \in 1..Len(fs) : SimpleAt(fs, j)
    BY <1>6 DEF SimpleAt, FreeOps
  <2>4. Len(fs) > 0 => TopOk(fs[1])'
    <3>1. SUFFICES ASSUME Len(fs) > 0 PROVE TopOk(fs[1])'
      OBVIOUS
    <3>2. fs[1].op \in FreeOps
      BY <1>6, <3>1 DEF FreeOps
    <3>. QED  BY <3>2, FreeTop
  <2>. QED  BY <2>1, <2>2, <2>3, <2>4, SimpleFits
<1>9. RestsKept(b, fs)
  <2>1. ASSUME NEW h \in 0 .. b - 1, At(Tower, h).op \in RestOps
        PROVE  /\ pd'[At(Tower, h).w] = pd[At(Tower, h).w]
               /\ qt'[At(Tower, h).a] = qt[At(Tower, h).a]
    <3>1. h \in Heights(Tower)
      BY <1>5 DEF Heights
    <3>2. At(Tower, h).w # w /\ At(Tower, h).a # a
      BY <1>3, <1>4, <2>1, <3>1, RestThere
    <3>. QED  BY <1>1, <2>1, <3>1, <3>2, RestThere
  <2>2. \A h \in 0 .. b - 1 : h \in Heights(Tower)
    BY <1>5 DEF Heights
  <2>3. \A j \in 1..Len(fs) : fs[j].op \notin RestOps
    BY <1>6
  <2>. QED  BY <2>1, <2>2, <2>3, RestThere DEF RestsKept, Live
<1>10. LooseKept(b, fs)
  <2>1. SUFFICES ASSUME NEW v \in Wrap, pd'[v].obj # None, ~pd'[v].attached
                 PROVE  /\ pd'[v].obj = pd[v].obj /\ ~pd[v].attached
                        /\ b < Len(Tower) => At(Tower, b) \notin RestFrames(pd[v].obj, v)
    BY DEF LooseKept
  <2>2. v # w
    BY <1>1, <2>1
  <2>. QED  BY <1>1, <1>7, <2>1, <2>2 DEF RestFrames
<1>11. Tower # <<>> => Top(GuiThread).op \notin CallbackOps
  <2>1. CallerOps \cap CallbackOps = {} /\ MissOps \cap CallbackOps = {}
    BY DEF CallerOps, MissOps
  <2>. QED  BY <2>1, CoveredTop DEF Ground
<1>12. PointersKept(fs)
  <2>1. SUFFICES ASSUME NEW v \in Wrap, pd'[v].obj # None
                 PROVE  qt'[pd'[v].obj].state = "live"
    BY DEF PointersKept
  <2>2. CASE v = w
    BY <1>1, <2>2
  <2>3. CASE v # w
    <3>1. pd'[v] = pd[v] /\ pd[v].obj # None
      BY <1>1, <2>1, <2>3
    <3>2. pd[v].obj \in Addr /\ Live(pd[v].obj)
      BY <1>11, <3>1, PointsLive
    <3>. QED  BY <1>4, <3>1, <3>2 DEF Live
  <2>. QED  BY <2>2, <2>3
<1>13. \A x \in Addr : ObjectOk(x)'
  BY DEF Ground, DataInv, ObjectOk
<1>14. LoopsKept(b, fs)
  <2>1. \A j \in 1..Len(fs) : fs[j].op # "deleteAll"
    BY <1>6
  <2>2. \/ \A x \in Addr : qt'[x].kind = "app" => qt[x].kind = "app"
        \/ \A x \in Addr : qt[x].kind # "app"
    OBVIOUS
  <2>. QED  BY <2>1, <2>2 DEF LoopsKept
<1>15. AppsKept(b, fs)
  <2>1. \A j \in 1..Len(fs) : fs[j].op # "qtDestroy"
    BY <1>6
  <2>2. \A h \in 0 .. b - 1 : At(Tower, h).op # "qtDestroy"
    BY <1>7, DestroysAbove
  <2>. QED  BY <2>1, <2>2 DEF AppsKept
<1>16. SetOk'
  <2>1. SUFFICES ASSUME ~qwm'.done, NEW x \in qwm'.set
                 PROVE  qt'[x].kind = "widget" /\ \E v \in Wrap : pd'[v].obj = x
    BY DEF SetOk
  <2>2. CASE x = a /\ kind = "widget"
    BY <1>1, <2>2
  <2>3. CASE x \in qwm.set
    <3>1. x \in Addr /\ x # None
      BY <2>3, NoneAssumption DEF Ground, TypeOK
    <3>2. PICK v \in Wrap : pd[v].obj = x /\ qt[x].kind = "widget"
      BY <1>2, <2>1, <2>3 DEF Ground, DataInv, SetOk
    <3>3. v # w /\ x # a
      BY <1>4, <3>1, <3>2
    <3>. QED  BY <1>1, <3>1, <3>2, <3>3
  <2>. QED  BY <1>2, <2>2, <2>3
<1>17. MapSound'
  <2>1. SUFFICES ASSUME NEW x \in Addr, map'[x] # None PROVE pd'[map'[x]].obj = x
    BY DEF MapSound
  <2>2. CASE x = a
    BY <1>1, <2>2
  <2>3. CASE x # a
    <3>1. map'[x] = map[x] /\ map[x] \in Wrap /\ pd[map[x]].obj = x /\ pd[map[x]].obj # None
      BY <1>1, <2>1, <2>3, EntryPoints
    <3>. QED  BY <1>1, <1>4, <3>1
  <2>. QED  BY <2>2, <2>3
<1>18. Keeps(b, fs)
  BY <1>9, <1>10, <1>12, <1>13, <1>14, <1>15, <1>16, <1>17 DEF Keeps
<1>. QED  BY <1>8, <1>18 DEF Moves

LEMMA SummitTop ==
    ASSUME Ground, Tower # <<>>
    PROVE  TopOk(Top(GuiThread))
<1>1. Len(Tower) > 0 /\ Top(GuiThread) = At(Tower, Len(Tower) - 1)
  BY TowerTop DEF Ground
<1>. QED  BY <1>1 DEF Ground, StackInv, SummitOk

\* a call at the top of the stack returns
LEMMA ReturnRebuilds ==
    ASSUME Ground, TypeOK', Tower # <<>>, Return(GuiThread)
    PROVE  /\ Rebuilt(Len(Tower) - 1, <<>>) /\ Len(Tower) - 1 \in Nat
           /\ Len(Tower) - 1 # Len(Tower) /\ <<>> \in Seq(Frame)
           /\ At(Tower, Len(Tower) - 1) = Top(GuiThread)
<1>1. <<>> \in Seq(Frame) /\ Calls(GuiThread, <<>>) /\ TypeOK
  BY DEF Return, Ground
<1>2. /\ Len(Tower) \in Nat /\ Len(Tower) >= 1
      /\ At(Tower, Len(Tower) - 1) = Top(GuiThread)
  BY <1>1, TowerTop
<1>3. Rebuilt(Len(Tower) - 1, <<>>)
  BY <1>1, CallsRebuild
<1>. QED  BY <1>1, <1>2, <1>3

\* an address that is free is not in the map
LEMMA FreeUnmapped ==
    ASSUME Ground, Tower # <<>> => Top(GuiThread).op \notin CallbackOps,
           NEW a \in Addr, qt[a].state = "free"
    PROVE  map[a] = None
<1>1. SUFFICES ASSUME map[a] # None PROVE FALSE
  OBVIOUS
<1>2. map[a] \in Wrap /\ pd[map[a]].obj = a /\ pd[map[a]].obj # None
  BY <1>1, EntryPoints
<1>3. Live(a)
  BY <1>2, PointsLive
<1>. QED  BY <1>3 DEF Live

LEMMA CommonConstructorGood ==
    ASSUME Ground, TypeOK', NEW w \in Wrap, NEW a \in Addr, NEW kind \in Kinds,
           NEW p \in Addr \cup {None}, CommonConstructor(GuiThread, a, w, kind, p)
    PROVE  Good
<1>0. TypeOK
  BY DEF Ground
<1>1. /\ UserCode(GuiThread) /\ CanMake(a, kind, p) /\ FreeWrap(w)
      /\ Tower # <<>> => Top(GuiThread).op \in CallerOps
      /\ Tower # <<>> => Top(GuiThread).op \notin CallbackOps
  BY UserTop DEF CommonConstructor
<1>2. map[a] = None
  BY <1>1, FreeUnmapped DEF CanMake
<1>3. CASE PrivateFault(a, kind, p) # None
  <2>1. PrivateFault(a, kind, p) = "qwm_add" /\ Abort("qwm_add")
    BY <1>2, <1>3 DEF PrivateFault, CommonConstructor
  <2>. QED  BY <2>1, AbortGood
<1>4. CASE PrivateFault(a, kind, p) = None
  <2>. DEFINE b == Len(Tower)
              fs == <<WFrame("ctorBody", w)>>
  <2>1. /\ NewPrivate(w, a, kind, p, FALSE) /\ Enter(GuiThread, fs) /\ fault' = fault
        /\ qt' = [qt EXCEPT ![a] = NewQt(kind, TRUE, FALSE, p)]
    BY <1>4 DEF CommonConstructor
  <2>2. WFrame("ctorBody", w) \in Frame /\ fs \in Seq(Frame)
    BY WFrameType DEF WOps
  <2>3. b \in Nat /\ ~(b < Len(Tower))
    <3>1. Tower \in Seq(Frame)
      BY <1>0, ThreadAssumption DEF TypeOK, Tower
    <3>. QED  BY <3>1
  <2>4. Rebuilt(b, fs)
    BY <1>0, <2>1, <2>2, EnterRebuilds
  <2>5. Covers(b)
    <3>1. CASE Tower = <<>>
      BY <2>3, <3>1 DEF Covers
    <3>2. CASE Tower # <<>>
      BY <1>0, <1>1, <3>2, TowerTop DEF Covers
    <3>. QED  BY <3>1, <3>2
  <2>6. /\ qt'[a].state = "live" /\ qt'[a].kind = kind /\ qt'[a].bound
        /\ qt'[a].parent = p /\ \A x \in Addr \ {a} : qt'[x] = qt[x]
    BY <1>0, <2>1 DEF TypeOK, NewQt
  <2>7. ObjectOk(a)'
    BY <1>1, <2>6 DEF ObjectOk, CanMake, ParentOk
  <2>8. kind = "app" => \A x \in Addr : qt[x].kind # "app"
    BY <1>1 DEF CanMake
  <2>. HIDE DEF b, fs
  <2>9. Moves
    <3>1. fs = <<WFrame("ctorBody", w)>>
      BY DEF fs
    <3>. QED  BY <1>1, <1>2, <2>1, <2>2, <2>3, <2>4, <2>5, <2>6, <2>7, <2>8, <3>1, MakeMoves
  <2>. QED  BY <2>1, <2>9 DEF Good, Harmless
<1>. QED  BY <1>3, <1>4

LEMMA MapMissGood ==
    ASSUME Ground, TypeOK', NEW w \in Wrap, MapMiss(GuiThread, w)
    PROVE  Good
<1>0. TypeOK
  BY DEF Ground
<1>1. /\ Tower # <<>> /\ Top(GuiThread).op \in {"mapMiss", "mapMissOwned"} /\ FreeWrap(w)
  BY DEF MapMiss, AtTop, Running, Tower
<1>2. PICK a \in Addr : a = Top(GuiThread).a
  BY <1>0, <1>1, TopArguments, ThreadAssumption DEF AOps, Tower
<1>3. Live(a) /\ map[a] = None
  BY <1>1, <1>2, SummitTop DEF TopOk, MissOps
<1>. DEFINE f == PrivateFault(a, qt[a].kind, qt[a].parent)
<1>4. CASE f # None
  <2>1. f = "qwm_add" /\ Abort("qwm_add")
    BY <1>2, <1>3, <1>4 DEF PrivateFault, MapMiss, Live
  <2>. QED  BY <2>1, AbortGood
<1>5. CASE f = None
  <2>1. /\ NewPrivate(w, a, qt[a].kind, qt[a].parent, Top(GuiThread).op = "mapMiss")
        /\ Return(GuiThread) /\ UNCHANGED <<qt, fault>>
    BY <1>2, <1>3, <1>5 DEF MapMiss, Live
  <2>2. /\ Rebuilt(Len(Tower) - 1, <<>>) /\ Len(Tower) - 1 \in Nat
        /\ Len(Tower) - 1 # Len(Tower) /\ <<>> \in Seq(Frame)
        /\ At(Tower, Len(Tower) - 1) = Top(GuiThread)
    BY <1>1, <2>1, ReturnRebuilds
  <2>3. /\ Covers(Len(Tower) - 1) /\ Top(GuiThread).op \in MissOps
    BY <1>1, <2>2 DEF Covers, MissOps
  <2>4. /\ qt'[a].state = "live" /\ qt'[a].kind = qt[a].kind
        /\ \A x \in Addr \ {a} : qt'[x] = qt[x]
    BY <1>3, <2>1 DEF Live
  <2>5. ObjectOk(a)'
    BY <1>2, <2>1 DEF Ground, DataInv, ObjectOk
  <2>6. (Top(GuiThread).op = "mapMiss") \in BOOLEAN
    OBVIOUS
  <2>7. PICK b, eo, kind, p : /\ b = Len(Tower) - 1 /\ eo = (Top(GuiThread).op = "mapMiss")
                              /\ kind = qt[a].kind /\ p = qt[a].parent
    OBVIOUS
  <2>8. Moves
    <3>1. /\ Rebuilt(b, <<>>) /\ b \in Nat /\ Covers(b) /\ <<>> \in Seq(Frame)
          /\ b < Len(Tower) => At(Tower, b).op \in MissOps
      BY <2>2, <2>3, <2>7
    <3>2. /\ NewPrivate(w, a, kind, p, eo) /\ eo \in BOOLEAN
          /\ qt'[a].state = "live" /\ qt'[a].kind = kind
          /\ \A x \in Addr \ {a} : qt'[x] = qt[x]
          /\ kind = "app" => qt[a].kind = "app"
      BY <2>1, <2>4, <2>6, <2>7
    <3>. QED  BY <1>1, <1>3, <2>5, <3>1, <3>2, MakeMoves
  <2>. QED  BY <2>1, <2>8 DEF Good, Harmless
<1>. QED  BY <1>4, <1>5

LEMMA MapMissCopyGood ==
    ASSUME Ground, TypeOK', NEW w \in Wrap, NEW b \in Addr, MapMissCopy(GuiThread, w, b)
    PROVE  Good
<1>0. TypeOK
  BY DEF Ground
<1>1. /\ Tower # <<>> /\ Top(GuiThread).op = "mapMissCopy" /\ FreeWrap(w)
      /\ qt[b].state = "free"
  BY DEF MapMissCopy, AtTop, Running, Tower
<1>2. Top(GuiThread).a \in Addr /\ Live(Top(GuiThread).a)
  BY <1>0, <1>1, TopArguments, ThreadAssumption, SummitTop DEF AOps, Tower, TopOk, MissOps
<1>3. map[b] = None
  BY <1>1, FreeUnmapped
<1>4. /\ NewPrivate(w, b, "plain", None, FALSE)
      /\ qt' = [qt EXCEPT ![b] = NewQt("plain", TRUE, FALSE, None)]
      /\ Return(GuiThread) /\ UNCHANGED fault
  BY <1>2, <1>3 DEF MapMissCopy, Live
<1>5. /\ Rebuilt(Len(Tower) - 1, <<>>) /\ Len(Tower) - 1 \in Nat
      /\ Len(Tower) - 1 # Len(Tower) /\ <<>> \in Seq(Frame)
      /\ At(Tower, Len(Tower) - 1) = Top(GuiThread)
  BY <1>1, <1>4, ReturnRebuilds
<1>6. /\ Covers(Len(Tower) - 1) /\ Top(GuiThread).op \in MissOps
  BY <1>1, <1>5 DEF Covers, MissOps
<1>7. /\ qt'[b].state = "live" /\ qt'[b].kind = "plain" /\ qt'[b].bound
      /\ qt'[b].parent = None /\ \A x \in Addr \ {b} : qt'[x] = qt[x]
  BY <1>0, <1>4 DEF TypeOK, NewQt
<1>8. ObjectOk(b)'
  BY <1>7 DEF ObjectOk
<1>9. PICK h : h = Len(Tower) - 1
  OBVIOUS
<1>10. Moves
  <2>1. /\ Rebuilt(h, <<>>) /\ h \in Nat /\ Covers(h) /\ <<>> \in Seq(Frame)
        /\ h < Len(Tower) => At(Tower, h).op \in MissOps
    BY <1>5, <1>6, <1>9
  <2>2. FALSE \in BOOLEAN /\ "plain" # "app"
    OBVIOUS
  <2>. QED  BY <1>1, <1>3, <1>4, <1>7, <1>8, <2>1, <2>2, MakeMoves
<1>. QED  BY <1>4, <1>10 DEF Good, Harmless

-----------------------------------------------------------------------------
(* Steps that take a wrapper off its object *)

\* A call to clear() goes on: the object leaves the widget manager or the map.
LEMMA PhaseMoves ==
    ASSUME Ground, TypeOK', Tower # <<>>, NEW f, f = Top(GuiThread),
           NEW g \in Frame, Calls(GuiThread, <<g>>), g.op \in ClearOps, g.w = f.w,
           \/ f.op \in RestOps /\ g.op \in RestOps /\ g.a = f.a
           \/ f.op \in HearOps /\ g.op \in HearOps
           \/ f.op \in GiveOps /\ g.op \in GiveOps,
           UNCHANGED <<qt, wr, pd>>,
           \A a \in Addr : map'[a] = map[a] \/ map'[a] = None,
           qwm'.done = qwm.done, ~qwm.done => qwm'.set \subseteq qwm.set,
           qwm'.done \/ pd[g.w].obj \notin qwm'.set
    PROVE  Moves
<1>0. TypeOK /\ Tower \in Seq(Frame)
  BY ThreadAssumption DEF Ground, TypeOK, Tower
<1>1. PICK b : b = Len(Tower) - 1
  OBVIOUS
<1>2. /\ b \in Nat /\ Len(Tower) = b + 1 /\ b # Len(Tower) /\ At(Tower, b) = f
      /\ b \in Heights(Tower)
  BY <1>0, <1>1, TowerTop
<1>3. PICK fs \in Seq(Frame) : fs = <<g>> /\ Len(fs) = 1 /\ fs[1] = g
  <2>1. <<g>> \in Seq(Frame) /\ Len(<<g>>) = 1 /\ <<g>>[1] = g
    OBVIOUS
  <2>. QED  BY <2>1
<1>4. Rebuilt(b, fs)
  BY <1>0, <1>1, <1>3, CallsRebuild
<1>5. /\ Len(Tower') = b + 1 /\ At(Tower', b) = g
      /\ \A h \in 0 .. b - 1 : At(Tower', h) = At(Tower, h) /\ h \in Heights(Tower)
  <2>1. 1 \in 1..Len(fs) /\ b + Len(fs) - 1 = b
    BY <1>2, <1>3
  <2>. QED  BY <1>2, <1>3, <1>4, <2>1 DEF Rebuilt, Grows, Heights
<1>6. f.op \in RestOps =>
         /\ b >= 2 /\ At(Tower, b - 1) = WFrame("pdDeref", f.w)
         /\ At(Tower, b - 2) = WFrame("endDelete", f.w)
         /\ pd[f.w].obj = f.a /\ ~pd[f.w].attached /\ Live(f.a)
         /\ f.w \in Wrap
  <2>1. FitAt(Tower, b)
    BY <1>2 DEF Ground, StackInv, Fitted
  <2>. QED  BY <1>2, <2>1, RestThere DEF FitAt
<1>7. FitAt(Tower', b)
  <2>1. b >= 2 => b - 1 \in 0 .. b - 1 /\ b - 2 \in 0 .. b - 1
    BY <1>2
  <2>2. g.op \in RestOps => f.op \in RestOps
    OBVIOUS
  <2>. QED  BY <1>2, <1>5, <1>6, <2>1, <2>2 DEF FitAt
<1>8. OkSame(b)
  <2>1. At(Tower, b).op # "commonDtor"
    BY <1>2
  <2>. QED  BY <2>1 DEF OkSame, WFrame
<1>9. TopOk(g)'
  <2>1. TopOk(f)
    BY SummitTop
  <2>. QED  BY <2>1 DEF TopOk, MissOps, Dying
<1>10. Fits(b, fs)
  <2>1. Covers(b) /\ Drops(b, fs) /\ Statuses(b, fs)
    BY <1>2, <1>8, OkSameStatuses DEF Covers, Drops, DropOps
  <2>2. \A j \in 1..Len(fs) : /\ FitAt(Tower', b + Len(fs) - j)
                              /\ fs[j].op # "endDelete" /\ fs[j].op # "qtDestroy"
    <3>1. SUFFICES ASSUME NEW j \in 1..Len(fs)
                   PROVE  /\ FitAt(Tower', b + Len(fs) - j)
                          /\ fs[j].op # "endDelete" /\ fs[j].op # "qtDestroy"
      OBVIOUS
    <3>2. j = 1 /\ b + Len(fs) - j = b
      BY <1>2, <1>3
    <3>. QED  BY <1>3, <1>7, <3>2
  <2>. QED  BY <1>3, <1>9, <2>1, <2>2 DEF Fits
<1>11. RestsKept(b, fs)
  <2>1. ASSUME NEW h \in 0 .. b - 1, At(Tower, h).op \in RestOps
        PROVE  /\ pd'[At(Tower, h).w].obj = pd[At(Tower, h).w].obj
               /\ ~pd'[At(Tower, h).w].attached
               /\ qt'[At(Tower, h).a].state = "live"
               /\ qt'[At(Tower, h).a].kind = qt[At(Tower, h).a].kind
    BY <1>5, <2>1, RestThere DEF Live
  <2>2. ASSUME NEW j \in 1..Len(fs), fs[j].op \in RestOps
        PROVE  /\ pd'[fs[j].w].obj = fs[j].a
               /\ ~pd'[fs[j].w].attached
               /\ qt'[fs[j].a].state = "live"
               /\ j = 1
               /\ \A h \in 0 .. b - 1 : At(Tower, h).op \in RestOps => At(Tower, h).w # fs[j].w
               /\ \A k \in 1..Len(fs) : k = j
    <3>1. j = 1 /\ fs[j] = g /\ f.op \in RestOps /\ g.a = f.a
      BY <1>3, <2>2
    <3>2. ASSUME NEW h \in 0 .. b - 1, At(Tower, h).op \in RestOps PROVE At(Tower, h).w # fs[j].w
      <4>1. h # b /\ h \in Heights(Tower)
        BY <1>2, <1>5
      <4>. QED  BY <1>2, <3>1, <3>2, <4>1 DEF Ground, DataInv, RestOk
    <3>. QED  BY <1>3, <1>6, <3>1, <3>2 DEF Live
  <2>. QED  BY <2>1, <2>2 DEF RestsKept
<1>12. LooseKept(b, fs)
  <2>1. SUFFICES ASSUME NEW v \in Wrap, pd'[v].obj # None, ~pd'[v].attached,
                        At(Tower, b) \in RestFrames(pd[v].obj, v)
                 PROVE  \E j \in 1..Len(fs) : fs[j] \in RestFrames(pd'[v].obj, v)
    BY DEF LooseKept
  <2>2. f.op \in RestOps /\ f.w = v /\ f.a = pd[v].obj
    BY <1>2, <2>1 DEF RestFrames
  <2>3. g.op \in RestOps /\ g.a = f.a
    BY <2>2
  <2>. QED  BY <1>3, <2>2, <2>3 DEF RestFrames
<1>13. PointersKept(fs)
  <2>1. SUFFICES ASSUME NEW v \in Wrap, pd[v].obj # None, ~Live(pd[v].obj)
                 PROVE  Hears(g, pd[v].obj, v)
    BY <1>3 DEF PointersKept, Live
  <2>2. Hears(f, pd[v].obj, v)
    BY <1>1, <1>2, <2>1 DEF Ground, DataInv, PointerOk
  <2>. QED  BY <2>2 DEF Hears, AFrame
<1>14. LoopsKept(b, fs)
  BY <1>3 DEF LoopsKept
<1>15. AppsKept(b, fs)
  <2>1. ASSUME NEW h \in 0 .. b - 1, At(Tower, h).op = "qtDestroy",
               qt[At(Tower, h).a].kind = "app", NEW v \in Wrap
        PROVE  pd[v].obj # At(Tower, h).a
    BY <1>5, <2>1 DEF Ground, DataInv, AppSafe, Unpointed
  <2>. QED  BY <1>3, <2>1 DEF AppsKept
<1>16. SetOk'
  BY DEF Ground, DataInv, SetOk
<1>17. MapSound'
  <2>1. SUFFICES ASSUME NEW a \in Addr, map'[a] # None PROVE pd[map'[a]].obj = a
    BY DEF MapSound
  <2>. QED  BY <2>1, EntryPoints
<1>18. \A a \in Addr : ObjectOk(a)'
  BY DEF Ground, DataInv, ObjectOk
<1>19. Keeps(b, fs)
  BY <1>11, <1>12, <1>13, <1>14, <1>15, <1>16, <1>17, <1>18 DEF Keeps
<1>. QED  BY <1>2, <1>4, <1>10, <1>19 DEF Moves

\* Private data loses its pointer, which has neither an entry nor a window any
\* more; what it pointed to may be deleted.
LEMMA ClearKeeps ==
    ASSUME Ground, TypeOK', NEW w \in Wrap, pd[w].obj # None, Reset(w),
           map' = map, map[pd[w].obj] = None,
           qwm' = qwm, qwm.done \/ pd[w].obj \notin qwm.set,
           \A x \in Addr : /\ qt'[x].state = qt[x].state /\ qt'[x].kind = qt[x].kind
                           /\ qt'[x].bound = qt[x].bound /\ qt'[x].parent = qt[x].parent,
           NEW b, NEW fs, Rebuilt(b, fs), Covers(b),
           \A h \in 0 .. b - 1 : At(Tower, h).op \in RestOps => At(Tower, h).w # w,
           b < Len(Tower) /\ At(Tower, b).op \in RestOps => At(Tower, b).w = w,
           Tower # <<>> /\ Top(GuiThread).op \in CallbackOps =>
               Top(GuiThread).op \in HearOps /\ Top(GuiThread).w = w,
           \A j \in 1..Len(fs) :
               /\ fs[j].op \notin {"deleteAll"} \cup RestOps
               /\ fs[j].op = "qtDestroy" => fs[j].a = pd[w].obj
    PROVE  Keeps(b, fs)
<1>. DEFINE o == pd[w].obj
<1>0. /\ Len(Tower) \in Nat /\ b \in Nat /\ b <= Len(Tower) /\ b >= Len(Tower) - 1
      /\ TypeOK /\ o \in Addr
  BY PdFields DEF Rebuilt, Ground
<1>1. /\ pd'[w].obj = None /\ pd'[w].attached = pd[w].attached
      /\ \A v \in Wrap \ {w} : pd'[v] = pd[v]
      /\ map'[o] = None /\ \A x \in Addr \ {o} : map'[x] = map[x]
  BY <1>0, ClearFields
<1>3. \A v \in Wrap \ {w} : pd[v].obj # o
  BY OnePointer
<1>4. \A h \in 0 .. b - 1 : h \in Heights(Tower)
  BY <1>0 DEF Heights
<1>5. RestsKept(b, fs)
  <2>1. ASSUME NEW h \in 0 .. b - 1, At(Tower, h).op \in RestOps
        PROVE  /\ pd'[At(Tower, h).w].obj = pd[At(Tower, h).w].obj
               /\ ~pd'[At(Tower, h).w].attached
               /\ qt'[At(Tower, h).a].state = "live"
               /\ qt'[At(Tower, h).a].kind = qt[At(Tower, h).a].kind
    BY <1>1, <1>4, <2>1, RestThere DEF Live
  <2>. QED  BY <2>1 DEF RestsKept
<1>6. LooseKept(b, fs)
  <2>1. SUFFICES ASSUME NEW v \in Wrap, pd'[v].obj # None, ~pd'[v].attached
                 PROVE  /\ pd'[v].obj = pd[v].obj /\ ~pd[v].attached
                        /\ b < Len(Tower) => At(Tower, b) \notin RestFrames(pd[v].obj, v)
    BY DEF LooseKept
  <2>2. v # w
    BY <1>1, <2>1
  <2>. QED  BY <1>1, <2>1, <2>2 DEF RestFrames
<1>7. PointersKept(fs)
  <2>1. SUFFICES ASSUME NEW v \in Wrap, pd'[v].obj # None
                 PROVE  qt'[pd'[v].obj].state = "live"
    BY DEF PointersKept
  <2>2. v # w /\ pd'[v] = pd[v] /\ pd[v].obj # None /\ pd[v].obj \in Addr
    BY <1>0, <1>1, <2>1, PdFields
  <2>3. Live(pd[v].obj)
    <3>1. CASE Len(Tower) > 0 /\ Hears(At(Tower, Len(Tower) - 1), pd[v].obj, v)
      <4>1. Tower # <<>> /\ Hears(Top(GuiThread), pd[v].obj, v)
        <5>1. Tower # <<>>
          BY <3>1
        <5>. QED  BY <1>0, <3>1, <5>1, TowerTop
      <4>2. Top(GuiThread).op \in CallbackOps
        BY <4>1 DEF Hears, AFrame
      <4>3. Top(GuiThread).op \in HearOps /\ Top(GuiThread).w = w
        BY <4>1, <4>2
      <4>. QED  BY <2>2, <4>1, <4>3 DEF Hears, AFrame
    <3>. QED  BY <2>2, <3>1 DEF Ground, DataInv, PointerOk
  <2>. QED  BY <2>2, <2>3 DEF Live
<1>8. \A x \in Addr : ObjectOk(x)'
  BY DEF Ground, DataInv, ObjectOk
<1>9. LoopsKept(b, fs)
  BY DEF LoopsKept
<1>10. AppsKept(b, fs)
  <2>1. ASSUME NEW h \in 0 .. b - 1, At(Tower, h).op = "qtDestroy",
               qt'[At(Tower, h).a].kind = "app", NEW v \in Wrap
        PROVE  pd'[v].obj # At(Tower, h).a
    <3>1. Unpointed(At(Tower, h).a) /\ At(Tower, h).a \in Addr /\ At(Tower, h).a # None
      BY <1>4, <2>1, FrameAt, NoneAssumption DEF Rebuilt, Ground, DataInv, AppSafe, AOps
    <3>2. pd[v].obj # At(Tower, h).a
      BY <2>1, <3>1 DEF Unpointed
    <3>. QED  BY <1>1, <3>1, <3>2
  <2>2. \A v \in Wrap : pd'[v].obj # o
    BY <1>1, <1>3
  <2>. QED  BY <2>1, <2>2 DEF AppsKept
<1>11. SetOk'
  <2>1. SUFFICES ASSUME ~qwm'.done, NEW x \in qwm'.set
                 PROVE  qt'[x].kind = "widget" /\ \E v \in Wrap : pd'[v].obj = x
    BY DEF SetOk
  <2>2. x \in Addr
    BY <2>1 DEF TypeOK
  <2>3. PICK v \in Wrap : pd[v].obj = x /\ qt[x].kind = "widget"
    BY <2>1 DEF Ground, DataInv, SetOk
  <2>4. v # w
    BY <2>1, <2>3
  <2>. QED  BY <1>1, <2>2, <2>3, <2>4
<1>12. MapSound'
  <2>1. SUFFICES ASSUME NEW x \in Addr, map'[x] # None PROVE pd'[map'[x]].obj = x
    BY DEF MapSound
  <2>2. x # o /\ map'[x] = map[x]
    BY <1>1, <2>1
  <2>. QED  BY <1>1, <2>1, <2>2, EntryPoints
<1>. QED  BY <1>5, <1>6, <1>7, <1>8, <1>9, <1>10, <1>11, <1>12 DEF Keeps

\* clear() asserts nothing that fails
LEMMA NoClearFault ==
    ASSUME Ground, NEW w \in Wrap, pd[w].obj # None
    PROVE  ClearFault(w) = None
BY DEF ClearFault

\* taken off the widget manager
LEMMA WindowCleared ==
    ASSUME Ground, NEW w \in Wrap, pd[w].obj # None, ClearWindow(w)
    PROVE  /\ qwm'.done = qwm.done /\ (~qwm.done => qwm'.set \subseteq qwm.set)
           /\ qwm'.done \/ pd[w].obj \notin qwm'.set
<1>1. qwm \in [set : SUBSET Addr, done : BOOLEAN]
  BY DEF Ground, TypeOK
<1>2. CASE isWidget(pd[w].obj)
  BY <1>1, <1>2 DEF ClearWindow, QwmRemove
<1>3. CASE ~isWidget(pd[w].obj)
  <2>1. qwm' = qwm
    BY <1>3 DEF ClearWindow
  <2>2. qwm.done \/ pd[w].obj \notin qwm.set
    BY <1>3 DEF Ground, DataInv, SetOk, isWidget
  <2>. QED  BY <2>1, <2>2
<1>. QED  BY <1>2, <1>3

\* the object of a call to clear()
LEMMA ClearedObject ==
    ASSUME Ground, Tower # <<>>, Top(GuiThread).op \in ClearOps
    PROVE  /\ Top(GuiThread).w \in Wrap /\ pd[Top(GuiThread).w].obj # None
           /\ qwm.done \/ pd[Top(GuiThread).w].obj \notin qwm.set
           /\ Top(GuiThread).op \in EndOps => map[pd[Top(GuiThread).w].obj] = None
<1>1. /\ Len(Tower) - 1 \in Heights(Tower) /\ Top(GuiThread) = At(Tower, Len(Tower) - 1)
      /\ Tower \in Seq(Frame)
  BY TowerTop DEF Ground
<1>2. qwm.done \/ pd[Top(GuiThread).w].obj \notin qwm.set
  BY SummitTop DEF TopOk
<1>3. ASSUME Top(GuiThread).op \in RestOps
      PROVE  Top(GuiThread).w \in Wrap /\ pd[Top(GuiThread).w].obj # None
  <2>1. At(Tower, Len(Tower) - 1).op \in RestOps
    BY <1>1, <1>3
  <2>. QED  BY <1>1, <2>1, RestThere
<1>4. ASSUME Top(GuiThread).op \notin RestOps
      PROVE  Top(GuiThread).w \in Wrap /\ pd[Top(GuiThread).w].obj # None
  <2>1. Top(GuiThread).op \in WOps
    BY <1>4 DEF WOps
  <2>2. Top(GuiThread).w \in Wrap
    BY <1>1, <2>1, FrameAt
  <2>3. Top(GuiThread).op \in HearOps \/ Top(GuiThread).op \in GiveOps
    BY <1>4
  <2>4. pd[Top(GuiThread).w].obj # None
    BY <2>3, SummitTop DEF TopOk
  <2>. QED  BY <2>2, <2>4
<1>5. ASSUME Top(GuiThread).op \in EndOps, pd[Top(GuiThread).w].obj # None
      PROVE  map[pd[Top(GuiThread).w].obj] = None
  <2>1. InEnd(GuiThread)
    BY <1>5 DEF InEnd, Tower
  <2>. QED  BY <1>5, <2>1 DEF Ground, IdentityInv, MapInv
<1>. QED  BY <1>2, <1>3, <1>4, <1>5

LEMMA MapDelGood ==
    ASSUME Ground, TypeOK', MapDel(GuiThread)
    PROVE  Good /\ fault' = fault
<1>0. TypeOK
  BY DEF Ground
<1>1. PICK f : f = Top(GuiThread)
  OBVIOUS
<1>2. Tower # <<>> /\ f.op \in DelOps /\ f.op \in ClearOps
  BY <1>0, <1>1, MapDelStep, ThreadAssumption DEF Tower, DelOps
<1>3. f.w \in Wrap /\ pd[f.w].obj # None /\ (qwm.done \/ pd[f.w].obj \notin qwm.set)
  BY <1>1, <1>2, ClearedObject
<1>4. map[pd[f.w].obj] = f.w
  <2>1. f.op \notin EndOps
    BY <1>2 DEF DelOps, EndOps
  <2>. QED  BY <1>1, <1>3, <2>1, PointedMapped
<1>5. DelFault(f.w) = None
  BY <1>3, <1>4, MapNone DEF DelFault
<1>6. PICK g \in Frame :
         /\ g = [f EXCEPT !.op = EndOf(f.op)] /\ Calls(GuiThread, <<g>>)
         /\ map' = [map EXCEPT ![pd[f.w].obj] = None]
         /\ UNCHANGED <<qt, wr, pd, qwm, fault>>
  <2>. DEFINE e == [f EXCEPT !.op = EndOf(@)]
  <2>1. f \in Frame
    BY <1>0, <1>1, <1>2, TowerTop, FrameAt
  <2>2. e \in Frame
    BY <1>2, <2>1, EndFrameType
  <2>3. /\ Calls(GuiThread, <<e>>) /\ map' = [map EXCEPT ![pd[f.w].obj] = None]
        /\ UNCHANGED <<qt, wr, pd, qwm, fault>>
    BY <1>1, <1>3, <1>5 DEF MapDel
  <2>. QED  BY <2>2, <2>3
<1>7. g.w = f.w /\ g.a = f.a /\ g.op = EndOf(f.op)
  BY <1>0, <1>1, <1>2, <1>6, TowerTop, FrameAt DEF Frame
<1>8. /\ g.op \in ClearOps
      /\ \/ f.op \in RestOps /\ g.op \in RestOps
         \/ f.op \in HearOps /\ g.op \in HearOps
         \/ f.op \in GiveOps /\ g.op \in GiveOps
  BY <1>2, <1>7 DEF EndOf, DelOps
<1>9. \A a \in Addr : map'[a] = map[a] \/ map'[a] = None
  BY <1>0, <1>6 DEF TypeOK
<1>10. Moves
  BY <1>1, <1>2, <1>3, <1>6, <1>7, <1>8, <1>9, PhaseMoves
<1>. QED  BY <1>6, <1>10 DEF Good, Harmless

LEMMA DtorRestGood ==
    ASSUME Ground, TypeOK', DtorRest(GuiThread)
    PROVE  Good /\ fault' = fault
<1>0. TypeOK
  BY DEF Ground
<1>1. Tower # <<>> /\ Top(GuiThread).op = "dtorRest"
  BY DEF DtorRest, AtTop, Running, Tower
<1>2. PICK f : f = Top(GuiThread)
  OBVIOUS
<1>3. PICK w \in Wrap, a \in Addr : w = f.w /\ a = f.a
  BY <1>0, <1>1, <1>2, TowerTop, RestThere
<1>4. pd[w].obj = a /\ a # None /\ qt[a].state # "free"
  BY <1>0, <1>1, <1>2, <1>3, TowerTop, RestThere DEF Live
<1>5. ClearFault(w) = None
  BY <1>4, NoClearFault
<1>6. PICK way \in RestDelOps :
        /\ ClearWindow(w) /\ Calls(GuiThread, <<RestFrame(way, a, w)>>)
        /\ UNCHANGED <<qt, wr, pd, map, fault>>
  BY <1>2, <1>3, <1>4, <1>5 DEF DtorRest
<1>7. PICK g \in Frame : /\ g = RestFrame(way, a, w) /\ g.op \in RestDelOps
                         /\ g.w = f.w /\ g.a = f.a
  <2>1. RestFrame(way, a, w) \in Frame
    BY RestFrameType
  <2>2. /\ RestFrame(way, a, w).op = way /\ RestFrame(way, a, w).w = w
        /\ RestFrame(way, a, w).a = a
    BY DEF RestFrame
  <2>. QED  BY <1>3, <2>1, <2>2
<1>8. /\ qwm'.done = qwm.done /\ (~qwm.done => qwm'.set \subseteq qwm.set)
      /\ qwm'.done \/ pd[w].obj \notin qwm'.set
  BY <1>4, <1>6, WindowCleared
<1>9. Moves
  <2>1. /\ Calls(GuiThread, <<g>>) /\ UNCHANGED <<qt, wr, pd>> /\ map' = map
        /\ f.op \in RestOps /\ g.op \in RestOps /\ g.op \in ClearOps
    BY <1>1, <1>2, <1>6, <1>7
  <2>2. qwm'.done \/ pd[g.w].obj \notin qwm'.set
    BY <1>3, <1>7, <1>8
  <2>. QED  BY <1>1, <1>2, <1>7, <1>8, <2>1, <2>2, PhaseMoves
<1>. QED  BY <1>6, <1>9 DEF Good, Harmless

LEMMA DtorRestEndGood ==
    ASSUME Ground, TypeOK', DtorRestEnd(GuiThread)
    PROVE  Good /\ fault' = fault
<1>0. TypeOK
  BY DEF Ground
<1>1. Tower # <<>> /\ Top(GuiThread).op \in RestEndOps
  BY DEF DtorRestEnd, Running, Tower
<1>2. PICK h : h = Len(Tower) - 1
  OBVIOUS
<1>3. /\ h \in Nat /\ h < Len(Tower) /\ h \in Heights(Tower) /\ h # Len(Tower)
      /\ At(Tower, h) = Top(GuiThread) /\ Tower \in Seq(Frame)
  BY <1>0, <1>1, <1>2, TowerTop
<1>4. PICK w \in Wrap, a \in Addr : w = Top(GuiThread).w /\ a = Top(GuiThread).a
  BY <1>1, <1>3, RestThere
<1>5. /\ a # None /\ pd[w].obj = a /\ Live(a) /\ wr[w].status # "ok"
      /\ qt[a].state # "free" /\ pd[w].obj # None
  BY <1>1, <1>3, <1>4, RestThere DEF Live
<1>6. /\ map[pd[w].obj] = None /\ (qwm.done \/ pd[w].obj \notin qwm.set)
  BY <1>1, <1>4, ClearedObject DEF EndOps
<1>. DEFINE drop == WFrame("objRefDrop", w)
            destroy == AFrame("qtDestroy", a)
<1>7. /\ Reset(w) /\ UNCHANGED <<qt, wr, map, qwm, fault>>
      /\ \/ Calls(GuiThread, <<>>) \/ Calls(GuiThread, <<drop>>)
         \/ Calls(GuiThread, <<drop, destroy>>)
  BY <1>1, <1>4 DEF DtorRestEnd
<1>8. /\ drop \in Frame /\ drop.op = "objRefDrop" /\ drop.w = w
      /\ destroy \in Frame /\ destroy.op = "qtDestroy" /\ destroy.a = a
  BY WFrameType, AFrameType DEF WOps, AOps, WFrame, AFrame
<1>. HIDE DEF drop, destroy
<1>9. PICK fs \in {<<>>, <<drop>>, <<drop, destroy>>} : Calls(GuiThread, fs)
  BY <1>7
<1>10. /\ fs \in Seq(Frame) /\ Len(fs) \in Nat
       /\ \A j \in 1..Len(fs) : \/ j = 1 /\ fs[j] = drop
                                \/ j = 2 /\ fs[j] = destroy /\ fs[1] = drop
       /\ Len(fs) > 0 => fs[1] = drop
  <2>1. CASE fs = <<>>
    BY <2>1
  <2>2. CASE fs = <<drop>>
    BY <1>8, <2>2
  <2>3. CASE fs = <<drop, destroy>>
    BY <1>8, <2>3
  <2>. QED  BY <1>9, <2>1, <2>2, <2>3
<1>11. Rebuilt(h, fs)
  BY <1>0, <1>1, <1>2, <1>9, <1>10, CallsRebuild
<1>12. Covers(h) /\ Drops(h, fs)
  BY <1>1, <1>3 DEF Covers, Drops, DropOps
<1>13. \A v \in Wrap : pd'[v].attached = pd[v].attached
  BY <1>0, <1>7, ClearFields
<1>14. Statuses(h, fs)
  <2>1. At(Tower, h).op # "commonDtor"
    BY <1>1, <1>3
  <2>2. OkSame(h)
    BY <1>7, <1>13, <2>1 DEF OkSame, WFrame
  <2>. QED  BY <2>2, OkSameStatuses
<1>15. Fits(h, fs)
  <2>1. ASSUME NEW j \in 1..Len(fs)
        PROVE  /\ FitAt(Tower', h + Len(fs) - j)
               /\ fs[j].op # "endDelete"
               /\ fs[j].op = "qtDestroy" => j = 2 /\ fs[1] = drop
    <3>1. fs[j].op \in {"objRefDrop", "qtDestroy"}
      BY <1>8, <1>10
    <3>2. At(Tower', h + Len(fs) - j) = fs[j]
      BY <1>11 DEF Rebuilt, Grows
    <3>3. FitAt(Tower', h + Len(fs) - j)
      BY <3>1, <3>2 DEF FitAt, LeafOps
    <3>. QED  BY <1>8, <1>10, <3>1, <3>3
  <2>2. wr'[drop.w].status # "ok" /\ drop.op \in DropOps
    BY <1>5, <1>7, <1>8 DEF DropOps
  <2>3. Len(fs) > 0 => TopOk(fs[1])'
    <3>1. SUFFICES ASSUME Len(fs) > 0 PROVE TopOk(fs[1])'
      OBVIOUS
    <3>2. fs[1].op \in FreeOps
      BY <1>8, <1>10, <3>1 DEF FreeOps
    <3>. QED  BY <3>2, FreeTop
  <2>. QED  BY <1>12, <1>14, <2>1, <2>2, <2>3 DEF Fits
<1>16. Keeps(h, fs)
  <2>1. ASSUME NEW k \in 0 .. h - 1, At(Tower, k).op \in RestOps PROVE At(Tower, k).w # w
    <3>1. k \in Heights(Tower) /\ k # h
      BY <1>3 DEF Heights
    <3>. QED  BY <1>1, <1>3, <1>4, <2>1, <3>1 DEF Ground, DataInv, RestOk
  <2>2. \A j \in 1..Len(fs) : /\ fs[j].op \notin {"deleteAll"} \cup RestOps
                              /\ fs[j].op = "qtDestroy" => fs[j].a = pd[w].obj
    BY <1>5, <1>8, <1>10
  <2>3. h < Len(Tower) /\ At(Tower, h).op \in RestOps => At(Tower, h).w = w
    BY <1>3, <1>4
  <2>. QED  BY <1>1, <1>5, <1>6, <1>7, <1>11, <1>12, <2>1, <2>2, <2>3, ClearKeeps
<1>. QED  BY <1>3, <1>7, <1>10, <1>11, <1>15, <1>16 DEF Moves, Good, Harmless

LEMMA ReturnToQtGood ==
    ASSUME Ground, TypeOK', NEW w \in Wrap, ReturnToQt(GuiThread, w)
    PROVE  Good /\ fault' = fault
<1>0. TypeOK
  BY DEF Ground
<1>. DEFINE f == WFrame("returnDel", w)
            g == WFrame("pdDeref", w)
            d == WFrame("deref", w)
<1>1. /\ UserCode(GuiThread) /\ pd[w].obj # None /\ ~pd[w].is_qobject /\ pd[w].attached
      /\ wr' = [wr EXCEPT ![w].held = @ - 1] /\ pd' = [pd EXCEPT ![w].refs = @ + 1]
      /\ Enter(GuiThread, <<f, g, d>>) /\ UNCHANGED <<qt, map, qwm, fault>>
  BY DEF ReturnToQt, Usable
<1>2. /\ f \in Frame /\ f.op = "returnDel" /\ f.w = w
      /\ g \in Frame /\ g.op \in FreeOps /\ d \in Frame /\ d.op \in FreeOps
  BY WFrameType DEF WOps, WFrame, FreeOps
<1>3. \A v \in Wrap : /\ pd'[v].obj = pd[v].obj /\ pd'[v].attached = pd[v].attached
                      /\ wr'[v].status = wr[v].status
  BY <1>0, <1>1 DEF TypeOK, PdRecord, WrRecord
<1>. HIDE DEF f, g, d
<1>4. qwm.done \/ pd[w].obj \notin qwm.set
  <2>1. SUFFICES ASSUME ~qwm.done, pd[w].obj \in qwm.set PROVE FALSE
    OBVIOUS
  <2>. DEFINE a == pd[w].obj
  <2>2. a \in Addr /\ qt[a].kind = "widget"
    BY <2>1 DEF Ground, DataInv, SetOk, TypeOK
  <2>3. (Tower # <<>> => Top(GuiThread).op \notin CallbackOps) /\
        (Tower # <<>> => Top(GuiThread).op \notin EndOps)
    BY <1>1, UserTop DEF CallerOps, EndOps
  <2>4. Live(a) /\ map[a] = w
    BY <1>1, <2>3, PointsLive, PointedMapped
  <2>5. BoundObject(a)
    BY <2>2, <2>4 DEF BoundObject, isQObject, Live, Ground, DataInv, ObjectOk
  <2>. QED  BY <1>1, <2>2, <2>4, <2>5 DEF Ground, IdentityInv, KnownAs
<1>5. TopOk(f)'
  BY <1>1, <1>2, <1>3, <1>4 DEF TopOk, MissOps
<1>6. PICK fs : fs = <<f, g, d>>
  OBVIOUS
<1>7. /\ fs \in Seq(Frame) /\ Len(fs) = 3 /\ fs[1] = f /\ fs[2] = g /\ fs[3] = d
  BY <1>2, <1>6
<1>8. ASSUME NEW j \in 1..Len(fs) PROVE QuietAt(fs, j)
  <2>1. j = 1 \/ j = 2 \/ j = 3
    BY <1>7
  <2>. QED  BY <1>2, <1>7, <2>1 DEF QuietAt, SimpleAt, FreeOps
<1>9. CalmData
  BY <1>0, <1>1, <1>3, SameData
<1>. QED  BY <1>1, <1>3, <1>5, <1>6, <1>7, <1>8, <1>9, UserEnter

LEMMA ReturnToQtEndGood ==
    ASSUME Ground, TypeOK', ReturnToQtEnd(GuiThread)
    PROVE  Good /\ fault' = fault
<1>0. TypeOK
  BY DEF Ground
<1>1. /\ Tower # <<>> /\ Top(GuiThread).op = "returnEnd" /\ Return(GuiThread)
  BY DEF ReturnToQtEnd, AtTop, Running, Tower
<1>2. PICK w \in Wrap :
         /\ w = Top(GuiThread).w /\ pd[w].obj # None /\ map[pd[w].obj] = None
         /\ qwm.done \/ pd[w].obj \notin qwm.set
  BY <1>1, ClearedObject DEF EndOps
<1>3. /\ Reset(w) /\ qt' = [qt EXCEPT ![pd[w].obj].taken = TRUE]
      /\ UNCHANGED <<wr, map, qwm, fault>>
  BY <1>2 DEF ReturnToQtEnd
<1>4. \A x \in Addr : /\ qt'[x].state = qt[x].state /\ qt'[x].kind = qt[x].kind
                      /\ qt'[x].bound = qt[x].bound /\ qt'[x].parent = qt[x].parent
  BY <1>0, <1>3 DEF TypeOK, QtRecord
<1>5. PICK b, fs : b = Len(Tower) - 1 /\ fs = <<>>
  OBVIOUS
<1>6. /\ Rebuilt(b, fs) /\ b \in Nat /\ b # Len(Tower) /\ fs \in Seq(Frame)
      /\ At(Tower, b) = Top(GuiThread)
  BY <1>1, <1>5, ReturnRebuilds
<1>7. ~(Len(fs) > 0) /\ \A j \in 1..Len(fs) : FALSE
  BY <1>5
<1>8. Covers(b) /\ Drops(b, fs)
  BY <1>6, <1>7 DEF Covers, Drops
<1>9. OkSame(b)
  <2>1. At(Tower, b).op # "commonDtor"
    BY <1>1, <1>6
  <2>. QED  BY <1>0, <1>3, <2>1, ClearFields DEF OkSame, WFrame
<1>10. Fits(b, fs)
  BY <1>7, <1>8, <1>9, OkSameStatuses DEF Fits
<1>11. Live(pd[w].obj)
  BY <1>1, <1>2, PointsLive
<1>12. Keeps(b, fs)
  <2>1. ASSUME NEW h \in 0 .. b - 1, At(Tower, h).op \in RestOps PROVE At(Tower, h).w # w
    <3>1. h \in Heights(Tower)
      BY <1>6 DEF Heights, Rebuilt
    <3>2. pd[w].attached
      BY <1>1, <1>2, SummitTop DEF TopOk
    <3>. QED  BY <2>1, <3>1, <3>2, RestThere
  <2>. QED  BY <1>1, <1>2, <1>3, <1>4, <1>6, <1>7, <1>8, <2>1, ClearKeeps
<1>. QED  BY <1>3, <1>6, <1>10, <1>12 DEF Moves, Good, Harmless

LEMMA ExternalDeleteGood ==
    ASSUME Ground, TypeOK', ExternalDelete(GuiThread)
    PROVE  Good /\ fault' = fault
<1>0. TypeOK
  BY DEF Ground
<1>1. Tower # <<>> /\ Top(GuiThread).op = "externalDelete"
  BY DEF ExternalDelete, AtTop, Running, Tower
<1>2. PICK f : f = Top(GuiThread)
  OBVIOUS
<1>3. PICK w \in Wrap : w = f.w
  BY <1>0, <1>1, <1>2, TowerTop, FrameAt DEF WOps
<1>4. pd[w].obj # None
  BY <1>1, <1>2, <1>3, SummitTop DEF TopOk
<1>5. /\ ClearWindow(w) /\ Calls(GuiThread, <<WFrame("externalDel", w)>>)
      /\ UNCHANGED <<qt, wr, pd, map, fault>>
  BY <1>2, <1>3, <1>4, NoClearFault DEF ExternalDelete
<1>6. PICK g \in Frame : g = WFrame("externalDel", w) /\ g.op = "externalDel" /\ g.w = f.w
  BY <1>3, WFrameType DEF WOps, WFrame
<1>7. /\ qwm'.done = qwm.done /\ (~qwm.done => qwm'.set \subseteq qwm.set)
      /\ qwm'.done \/ pd[w].obj \notin qwm'.set
  BY <1>4, <1>5, WindowCleared
<1>8. Moves
  <2>1. /\ Calls(GuiThread, <<g>>) /\ UNCHANGED <<qt, wr, pd>> /\ map' = map
        /\ f.op \in HearOps /\ g.op \in HearOps /\ g.op \in ClearOps
    BY <1>1, <1>2, <1>5, <1>6
  <2>2. qwm'.done \/ pd[g.w].obj \notin qwm'.set
    BY <1>3, <1>6, <1>7
  <2>. QED  BY <1>1, <1>2, <1>6, <1>7, <2>1, <2>2, PhaseMoves
<1>. QED  BY <1>5, <1>8 DEF Good, Harmless

LEMMA ExternalDeleteEndGood ==
    ASSUME Ground, TypeOK', ExternalDeleteEnd(GuiThread)
    PROVE  Good /\ fault' = fault
<1>0. TypeOK
  BY DEF Ground
<1>1. Tower # <<>> /\ Top(GuiThread).op = "externalEnd"
  BY DEF ExternalDeleteEnd, AtTop, Running, Tower
<1>2. PICK h : h = Len(Tower) - 1
  OBVIOUS
<1>3. /\ h \in Nat /\ h < Len(Tower) /\ h \in Heights(Tower) /\ h # Len(Tower)
      /\ At(Tower, h) = Top(GuiThread) /\ Tower \in Seq(Frame)
  BY <1>0, <1>1, <1>2, TowerTop
<1>4. PICK w \in Wrap : w = Top(GuiThread).w /\ Top(GuiThread) = WFrame("externalEnd", w)
  BY <1>1, <1>3, FrameAt DEF WOps
<1>5. pd[w].obj # None /\ Dying(pd[w].obj)
  BY <1>1, <1>4, SummitTop DEF TopOk
<1>6. /\ map[pd[w].obj] = None /\ (qwm.done \/ pd[w].obj \notin qwm.set)
      /\ wr[w].status # "free"
  BY <1>1, <1>4, <1>5, ClearedObject, PointingThere DEF EndOps
<1>. DEFINE drop == WFrame("objRefDrop", w)
            dfs == Append(DestructorFrames(w), drop)
<1>7. /\ Reset(w) /\ UNCHANGED <<qt, map, qwm, fault>>
      /\ \/ /\ wr[w].status = "ok"
            /\ wr' = [wr EXCEPT ![w] = Wr("deleting", wr[w].refs + 1, wr[w].held)]
            /\ Calls(GuiThread, dfs)
         \/ UNCHANGED wr /\ Calls(GuiThread, <<drop>>)
  BY <1>4, <1>6 DEF ExternalDeleteEnd
<1>8. drop \in Frame /\ drop.op = "objRefDrop"
  BY WFrameType DEF WOps, WFrame
<1>9. \A v \in Wrap : pd'[v].attached = pd[v].attached
  BY <1>0, <1>7, ClearFields
<1>10. ASSUME NEW fs \in Seq(Frame), Calls(GuiThread, fs),
              \A j \in 1..Len(fs) : fs[j].op \notin {"deleteAll", "qtDestroy"} \cup RestOps
       PROVE  Rebuilt(h, fs) /\ Covers(h) /\ Drops(h, fs) /\ Keeps(h, fs)
  <2>1. Rebuilt(h, fs)
    BY <1>0, <1>1, <1>2, <1>10, CallsRebuild
  <2>2. Covers(h) /\ Drops(h, fs)
    BY <1>1, <1>3 DEF Covers, Drops, DropOps
  <2>3. \A k \in 0 .. h - 1 : At(Tower, k).op \in RestOps => At(Tower, k).w # w
    <3>1. SUFFICES ASSUME NEW k \in 0 .. h - 1, At(Tower, k).op \in RestOps, At(Tower, k).w = w
                   PROVE  FALSE
      OBVIOUS
    <3>2. k \in Heights(Tower)
      BY <1>3 DEF Heights
    <3>3. Live(pd[w].obj)
      BY <3>1, <3>2, RestThere
    <3>. QED  BY <1>5, <3>3 DEF Live, Dying
  <2>4. At(Tower, h).op \notin RestOps
    BY <1>1, <1>3
  <2>. QED  BY <1>1, <1>4, <1>5, <1>6, <1>7, <1>10, <2>1, <2>2, <2>3, <2>4, ClearKeeps
<1>11. CASE wr[w].status = "ok" /\ Calls(GuiThread, dfs)
            /\ wr' = [wr EXCEPT ![w] = Wr("deleting", wr[w].refs + 1, wr[w].held)]
  <2>1. DestroysWrapper(w)
    BY <1>0, <1>9, <1>11 DEF DestroysWrapper, Wr, TypeOK
  <2>2. PICK fs : fs = dfs
    OBVIOUS
  <2>. HIDE DEF dfs
  <2>3. fs = Append(DestructorFrames(w), WFrame("objRefDrop", w))
    BY <2>2 DEF dfs
  <2>4. fs \in Seq(Frame) /\ \A j \in 1..Len(fs) : fs[j].op \notin {"deleteAll", "qtDestroy"} \cup RestOps
    BY <2>3, DestructorSeq
  <2>5. Rebuilt(h, fs) /\ Covers(h) /\ Drops(h, fs) /\ Keeps(h, fs)
    BY <1>10, <1>11, <2>2, <2>4
  <2>6. Fits(h, fs)
    BY <1>1, <1>3, <2>1, <2>3, <2>5, DestructorFits
  <2>. QED  BY <1>3, <1>7, <2>4, <2>5, <2>6 DEF Moves, Good, Harmless
<1>12. CASE UNCHANGED wr /\ Calls(GuiThread, <<drop>>)
  <2>. HIDE DEF drop
  <2>1. PICK fs : fs = <<drop>>
    OBVIOUS
  <2>2. /\ fs \in Seq(Frame) /\ Len(fs) = 1 /\ fs[1] = drop
        /\ \A j \in 1..Len(fs) : fs[j] = drop
    BY <1>8, <2>1
  <2>3. Rebuilt(h, fs) /\ Covers(h) /\ Drops(h, fs) /\ Keeps(h, fs)
    BY <1>8, <1>10, <1>12, <2>1, <2>2
  <2>4. Statuses(h, fs)
    <3>1. OkSame(h)
      BY <1>1, <1>3, <1>9, <1>12 DEF OkSame, WFrame
    <3>. QED  BY <3>1, OkSameStatuses
  <2>5. \A j \in 1..Len(fs) : SimpleAt(fs, j)
    BY <1>8, <2>2 DEF SimpleAt, FreeOps
  <2>6. TopOk(fs[1])'
    <3>1. fs[1].op \in FreeOps
      BY <1>8, <2>2 DEF FreeOps
    <3>. QED  BY <3>1, FreeTop
  <2>7. Fits(h, fs)
    BY <2>3, <2>4, <2>5, <2>6, SimpleFits
  <2>. QED  BY <1>3, <1>7, <2>2, <2>3, <2>7 DEF Moves, Good, Harmless
<1>. QED  BY <1>7, <1>11, <1>12

-----------------------------------------------------------------------------
(* common_destructor *)

\* The key of the private data is taken off and the rest of the call follows.
LEMMA DetachFits ==
    ASSUME Ground, NEW h \in Nat, h = Len(Tower) - 1, NEW w \in Wrap,
           At(Tower, h) = WFrame("commonDtor", w), UNCHANGED <<qt, wr>>,
           pd' = [pd EXCEPT ![w].attached = FALSE],
           NEW fs \in Seq(Frame), Rebuilt(h, fs),
           NEW a, NEW loop \in Frame, loop.op = "deleteAll",
           \/ fs = <<WFrame("pdDeref", w)>>
           \/ fs = <<RestFrame("dtorRest", a, w), WFrame("pdDeref", w)>>
           \/ fs = <<loop, RestFrame("dtorRest", a, w), WFrame("pdDeref", w)>>
    PROVE  Fits(h, fs)
<1>. DEFINE release == WFrame("pdDeref", w)
            rest == RestFrame("dtorRest", a, w)
<1>0. /\ Len(Tower) \in Nat /\ h < Len(Tower) /\ h # Len(Tower) /\ Tower \in Seq(Frame)
      /\ h \in Heights(Tower) /\ pd \in [Wrap -> PdRecord]
      /\ \A j \in 1..Len(fs) : At(Tower', h + Len(fs) - j) = fs[j]
      /\ \A k \in 0..h - 1 : At(Tower', k) = At(Tower, k)
  BY DEF Rebuilt, Grows, Heights, Ground, TypeOK
<1>1. h >= 1 /\ At(Tower, h - 1) = WFrame("endDelete", w)
  <2>1. FitAt(Tower, h)
    BY <1>0 DEF Ground, StackInv, Fitted
  <2>2. At(Tower, h).op = "commonDtor" /\ At(Tower, h).w = w
    BY DEF WFrame
  <2>. QED  BY <2>1, <2>2 DEF FitAt
<1>2. At(Tower', h - 1) = WFrame("endDelete", w)
  BY <1>0, <1>1
<1>3. release.op = "pdDeref" /\ rest.op = "dtorRest" /\ rest.w = w
  BY DEF WFrame, RestFrame
<1>4. \A j \in 1..Len(fs) :
         /\ FitAt(Tower', h + Len(fs) - j)
         /\ fs[j].op \in {"pdDeref", "dtorRest", "deleteAll"}
  <2>. HIDE DEF release, rest
  <2>1. \A k : At(Tower', k) = release => FitAt(Tower', k)
    BY <1>3 DEF FitAt, LeafOps
  <2>2. ASSUME At(Tower', h) = release, At(Tower', h + 1) = rest PROVE FitAt(Tower', h + 1)
    <3>1. h + 1 >= 2 /\ h + 1 - 1 = h /\ h + 1 - 2 = h - 1
      BY <1>1
    <3>2. /\ At(Tower', h + 1 - 1) = WFrame("pdDeref", w)
          /\ At(Tower', h + 1 - 2) = WFrame("endDelete", w)
      BY <1>2, <2>2, <3>1 DEF release
    <3>. QED  BY <1>3, <2>2, <3>1, <3>2 DEF FitAt, LeafOps
  <2>3. ASSUME At(Tower', h + 1) = rest, At(Tower', h + 2) = loop PROVE FitAt(Tower', h + 2)
    <3>1. h + 2 >= 1 /\ At(Tower', h + 2 - 1).op = "dtorRest"
      BY <1>3, <2>3
    <3>. QED  BY <2>3, <3>1 DEF FitAt, LeafOps
  <2>4. CASE fs = <<release>>
    BY <1>0, <1>3, <2>1, <2>4
  <2>5. CASE fs = <<rest, release>>
    <3>1. /\ Len(fs) = 2 /\ fs[1] = rest /\ fs[2] = release
          /\ h + Len(fs) - 1 = h + 1 /\ h + Len(fs) - 2 = h
          /\ 1 \in 1..Len(fs) /\ 2 \in 1..Len(fs)
      BY <2>5
    <3>2. At(Tower', h + Len(fs) - 1) = rest /\ At(Tower', h + Len(fs) - 2) = release
      BY <1>0, <3>1, Zenon
    <3>5. At(Tower', h + 1) = rest /\ At(Tower', h) = release
      BY <3>1, <3>2
    <3>3. FitAt(Tower', h + 1) /\ FitAt(Tower', h)
      BY <2>1, <2>2, <3>5
    <3>4. FitAt(Tower', h + Len(fs) - 1) /\ FitAt(Tower', h + Len(fs) - 2)
      BY <3>1, <3>3
    <3>. QED  BY <1>3, <3>1, <3>4
  <2>6. CASE fs = <<loop, rest, release>>
    <3>1. /\ Len(fs) = 3 /\ fs[1] = loop /\ fs[2] = rest /\ fs[3] = release
          /\ h + Len(fs) - 1 = h + 2 /\ h + Len(fs) - 2 = h + 1 /\ h + Len(fs) - 3 = h
          /\ 1 \in 1..Len(fs) /\ 2 \in 1..Len(fs) /\ 3 \in 1..Len(fs)
      BY <2>6
    <3>2. /\ At(Tower', h + Len(fs) - 1) = loop /\ At(Tower', h + Len(fs) - 2) = rest
          /\ At(Tower', h + Len(fs) - 3) = release
      BY <1>0, <3>1, Zenon
    <3>5. At(Tower', h + 2) = loop /\ At(Tower', h + 1) = rest /\ At(Tower', h) = release
      BY <3>1, <3>2
    <3>3. FitAt(Tower', h + 2) /\ FitAt(Tower', h + 1) /\ FitAt(Tower', h)
      BY <2>1, <2>2, <2>3, <3>5
    <3>4. /\ FitAt(Tower', h + Len(fs) - 1) /\ FitAt(Tower', h + Len(fs) - 2)
          /\ FitAt(Tower', h + Len(fs) - 3)
      BY <3>1, <3>3
    <3>. QED  BY <1>3, <3>1, <3>4
  <2>. QED  BY <2>4, <2>5, <2>6 DEF release, rest
<1>5. Covers(h) /\ Drops(h, fs)
  <2>1. At(Tower, h).op = "commonDtor"
    BY DEF WFrame
  <2>. QED  BY <1>0, <2>1 DEF Covers, Drops, DropOps
<1>6. Statuses(h, fs)
  <2>1. ASSUME NEW v \in Wrap, pd'[v].attached
        PROVE  pd[v].attached /\ At(Tower, h) # WFrame("commonDtor", v)
    <3>1. v # w
      BY <1>0, <2>1 DEF PdRecord
    <3>. QED  BY <1>0, <2>1, <3>1 DEF WFrame
  <2>2. OkSame(h)
    BY <2>1 DEF OkSame
  <2>. QED  BY <2>2, OkSameStatuses
<1>7. Len(fs) > 0 => TopOk(fs[1])'
  <2>1. SUFFICES ASSUME Len(fs) > 0 PROVE TopOk(fs[1])'
    OBVIOUS
  <2>2. fs[1].op \in {"pdDeref", "dtorRest", "deleteAll"}
    BY <1>4, <2>1
  <2>. QED  BY <2>2, FreeTop DEF FreeOps
<1>. QED  BY <1>4, <1>5, <1>6, <1>7 DEF Fits

LEMMA DetachKeeps ==
    ASSUME Ground, TypeOK', NEW h \in Nat, h = Len(Tower) - 1, NEW w \in Wrap, Tower # <<>>,
           Top(GuiThread) = WFrame("commonDtor", w), At(Tower, h) = WFrame("commonDtor", w),
           UNCHANGED <<qt, wr, map>>, pd[w].attached,
           pd' = [pd EXCEPT ![w].attached = FALSE],
           ~qwm'.done => ~qwm.done /\ qwm'.set = qwm.set,
           NEW fs \in Seq(Frame), Rebuilt(h, fs),
           NEW a, NEW loop \in Frame, loop.op = "deleteAll",
           \/ pd[w].obj = None /\ fs = <<WFrame("pdDeref", w)>>
           \/ pd[w].obj = a /\ a # None /\ fs = <<RestFrame("dtorRest", a, w), WFrame("pdDeref", w)>>
           \/ /\ pd[w].obj = a /\ a # None /\ fs = <<loop, RestFrame("dtorRest", a, w), WFrame("pdDeref", w)>>
              /\ qt[a].kind = "app" /\ \A x \in loop.s : qt[x].kind # "app"
    PROVE  Keeps(h, fs)
<1>. DEFINE release == WFrame("pdDeref", w)
            rest == RestFrame("dtorRest", a, w)
<1>0. /\ Len(Tower) \in Nat /\ h < Len(Tower) /\ Tower \in Seq(Frame)
      /\ \A k \in 0..h - 1 : k \in Heights(Tower)
      /\ \A j \in 1..Len(fs) : At(Tower', h + Len(fs) - j) = fs[j]
  BY DEF Rebuilt, Grows, Heights
<1>1. /\ \A v \in Wrap : pd'[v].obj = pd[v].obj
      /\ \A v \in Wrap \ {w} : pd'[v] = pd[v]
      /\ pd'[w].attached = FALSE
  BY DEF Ground, TypeOK, PdRecord
<1>2. At(Tower, h).op = "commonDtor" /\ Top(GuiThread).op = "commonDtor"
  BY DEF WFrame
<1>3. \A v \in Wrap : pd[v].obj # None => pd[v].obj \in Addr /\ Live(pd[v].obj)
  BY <1>2, PointsLive
<1>4. /\ rest.op = "dtorRest" /\ rest.w = w /\ rest.a = a /\ release.op = "pdDeref"
  BY DEF RestFrame, WFrame
<1>5. \A j \in 1..Len(fs) :
         \/ fs[j] = release
         \/ /\ fs[j] = rest /\ pd[w].obj = a /\ a # None /\ fs[Len(fs)] = release /\ j = Len(fs) - 1
            /\ j = 1 \/ qt[a].kind = "app"
         \/ /\ fs[j] = loop /\ j = 1 /\ Len(fs) = 3 /\ fs[2] = rest /\ qt[a].kind = "app"
            /\ \A x \in loop.s : qt[x].kind # "app"
  <2>. HIDE DEF release, rest
  <2>1. CASE fs = <<release>>
    BY <2>1
  <2>2. CASE pd[w].obj = a /\ a # None /\ fs = <<rest, release>>
    BY <2>2
  <2>3. CASE /\ pd[w].obj = a /\ a # None /\ fs = <<loop, rest, release>>
             /\ qt[a].kind = "app" /\ \A x \in loop.s : qt[x].kind # "app"
    BY <2>3
  <2>. QED  BY <2>1, <2>2, <2>3 DEF release, rest
<1>6. pd[w].obj # None => \E j \in 1..Len(fs) : fs[j] \in RestFrames(pd[w].obj, w)
  <2>1. SUFFICES ASSUME pd[w].obj # None PROVE \E j \in 1..Len(fs) : fs[j] \in RestFrames(pd[w].obj, w)
    OBVIOUS
  <2>0. pd[w].obj = a => rest \in RestFrames(pd[w].obj, w)
    <3>1. RestFrame("dtorRest", pd[w].obj, w) \in Frame
      BY <1>3, <2>1, RestFrameType
    <3>. QED  BY <1>4, <3>1 DEF RestFrames
  <2>. HIDE DEF release, rest
  <2>2. CASE pd[w].obj = a /\ a # None /\ fs = <<rest, release>>
    <3>1. 1 \in 1..Len(fs) /\ fs[1] = rest
      BY <2>2
    <3>. QED  BY <2>0, <2>2, <3>1
  <2>3. CASE pd[w].obj = a /\ a # None /\ fs = <<loop, rest, release>>
    <3>1. 2 \in 1..Len(fs) /\ fs[2] = rest
      BY <2>3
    <3>. QED  BY <2>0, <2>3, <3>1
  <2>. QED  BY <2>1, <2>2, <2>3 DEF release, rest
<1>. HIDE DEF release, rest
<1>7. RestsKept(h, fs)
  <2>1. ASSUME NEW k \in 0 .. h - 1, At(Tower, k).op \in RestOps
        PROVE  /\ pd'[At(Tower, k).w].obj = pd[At(Tower, k).w].obj
               /\ ~pd'[At(Tower, k).w].attached
               /\ qt'[At(Tower, k).a].state = "live"
               /\ qt'[At(Tower, k).a].kind = qt[At(Tower, k).a].kind
               /\ At(Tower, k).w # w
    BY <1>0, <1>1, <2>1, RestThere DEF Live
  <2>2. ASSUME NEW j \in 1..Len(fs), fs[j].op \in RestOps
        PROVE  /\ fs[j] = rest /\ pd[w].obj = a /\ a # None /\ j = Len(fs) - 1
               /\ j = 1 \/ qt[a].kind = "app"
    BY <1>4, <1>5, <2>2
  <2>3. ASSUME NEW j \in 1..Len(fs), fs[j].op \in RestOps
        PROVE  /\ pd'[fs[j].w].obj = fs[j].a
               /\ ~pd'[fs[j].w].attached
               /\ qt'[fs[j].a].state = "live"
               /\ j = 1 \/ qt'[fs[j].a].kind = "app"
               /\ \A k \in 0 .. h - 1 : At(Tower, k).op \in RestOps => At(Tower, k).w # fs[j].w
               /\ \A k \in 1..Len(fs) : fs[k].op \in RestOps => k = j
    BY <1>1, <1>3, <1>4, <2>1, <2>2, <2>3 DEF Live
  <2>. QED  BY <2>1, <2>3 DEF RestsKept
<1>8. LooseKept(h, fs)
  <2>1. SUFFICES ASSUME NEW v \in Wrap, pd'[v].obj # None, ~pd'[v].attached
                 PROVE  \/ /\ pd'[v].obj = pd[v].obj /\ ~pd[v].attached
                           /\ At(Tower, h) \notin RestFrames(pd[v].obj, v)
                        \/ \E j \in 1..Len(fs) : fs[j] \in RestFrames(pd'[v].obj, v)
    BY DEF LooseKept
  <2>2. CASE v = w
    BY <1>1, <1>6, <2>1, <2>2
  <2>3. CASE v # w
    BY <1>1, <1>2, <2>1, <2>3 DEF RestFrames
  <2>. QED  BY <2>2, <2>3
<1>9. PointersKept(fs)
  BY <1>1, <1>3 DEF PointersKept, Live
<1>10. \A x \in Addr : ObjectOk(x)'
  BY DEF Ground, DataInv, ObjectOk
<1>11. LoopsKept(h, fs)
  <2>1. SUFFICES ASSUME NEW j \in 1..Len(fs), fs[j].op = "deleteAll"
                 PROVE  /\ qt'[At(Tower', h + Len(fs) - j - 1).a].kind = "app"
                        /\ \A x \in fs[j].s : qt'[x].kind # "app"
    BY DEF LoopsKept
  <2>2. /\ fs[j] = loop /\ j = 1 /\ Len(fs) = 3 /\ fs[2] = rest /\ qt[a].kind = "app"
        /\ \A x \in loop.s : qt[x].kind # "app"
    BY <1>4, <1>5, <2>1
  <2>3. At(Tower', h + Len(fs) - j - 1) = rest
    <3>1. At(Tower', h + 3 - 2) = fs[2]
      BY <1>0, <2>2
    <3>2. h + 3 - 2 = h + Len(fs) - j - 1
      BY <2>2
    <3>. QED  BY <2>2, <3>1, <3>2
  <2>. QED  BY <1>4, <2>2, <2>3
<1>12. AppsKept(h, fs)
  <2>1. \A j \in 1..Len(fs) : fs[j].op # "qtDestroy"
    BY <1>4, <1>5
  <2>2. ASSUME NEW k \in 0 .. h - 1, At(Tower, k).op = "qtDestroy",
               qt'[At(Tower, k).a].kind = "app", NEW v \in Wrap
        PROVE  pd'[v].obj # At(Tower, k).a
    BY <1>0, <1>1, <2>2 DEF Ground, DataInv, AppSafe, Unpointed
  <2>. QED  BY <2>1, <2>2 DEF AppsKept
<1>13. SetOk'
  BY <1>1 DEF Ground, DataInv, SetOk
<1>14. MapSound'
  <2>1. SUFFICES ASSUME NEW x \in Addr, map'[x] # None PROVE pd'[map'[x]].obj = x
    BY DEF MapSound
  <2>. QED  BY <1>1, <2>1, EntryPoints
<1>. QED  BY <1>7, <1>8, <1>9, <1>10, <1>11, <1>12, <1>13, <1>14 DEF Keeps

LEMMA CommonDestructorGood ==
    ASSUME Ground, TypeOK', CommonDestructor(GuiThread)
    PROVE  Good
<1>0. TypeOK
  BY DEF Ground
<1>1. Tower # <<>> /\ Top(GuiThread).op = "commonDtor"
  BY DEF CommonDestructor, AtTop, Running, Tower
<1>2. PICK h : h = Len(Tower) - 1
  OBVIOUS
<1>3. /\ h \in Nat /\ h < Len(Tower) /\ h \in Heights(Tower) /\ h # Len(Tower)
      /\ At(Tower, h) = Top(GuiThread) /\ Tower \in Seq(Frame)
  BY <1>0, <1>1, <1>2, TowerTop
<1>4. PICK w \in Wrap : w = Top(GuiThread).w /\ Top(GuiThread) = WFrame("commonDtor", w)
  BY <1>1, <1>3, FrameAt DEF WOps
<1>. DEFINE release == WFrame("pdDeref", w)
            obj == pd[w].obj
            loop == LoopFrame(qwm.set)
<1>5. release \in Frame /\ loop \in Frame /\ loop.op = "deleteAll" /\ loop.s = qwm.set
  BY <1>0, WFrameType, LoopFrameType DEF WOps, TypeOK, LoopFrame
<1>6. obj \in Addr \cup {None}
  BY <1>0, PdFields
<1>7. CASE ~pd[w].attached /\ Return(GuiThread) /\ UNCHANGED <<qt, wr, pd, map, qwm, fault>>
  <2>1. OkSame(Len(Tower) - 1)
    BY <1>2, <1>3, <1>4, <1>7 DEF OkSame, WFrame
  <2>2. CalmData
    BY <1>0, <1>7, SameData
  <2>3. Moves
    BY <1>1, <1>7, <2>1, <2>2, CalmReturn
  <2>. QED  BY <1>7, <2>3 DEF Good, Harmless
<1>8. ASSUME pd[w].attached, pd' = [pd EXCEPT ![w].attached = FALSE],
             UNCHANGED <<qt, wr, map, fault>>, ~qwm'.done => ~qwm.done /\ qwm'.set = qwm.set,
             NEW fs \in Seq(Frame), Calls(GuiThread, fs), NEW a, NEW l \in Frame,
             l.op = "deleteAll",
             \/ pd[w].obj = None /\ fs = <<WFrame("pdDeref", w)>>
             \/ pd[w].obj = a /\ a # None /\ fs = <<RestFrame("dtorRest", a, w), WFrame("pdDeref", w)>>
             \/ /\ pd[w].obj = a /\ a # None /\ fs = <<l, RestFrame("dtorRest", a, w), WFrame("pdDeref", w)>>
                /\ qt[a].kind = "app" /\ \A x \in l.s : qt[x].kind # "app"
      PROVE  Good
  <2>1. Rebuilt(h, fs)
    BY <1>0, <1>1, <1>2, <1>8, CallsRebuild
  <2>2. At(Tower, h) = WFrame("commonDtor", w)
    BY <1>3, <1>4
  <2>3. Fits(h, fs)
    BY <1>2, <1>3, <1>8, <2>1, <2>2, DetachFits
  <2>4. Keeps(h, fs)
    <3>1. UNCHANGED <<qt, wr, map>> /\ h \in Nat /\ Top(GuiThread) = WFrame("commonDtor", w)
      BY <1>3, <1>4, <1>8
    <3>. QED  BY <1>1, <1>2, <1>8, <2>1, <2>2, <3>1, DetachKeeps
  <2>. QED  BY <1>3, <1>8, <2>1, <2>3, <2>4 DEF Moves, Good, Harmless
<1>9. CASE /\ pd[w].attached /\ obj = None
           /\ pd' = [pd EXCEPT ![w].attached = FALSE]
           /\ Calls(GuiThread, <<release>>)
           /\ UNCHANGED <<qt, wr, map, qwm, fault>>
  <2>1. <<release>> \in Seq(Frame)
    BY <1>5
  <2>2. PICK l \in Frame : l = loop /\ l.op = "deleteAll"
    BY <1>5
  <2>. HIDE DEF loop
  <2>. QED  BY <1>8, <1>9, <2>1, <2>2
<1>10. CASE pd[w].attached /\ obj # None /\ qt[obj].kind = "app" /\ qwm.done
            /\ Abort("qwm_deleteAll")
  BY <1>10, AbortGood
<1>11. CASE /\ pd[w].attached /\ obj # None /\ qt[obj].kind = "app" /\ ~qwm.done
            /\ qwm' = [qwm EXCEPT !.done = TRUE]
            /\ pd' = [pd EXCEPT ![w].attached = FALSE]
            /\ Calls(GuiThread, <<loop, RestFrame("dtorRest", obj, w), release>>)
            /\ UNCHANGED <<qt, wr, map, fault>>
  <2>1. PICK a \in Addr, l \in Frame : a = obj /\ l = loop
    BY <1>5, <1>6, <1>11
  <2>2. RestFrame("dtorRest", a, w) \in Frame
    BY RestFrameType
  <2>3. <<l, RestFrame("dtorRest", a, w), release>> \in Seq(Frame)
    BY <1>5, <2>2, Seqs
  <2>4. qwm'.done
    BY <1>0, <1>11 DEF TypeOK
  <2>5. \A x \in l.s : qt[x].kind # "app"
    BY <1>5, <1>11, <2>1 DEF Ground, DataInv, SetOk
  <2>6. l.op = "deleteAll"
    BY <1>5, <2>1
  <2>. HIDE DEF loop
  <2>. QED  BY <1>8, <1>11, <2>1, <2>3, <2>4, <2>5, <2>6
<1>12. CASE /\ pd[w].attached /\ obj # None /\ qt[obj].kind # "app"
            /\ pd' = [pd EXCEPT ![w].attached = FALSE]
            /\ Calls(GuiThread, <<RestFrame("dtorRest", obj, w), release>>)
            /\ UNCHANGED <<qt, wr, map, qwm, fault>>
  <2>1. PICK a \in Addr, l \in Frame : a = obj /\ l = loop
    BY <1>5, <1>6, <1>12
  <2>2. RestFrame("dtorRest", a, w) \in Frame
    BY RestFrameType
  <2>3. <<RestFrame("dtorRest", a, w), release>> \in Seq(Frame)
    BY <1>5, <2>2, Seqs
  <2>4. l.op = "deleteAll"
    BY <1>5, <2>1
  <2>. HIDE DEF loop
  <2>. QED  BY <1>8, <1>12, <2>1, <2>3, <2>4
<1>. QED  BY <1>4, <1>7, <1>9, <1>10, <1>11, <1>12 DEF CommonDestructor

-----------------------------------------------------------------------------
(* The destructors of Qt *)

\* The pointers stay as they are and no object that is pointed to changes its kind.
LEMMA SteadyKeeps ==
    ASSUME Ground, TypeOK', map' = map, qwm' = qwm,
           \A v \in Wrap : pd'[v].obj = pd[v].obj /\ pd'[v].attached = pd[v].attached,
           \A v \in Wrap : pd[v].obj # None => qt'[pd[v].obj].kind = qt[pd[v].obj].kind,
           \A x \in Addr : ObjectOk(x)' /\ (qt'[x].kind = "app" => qt[x].kind = "app"),
           NEW b, NEW fs, Rebuilt(b, fs),
           \A h \in 0 .. b - 1 :
               At(Tower, h).op \in RestOps => qt'[At(Tower, h).a].state = "live",
           b < Len(Tower) => At(Tower, b).op \notin RestOps,
           \A j \in 1..Len(fs) : fs[j].op \notin {"deleteAll", "qtDestroy"} \cup RestOps,
           PointersKept(fs)
    PROVE  Keeps(b, fs)
<1>0. /\ Len(Tower) \in Nat /\ b \in Nat /\ b <= Len(Tower) /\ Tower \in Seq(Frame)
      /\ \A h \in 0 .. b - 1 : h \in Heights(Tower)
  BY DEF Rebuilt, Heights
<1>1. RestsKept(b, fs)
  <2>1. ASSUME NEW h \in 0 .. b - 1, At(Tower, h).op \in RestOps
        PROVE  /\ pd'[At(Tower, h).w].obj = pd[At(Tower, h).w].obj
               /\ ~pd'[At(Tower, h).w].attached
               /\ qt'[At(Tower, h).a].state = "live"
               /\ qt'[At(Tower, h).a].kind = qt[At(Tower, h).a].kind
    BY <1>0, <2>1, RestThere
  <2>. QED  BY <2>1 DEF RestsKept
<1>2. LooseKept(b, fs)
  BY DEF LooseKept, RestFrames
<1>3. LoopsKept(b, fs)
  BY DEF LoopsKept
<1>4. AppsKept(b, fs)
  <2>1. ASSUME NEW h \in 0 .. b - 1, At(Tower, h).op = "qtDestroy",
               qt'[At(Tower, h).a].kind = "app", NEW v \in Wrap
        PROVE  pd'[v].obj # At(Tower, h).a
    <3>1. Unpointed(At(Tower, h).a) /\ At(Tower, h).a \in Addr
      BY <1>0, <2>1, FrameAt DEF Ground, DataInv, AppSafe, AOps
    <3>. QED  BY <2>1, <3>1 DEF Unpointed
  <2>. QED  BY <2>1 DEF AppsKept
<1>5. SetOk'
  <2>1. SUFFICES ASSUME ~qwm'.done, NEW x \in qwm'.set
                 PROVE  qt'[x].kind = "widget" /\ \E v \in Wrap : pd'[v].obj = x
    BY DEF SetOk
  <2>2. x \in Addr /\ x # None
    BY <2>1, NoneAssumption DEF TypeOK
  <2>3. PICK v \in Wrap : pd[v].obj = x /\ qt[x].kind = "widget"
    BY <2>1 DEF Ground, DataInv, SetOk
  <2>. QED  BY <2>2, <2>3
<1>6. MapSound'
  <2>1. SUFFICES ASSUME NEW x \in Addr, map'[x] # None PROVE pd'[map'[x]].obj = x
    BY DEF MapSound
  <2>. QED  BY <2>1, EntryPoints
<1>. QED  BY <1>1, <1>2, <1>3, <1>4, <1>5, <1>6 DEF Keeps

LEMMA QtDestroyGood ==
    ASSUME Ground, TypeOK', QtDestroy(GuiThread)
    PROVE  Good
<1>0. TypeOK
  BY DEF Ground
<1>1. Tower # <<>> /\ Top(GuiThread).op = "qtDestroy"
  BY DEF QtDestroy, AtTop, Running, Tower
<1>2. PICK h : h = Len(Tower) - 1
  OBVIOUS
<1>3. /\ h \in Nat /\ h < Len(Tower) /\ h \in Heights(Tower) /\ h # Len(Tower)
      /\ At(Tower, h) = Top(GuiThread) /\ Tower \in Seq(Frame)
  BY <1>0, <1>1, <1>2, TowerTop
<1>4. PICK a \in Addr : a = Top(GuiThread).a
  BY <1>1, <1>3, FrameAt DEF AOps
<1>5. CASE ~Live(a)
  <2>1. Abort("double_free")
    BY <1>4, <1>5 DEF QtDestroy
  <2>. QED  BY <2>1, AbortGood
<1>6. CASE Live(a)
  <2>. DEFINE told == AFrame("deleted", a)
              free == AFrame("qtFree", a)
  <2>1. qt[a].bound
    BY <1>6 DEF Ground, DataInv, ObjectOk, Live
  <2>2. /\ qt' = [qt EXCEPT ![a].state = "dying"]
        /\ Calls(GuiThread, <<told, free>>) /\ UNCHANGED <<wr, pd, map, qwm, fault>>
    BY <1>4, <1>6, <2>1 DEF QtDestroy
  <2>3. /\ told \in Frame /\ told.op = "deleted" /\ told.a = a
        /\ free \in Frame /\ free.op = "qtFree"
    BY AFrameType DEF AOps, AFrame
  <2>4. /\ qt'[a].state = "dying" /\ \A x \in Addr \ {a} : qt'[x] = qt[x]
        /\ \A x \in Addr : qt'[x].kind = qt[x].kind
        /\ qt'[a].bound = qt[a].bound /\ qt'[a].parent = qt[a].parent
    BY <1>0, <2>2 DEF TypeOK, QtRecord
  <2>5. PICK fs : fs = <<told, free>>
    OBVIOUS
  <2>6. /\ fs \in Seq(Frame) /\ Len(fs) = 2 /\ fs[1] = told /\ fs[2] = free
        /\ \A j \in 1..Len(fs) : (j = 1 /\ fs[j] = told) \/ fs[j] = free
    <3>. HIDE DEF told, free
    <3>. QED  BY <2>3, <2>5
  <2>7. Rebuilt(h, fs)
    BY <1>0, <1>1, <1>2, <2>2, <2>5, <2>6, CallsRebuild
  <2>8. Fits(h, fs)
    <3>1. Covers(h) /\ Drops(h, fs)
      BY <1>1, <1>3 DEF Covers, Drops, DropOps
    <3>2. OkSame(h)
      BY <1>1, <1>3, <2>2 DEF OkSame, WFrame
    <3>3. \A j \in 1..Len(fs) : SimpleAt(fs, j)
      BY <2>3, <2>6 DEF SimpleAt, FreeOps, LeafOps
    <3>4. TopOk(fs[1])'
      BY <2>3, <2>4, <2>6 DEF TopOk, MissOps, Dying
    <3>. QED  BY <2>7, <3>1, <3>2, <3>3, <3>4, OkSameStatuses, SimpleFits
  <2>9. \A v \in Wrap : pd[v].obj # None => pd[v].obj \in Addr /\ Live(pd[v].obj)
    BY <1>1, PointsLive
  <2>10. Keeps(h, fs)
    <3>1. ASSUME NEW k \in 0 .. h - 1, At(Tower, k).op \in RestOps
          PROVE  qt'[At(Tower, k).a].state = "live"
      <4>1. k \in Heights(Tower) /\ k # Len(Tower) - 1
        BY <1>2, <1>3 DEF Heights
      <4>2. qt[At(Tower, k).a].kind = "app"
        BY <3>1, <4>1 DEF Ground, DataInv, RestOk, RestAt
      <4>3. Unpointed(a)
        BY <1>1, <1>3, <1>4 DEF Ground, DataInv, AppSafe
      <4>4. At(Tower, k).a # a
        BY <3>1, <4>1, <4>2, <4>3, RestThere DEF Unpointed
      <4>. QED  BY <2>4, <3>1, <4>1, <4>4, RestThere DEF Live
    <3>2. \A x \in Addr : ObjectOk(x)'
      BY <1>6, <2>1, <2>4 DEF Ground, DataInv, ObjectOk, Live
    <3>3. PointersKept(fs)
      <4>1. SUFFICES ASSUME NEW v \in Wrap, pd[v].obj # None
                     PROVE  \/ qt'[pd[v].obj].state = "live"
                            \/ fs[1] = AFrame("deleted", pd[v].obj)
        BY <2>2, <2>6 DEF PointersKept, Hears
      <4>2. CASE pd[v].obj = a
        BY <2>6, <4>2
      <4>. QED  BY <2>4, <2>9, <4>1, <4>2 DEF Live
    <3>4. \A j \in 1..Len(fs) : fs[j].op \notin {"deleteAll", "qtDestroy"} \cup RestOps
      BY <2>3, <2>6
    <3>5. At(Tower, h).op \notin RestOps
      BY <1>1, <1>3
    <3>6. /\ \A v \in Wrap : pd'[v].obj = pd[v].obj /\ pd'[v].attached = pd[v].attached
          /\ \A v \in Wrap : pd[v].obj # None => qt'[pd[v].obj].kind = qt[pd[v].obj].kind
      BY <2>2, <2>4, <2>9
    <3>. QED  BY <2>2, <2>4, <2>7, <3>1, <3>2, <3>3, <3>4, <3>5, <3>6, SteadyKeeps
  <2>. QED  BY <1>3, <2>2, <2>6, <2>7, <2>8, <2>10 DEF Moves, Good, Harmless
<1>. QED  BY <1>5, <1>6

LEMMA QtFreeGood ==
    ASSUME Ground, TypeOK', QtFree(GuiThread)
    PROVE  Good
<1>0. TypeOK
  BY DEF Ground
<1>1. Tower # <<>> /\ Top(GuiThread).op = "qtFree"
  BY DEF QtFree, AtTop, Running, Tower
<1>2. PICK h : h = Len(Tower) - 1
  OBVIOUS
<1>3. /\ h \in Nat /\ h < Len(Tower) /\ h \in Heights(Tower) /\ h # Len(Tower)
      /\ At(Tower, h) = Top(GuiThread) /\ Tower \in Seq(Frame)
  BY <1>0, <1>1, <1>2, TowerTop
<1>4. PICK a \in Addr : a = Top(GuiThread).a /\ At(Tower, h) = AFrame("qtFree", a)
  BY <1>1, <1>3, FrameAt DEF AOps
<1>5. Dying(a) /\ ~Live(a)
  <2>1. h \in Int /\ At(Tower, h) \in FreeFrames(a)
    BY <1>3, <1>4 DEF FreeFrames
  <2>2. <<GuiThread, h>> \in Places(FreeFrames(a))
    BY <1>0, <1>3, <2>1, PlacedAt
  <2>3. Dying(a)
    BY <2>2 DEF Ground, IdentityInv, FreeOk
  <2>. QED  BY <2>3 DEF Dying, Live
<1>6. \A v \in Wrap : pd[v].obj # None => pd[v].obj \in Addr /\ Live(pd[v].obj) /\ pd[v].obj # a
  BY <1>1, <1>5, PointsLive
<1>7. UNCHANGED <<wr, pd, map, qwm, fault>>
  <2>1. pd' = [v \in Wrap |-> pd[v]] /\ UNCHANGED <<wr, map, qwm, fault>>
    <3>1. a # None
      BY NoneAssumption
    <3>2. \A v \in Wrap : pd[v].obj # a
      BY <1>6, <3>1
    <3>. QED  BY <1>4, <3>2 DEF QtFree
  <2>. QED  BY <1>0, <2>1 DEF TypeOK
<1>8. ASSUME NEW c \in Children(a), Enter(GuiThread, <<AFrame("qtDestroy", c)>>), UNCHANGED qt
      PROVE  Moves
  <2>1. c \in Addr /\ qt[c].kind # "app"
    BY NoneAssumption DEF Children, Ground, DataInv, ObjectOk
  <2>. DEFINE f == AFrame("qtDestroy", c)
  <2>2. f \in Frame /\ f.op = "qtDestroy" /\ f.a = c
    BY <2>1, AFrameType DEF AOps, AFrame
  <2>3. TopOk(f)'
    BY <2>2, FreeTop
  <2>. HIDE DEF f
  <2>4. PICK fs : fs = <<f>>
    OBVIOUS
  <2>5. fs \in Seq(Frame) /\ Len(fs) = 1 /\ fs[1] = f /\ \A j \in 1..Len(fs) : j = 1
    BY <2>2, <2>4
  <2>6. \A j \in 1..Len(fs) : QuietAt(fs, j)
    BY <2>1, <2>2, <2>5 DEF QuietAt, SimpleAt
  <2>7. CalmData
    BY <1>0, <1>7, <1>8, SameData
  <2>8. Statuses(Len(Tower), fs)
    <3>1. OkSame(Len(Tower))
      BY <1>0, <1>7, SameOk
    <3>. QED  BY <3>1, OkSameStatuses
  <2>9. Top(GuiThread).op \in CallerOps
    BY <1>1 DEF CallerOps
  <2>10. Enter(GuiThread, fs)
    BY <1>8, <2>4 DEF f
  <2>. QED  BY <2>3, <2>5, <2>6, <2>7, <2>8, <2>9, <2>10, CalmEnter
<1>9. ASSUME qt' = [qt EXCEPT ![a] = NoQt], Return(GuiThread) PROVE Moves
  <2>1. Rebuilt(h, <<>>) /\ <<>> \in Seq(Frame)
    BY <1>1, <1>2, <1>9, ReturnRebuilds
  <2>2. PICK fs : fs = <<>>
    OBVIOUS
  <2>3. /\ fs \in Seq(Frame) /\ ~(Len(fs) > 0) /\ \A j \in 1..Len(fs) : FALSE
    BY <2>1, <2>2
  <2>4. /\ qt'[a] = NoQt /\ \A x \in Addr \ {a} : qt'[x] = qt[x]
    BY <1>0, <1>9 DEF TypeOK
  <2>5. Fits(h, fs)
    <3>1. Covers(h) /\ Drops(h, fs)
      BY <1>1, <1>3 DEF Covers, Drops, DropOps
    <3>2. OkSame(h)
      BY <1>1, <1>3, <1>7 DEF OkSame, WFrame
    <3>. QED  BY <2>1, <2>2, <2>3, <3>1, <3>2, OkSameStatuses, SimpleFits
  <2>6. Keeps(h, fs)
    <3>1. ASSUME NEW k \in 0 .. h - 1, At(Tower, k).op \in RestOps
          PROVE  qt'[At(Tower, k).a].state = "live"
      <4>1. k \in Heights(Tower)
        BY <1>3 DEF Heights
      <4>. QED  BY <1>5, <2>4, <3>1, <4>1, RestThere DEF Live
    <3>2. \A x \in Addr : ObjectOk(x)' /\ (qt'[x].kind = "app" => qt[x].kind = "app")
      BY <2>4 DEF Ground, DataInv, ObjectOk, NoQt
    <3>3. PointersKept(fs)
      BY <1>6, <1>7, <2>4 DEF PointersKept, Live
    <3>4. At(Tower, h).op \notin RestOps
      BY <1>1, <1>3
    <3>5. /\ \A v \in Wrap : pd'[v].obj = pd[v].obj /\ pd'[v].attached = pd[v].attached
          /\ \A v \in Wrap : pd[v].obj # None => qt'[pd[v].obj].kind = qt[pd[v].obj].kind
      BY <1>6, <1>7, <2>4
    <3>. QED  BY <1>7, <2>1, <2>2, <2>3, <3>1, <3>2, <3>3, <3>4, <3>5, SteadyKeeps
  <2>. QED  BY <1>3, <2>1, <2>2, <2>3, <2>5, <2>6 DEF Moves
<1>10. Moves
  BY <1>4, <1>8, <1>9 DEF QtFree
<1>. QED  BY <1>7, <1>10 DEF Good, Harmless

\* a callback goes on to calls of no importance
LEMMA CallbackGood ==
    ASSUME Ground, TypeOK', Tower # <<>>, Top(GuiThread).op \in CallbackOps,
           UNCHANGED <<qt, wr, map, qwm, fault>>,
           NEW fs \in Seq(Frame), Calls(GuiThread, fs),
           \A v \in Wrap : pd'[v].obj = pd[v].obj /\ pd'[v].attached = pd[v].attached,
           \A j \in 1..Len(fs) :
               /\ fs[j].op \notin {"deleteAll", "qtDestroy"} \cup RestOps
               /\ SimpleAt(fs, j),
           Len(fs) > 0 => TopOk(fs[1])',
           PointersKept(fs)
    PROVE  Good
<1>0. TypeOK
  BY DEF Ground
<1>1. PICK h : h = Len(Tower) - 1
  OBVIOUS
<1>2. /\ h \in Nat /\ h < Len(Tower) /\ h \in Heights(Tower) /\ h # Len(Tower)
      /\ At(Tower, h) = Top(GuiThread) /\ At(Tower, h).op \in CallbackOps
  BY <1>0, <1>1, TowerTop
<1>3. Rebuilt(h, fs)
  BY <1>0, <1>1, CallsRebuild
<1>4. /\ At(Tower, h).op \notin DropOps /\ At(Tower, h).op # "commonDtor"
      /\ At(Tower, h).op \notin RestOps
  BY <1>2 DEF DropOps
<1>5. Fits(h, fs)
  <2>1. Covers(h) /\ Drops(h, fs)
    BY <1>2, <1>4 DEF Covers, Drops
  <2>2. OkSame(h)
    BY <1>2, <1>4 DEF OkSame, WFrame
  <2>. QED  BY <1>3, <2>1, <2>2, OkSameStatuses, SimpleFits
<1>6. Keeps(h, fs)
  <2>1. ASSUME NEW k \in 0 .. h - 1, At(Tower, k).op \in RestOps
        PROVE  qt'[At(Tower, k).a].state = "live"
    <3>1. k \in Heights(Tower)
      BY <1>2 DEF Heights
    <3>. QED  BY <2>1, <3>1, RestThere DEF Live
  <2>2. \A x \in Addr : ObjectOk(x)' /\ (qt'[x].kind = "app" => qt[x].kind = "app")
    BY DEF Ground, DataInv, ObjectOk
  <2>3. \A j \in 1..Len(fs) : fs[j].op \notin {"deleteAll", "qtDestroy"} \cup RestOps
    OBVIOUS
  <2>. QED  BY <1>3, <1>4, <2>1, <2>2, <2>3, SteadyKeeps
<1>. QED  BY <1>2, <1>3, <1>5, <1>6 DEF Moves, Good, Harmless

LEMMA DeletedGood ==
    ASSUME Ground, TypeOK', Deleted(GuiThread)
    PROVE  Good
<1>0. TypeOK
  BY DEF Ground
<1>1. Tower # <<>> /\ Top(GuiThread).op = "deleted"
  BY DEF Deleted, AtTop, Running, Tower
<1>2. PICK h : h = Len(Tower) - 1
  OBVIOUS
<1>3. /\ h \in Nat /\ h \in Heights(Tower)
      /\ At(Tower, h) = Top(GuiThread) /\ Tower \in Seq(Frame)
  BY <1>0, <1>1, <1>2, TowerTop
<1>4. PICK a \in Addr : a = Top(GuiThread).a /\ At(Tower, h) = AFrame("deleted", a)
  BY <1>1, <1>3, FrameAt DEF AOps
<1>5. Dying(a) /\ ~Live(a)
  BY <1>1, <1>4, SummitTop DEF TopOk, Dying, Live
<1>6. \A v \in Wrap : pd[v].obj # None /\ pd[v].obj # a => Live(pd[v].obj) /\ pd[v].obj \in Addr
  <2>1. SUFFICES ASSUME NEW v \in Wrap, pd[v].obj # None, pd[v].obj # a
                 PROVE  Live(pd[v].obj) /\ pd[v].obj \in Addr
    OBVIOUS
  <2>2. ~Hears(At(Tower, h), pd[v].obj, v)
    BY <1>4, <2>1 DEF Hears, AFrame
  <2>. QED  BY <1>0, <1>2, <2>1, <2>2, PdFields DEF Ground, DataInv, PointerOk
<1>7. UNCHANGED <<qt, wr, pd, map, qwm, fault>>
  BY DEF Deleted
<1>8. \A v \in Wrap : pd[v].obj # None /\ pd[v].obj = a => map[a] = v
  BY <1>1, PointedMapped DEF EndOps
<1>9. CASE map[a] = None
  <2>1. Calls(GuiThread, <<>>)
    BY <1>4, <1>9 DEF Deleted
  <2>2. PICK fs : fs = <<>>
    OBVIOUS
  <2>3. /\ fs \in Seq(Frame) /\ ~(Len(fs) > 0) /\ \A j \in 1..Len(fs) : FALSE
    BY <2>2
  <2>4. \A v \in Wrap : pd[v].obj # a
    BY <1>8, <1>9, MapNone, NoneAssumption
  <2>5. PointersKept(fs)
    BY <1>6, <1>7, <2>4 DEF PointersKept, Live
  <2>6. Calls(GuiThread, fs)
    BY <2>1, <2>2
  <2>7. Top(GuiThread).op \in CallbackOps
    BY <1>1
  <2>. QED  BY <1>1, <1>7, <2>3, <2>5, <2>6, <2>7, CallbackGood
<1>10. CASE map[a] # None
  <2>1. PICK w \in Wrap : w = map[a] /\ pd[w].obj = a /\ pd[w].obj # None
    BY <1>10, EntryPoints
  <2>. DEFINE f == WFrame("hold", w)
  <2>2. Calls(GuiThread, <<f>>)
    BY <1>4, <1>10, <2>1 DEF Deleted
  <2>3. f \in Frame /\ f.op = "hold" /\ f.w = w
    BY WFrameType DEF WOps, WFrame
  <2>. HIDE DEF f
  <2>4. PICK fs : fs = <<f>>
    OBVIOUS
  <2>5. /\ fs \in Seq(Frame) /\ Len(fs) = 1 /\ fs[1] = f
        /\ \A j \in 1..Len(fs) : j = 1
    BY <2>3, <2>4
  <2>6. TopOk(fs[1])'
    BY <1>5, <1>7, <2>1, <2>3, <2>5 DEF TopOk, MissOps, Dying
  <2>7. \A j \in 1..Len(fs) :
           /\ fs[j].op \notin {"deleteAll", "qtDestroy"} \cup RestOps
           /\ SimpleAt(fs, j)
    BY <2>3, <2>5 DEF SimpleAt
  <2>8. PointersKept(fs)
    <3>1. SUFFICES ASSUME NEW v \in Wrap, pd[v].obj # None
                   PROVE  qt[pd[v].obj].state = "live" \/ Hears(fs[1], pd[v].obj, v)
      BY <1>7, <2>5 DEF PointersKept
    <3>2. CASE pd[v].obj = a
      <4>1. v = w
        BY <1>8, <2>1, <3>1, <3>2
      <4>. QED  BY <2>3, <2>5, <4>1 DEF Hears
    <3>. QED  BY <1>6, <3>1, <3>2 DEF Live
  <2>9. Calls(GuiThread, fs) /\ Top(GuiThread).op \in CallbackOps
    BY <1>1, <2>2, <2>4
  <2>. QED  BY <1>1, <1>7, <2>5, <2>6, <2>7, <2>8, <2>9, CallbackGood
<1>. QED  BY <1>9, <1>10

LEMMA HoldGood ==
    ASSUME Ground, TypeOK', Hold(GuiThread)
    PROVE  Good
<1>0. TypeOK
  BY DEF Ground
<1>1. Tower # <<>> /\ Top(GuiThread).op = "hold"
  BY DEF Hold, AtTop, Running, Tower
<1>2. PICK h : h = Len(Tower) - 1
  OBVIOUS
<1>3. /\ h \in Nat /\ h \in Heights(Tower)
      /\ At(Tower, h) = Top(GuiThread) /\ Tower \in Seq(Frame)
  BY <1>0, <1>1, <1>2, TowerTop
<1>4. PICK w \in Wrap : w = Top(GuiThread).w /\ At(Tower, h) = WFrame("hold", w)
  BY <1>1, <1>3, FrameAt DEF WOps
<1>5. pd[w].obj # None /\ Dying(pd[w].obj) /\ ~Live(pd[w].obj)
  BY <1>1, <1>4, SummitTop DEF TopOk, Dying, Live
<1>6. wr[w].status # "free" /\ pd[w].attached
  BY <1>5, PointingThere, LooseRest
<1>. DEFINE tell == WFrame("externalDelete", w)
            release == WFrame("pdDeref", w)
<1>7. /\ pd' = [pd EXCEPT ![w].refs = pd[w].refs + 1]
      /\ Calls(GuiThread, <<tell, release>>) /\ UNCHANGED <<qt, wr, map, qwm, fault>>
  BY <1>4, <1>6 DEF Hold
<1>8. /\ tell \in Frame /\ tell.op = "externalDelete" /\ tell.w = w
      /\ release \in Frame /\ release.op = "pdDeref"
  BY WFrameType DEF WOps, WFrame
<1>9. \A v \in Wrap : pd'[v].obj = pd[v].obj /\ pd'[v].attached = pd[v].attached
  BY <1>0, <1>7 DEF TypeOK, PdRecord
<1>. HIDE DEF tell, release
<1>10. PICK fs : fs = <<tell, release>>
  OBVIOUS
<1>11. /\ fs \in Seq(Frame) /\ Len(fs) = 2 /\ fs[1] = tell /\ fs[2] = release
       /\ \A j \in 1..Len(fs) : (j = 1 /\ fs[j] = tell) \/ fs[j] = release
  BY <1>8, <1>10
<1>12. TopOk(fs[1])'
  <2>1. pd'[w].obj = pd[w].obj /\ qt' = qt
    BY <1>7, <1>9
  <2>2. qt'[pd'[w].obj].state = "dying"
    BY <1>5, <2>1 DEF Dying
  <2>. QED  BY <1>5, <1>8, <1>11, <2>1, <2>2 DEF TopOk, MissOps, Dying
<1>13. \A j \in 1..Len(fs) :
          /\ fs[j].op \notin {"deleteAll", "qtDestroy"} \cup RestOps
          /\ SimpleAt(fs, j)
  BY <1>8, <1>11 DEF SimpleAt, FreeOps
<1>14. PointersKept(fs)
  <2>1. SUFFICES ASSUME NEW v \in Wrap, pd[v].obj # None
                 PROVE  qt[pd[v].obj].state = "live" \/ Hears(fs[1], pd[v].obj, v)
    BY <1>7, <1>9, <1>11 DEF PointersKept
  <2>2. CASE v = w
    BY <1>8, <1>11, <2>2 DEF Hears
  <2>3. CASE v # w
    <3>1. ~Hears(At(Tower, h), pd[v].obj, v)
      BY <1>4, <2>3 DEF Hears, AFrame, WFrame
    <3>. QED  BY <1>2, <2>1, <3>1 DEF Ground, DataInv, PointerOk, Live
  <2>. QED  BY <2>2, <2>3
<1>15. Calls(GuiThread, fs) /\ Top(GuiThread).op \in CallbackOps
  BY <1>1, <1>7, <1>10
<1>. QED  BY <1>1, <1>7, <1>9, <1>11, <1>12, <1>13, <1>14, <1>15, CallbackGood

-----------------------------------------------------------------------------
(* The invariant *)

LEMMA UnwindGood ==
    ASSUME LoneProgram, Ground, TypeOK', Unwind(GuiThread)
    PROVE  Good
<1>1. CASE ConstructorReturns(GuiThread) \/ UserDtorEnd(GuiThread) \/ OutOfMemory(GuiThread)
  BY <1>1, ReturnsGood
<1>2. CASE ConstructorThrows(GuiThread)
  BY <1>2 DEF ConstructorThrows, LoneProgram
<1>3. CASE \/ Deref(GuiThread) \/ EndDelete(GuiThread) \/ PdDeref(GuiThread)
           \/ ObjRefDrop(GuiThread) \/ CommonDestructor(GuiThread)
  BY <1>3, DerefGood, EndDeleteGood, PdDerefGood, ObjRefDropGood, CommonDestructorGood
<1>4. CASE DeleteAll(GuiThread) \/ DtorRest(GuiThread) \/ ExternalDelete(GuiThread)
  BY <1>4, DeleteAllGood, DtorRestGood, ExternalDeleteGood
<1>5. CASE QtDestroy(GuiThread) \/ QtFree(GuiThread) \/ Deleted(GuiThread)
  BY <1>5, QtDestroyGood, QtFreeGood, DeletedGood
<1>6. CASE MethodCall(GuiThread) \/ MapHit(GuiThread)
  BY <1>6, MethodCallGood, MapHitGood
<1>7. CASE \E w \in Wrap : MapMiss(GuiThread, w)
  BY <1>7, MapMissGood
<1>8. CASE \E w \in Wrap, b \in Addr : MapMissCopy(GuiThread, w, b)
  BY <1>8, MapMissCopyGood
<1>9. CASE \/ DtorRestEnd(GuiThread) \/ ExternalDeleteEnd(GuiThread)
           \/ ReturnToQtEnd(GuiThread) \/ MapDel(GuiThread) \/ Hold(GuiThread)
  BY <1>9, DtorRestEndGood, ExternalDeleteEndGood, ReturnToQtEndGood, MapDelGood, HoldGood
<1>. QED  BY <1>1, <1>2, <1>3, <1>4, <1>5, <1>6, <1>7, <1>8, <1>9 DEF Unwind

LEMMA ActsGood ==
    ASSUME LoneProgram, Ground, TypeOK', QtActs(GuiThread) \/ ProgramActs(GuiThread)
    PROVE  Good
<1>1. CASE \E a \in Addr : QtDelete(GuiThread, a)
  BY <1>1, QtDeleteGood
<1>2. CASE \E a \in Addr, p \in Addr \cup {None} : QtReparent(GuiThread, a, p)
  BY <1>2, QtReparentGood
<1>3. CASE \E a \in Addr, p \in Addr \cup {None}, kind \in Kinds : QtCreate(GuiThread, a, kind, p)
  BY <1>3 DEF QtCreate, LoneProgram
<1>4. CASE \E w \in Wrap : \/ Release(GuiThread, w) \/ Delete(GuiThread, w)
                           \/ SetExternallyOwned(GuiThread, w) \/ CommonMethod(GuiThread, w)
                           \/ ReturnToQt(GuiThread, w)
  BY <1>4, ReleaseGood, DeleteGood, SetExternallyOwnedGood, CommonMethodGood, ReturnToQtGood
<1>5. CASE \E w \in Wrap, p \in Addr \cup {None} : SetParent(GuiThread, w, p)
  BY <1>5, SetParentGood
<1>6. CASE \E w \in Wrap, p \in Addr \cup {None}, a \in Addr, kind \in Kinds :
              CommonConstructor(GuiThread, a, w, kind, p)
  BY <1>6, CommonConstructorGood
<1>7. CASE \E a \in Addr : ReturnByValue(GuiThread, a)
  BY <1>7 DEF ReturnByValue, LoneProgram
<1>8. CASE \E a \in Addr, const \in BOOLEAN : ReturnObject(GuiThread, a, const)
  BY <1>8, ReturnObjectGood
<1>9. CASE QtActs(GuiThread)
  BY <1>1, <1>2, <1>3, <1>9 DEF QtActs
<1>10. CASE ProgramActs(GuiThread)
  BY <1>4, <1>5, <1>6, <1>7, <1>8, <1>10 DEF ProgramActs
<1>. QED  BY <1>9, <1>10

LEMMA NextGood ==
    ASSUME LoneProgram, Ground, TypeOK', Next
    PROVE  Good
<1>1. \/ Unwind(GuiThread)
      \/ QtActs(GuiThread) \/ ProgramActs(GuiThread)
  BY DEF Next, LoneProgram
<1>. QED  BY <1>1, UnwindGood, ActsGood

LEMMA InitLone == Init => StackInv /\ DataInv
<1>. SUFFICES ASSUME Init PROVE StackInv /\ DataInv
  OBVIOUS
<1>1. Tower = <<>> /\ Len(Tower) = 0 /\ Heights(Tower) = {}
  BY ThreadAssumption DEF Init, Tower, Heights
<1>2. StackInv
  BY <1>1 DEF Init, NoPd, StackInv, Fitted, EndsOk, DestroyLast, SummitOk, Awake
<1>3. \A w \in Wrap : pd[w].obj = None
  BY DEF Init, NoPd
<1>4. \A a \in Addr : map[a] = None /\ qt[a] = NoQt
  BY DEF Init
<1>5. qwm.set = {}
  BY DEF Init
<1>6. RestOk /\ LoopOk /\ AppSafe
  BY <1>1 DEF RestOk, LoopOk, AppSafe
<1>7. LooseOk /\ PointerOk
  BY <1>3 DEF LooseOk, PointerOk
<1>8. SetOk /\ MapSound /\ \A a \in Addr : ObjectOk(a)
  BY <1>4, <1>5 DEF SetOk, MapSound, ObjectOk, NoQt
<1>. QED  BY <1>2, <1>6, <1>7, <1>8 DEF DataInv

\* only the faults that the project knows can happen
Mild == fault \in {None, "qwm_add", "qwm_deleteAll", "obj_ref", "deleteAll_dangling", "double_free"}
LoneInv == Ground /\ Mild

LEMMA InitLoneInv == Init => LoneInv
<1>. SUFFICES ASSUME Init PROVE LoneInv
  OBVIOUS
<1>1. Mild
  BY DEF Init, Mild
<1>. QED  BY <1>1, InitType, InitRefs, InitUse, InitIdentity, InitLone DEF LoneInv, Ground

LEMMA StepLone ==
    ASSUME LoneProgram, LoneInv, [Next]_vars
    PROVE  LoneInv'
<1>1. /\ TypeOK /\ RefsInv /\ PrivateInv /\ IdentityInv /\ StackInv /\ DataInv /\ Ground /\ Mild
  BY DEF LoneInv, Ground
<1>2. TypeOK'
  BY <1>1, StepType
<1>3. RefsInv' /\ PrivateInv' /\ IdentityInv'
  <2>1. OneThread
    BY DEF LoneProgram, OneThread
  <2>. QED  BY <1>1, <1>2, <2>1, StepRefs, StepUse, StepIdentity
<1>4. CASE Next
  <2>1. Harmless /\ (Idle \/ Moves)
    BY <1>1, <1>2, <1>4, NextGood DEF Good
  <2>2. Mild'
    BY <1>1, <2>1 DEF Mild, Harmless
  <2>3. CASE Idle
    <3>1. StackInv'
      BY <1>1, <2>3 DEF Idle, StackInv, Fitted, FitAt, EndsOk, DestroyLast, SummitOk, TopOk, Awake, Tower, Dying, Live
    <3>2. DataInv'
      BY <1>1, <2>3 DEF Idle, DataInv, RestOk, RestAt, LooseOk, RestFrames, PointerOk, Hears, ObjectOk, LoopOk, LoopAt, AppSafe, Unpointed, SetOk, MapSound, Tower, Live
    <3>. QED  BY <1>2, <1>3, <2>2, <3>1, <3>2 DEF LoneInv, Ground
  <2>4. CASE Moves
    <3>1. StackInv' /\ DataInv'
      BY <1>1, <2>4, MovesKeep
    <3>. QED  BY <1>2, <1>3, <2>2, <3>1 DEF LoneInv, Ground
  <2>. QED  BY <2>1, <2>3, <2>4
<1>5. CASE UNCHANGED vars
  <2>1. Idle /\ fault' = fault
    BY <1>5 DEF vars, Idle
  <2>2. StackInv'
    BY <1>1, <2>1 DEF Idle, StackInv, Fitted, FitAt, EndsOk, DestroyLast, SummitOk, TopOk, Awake, Tower, Dying, Live
  <2>3. DataInv'
    BY <1>1, <2>1 DEF Idle, DataInv, RestOk, RestAt, LooseOk, RestFrames, PointerOk, Hears, ObjectOk, LoopOk, LoopAt, AppSafe, Unpointed, SetOk, MapSound, Tower, Live
  <2>. QED  BY <1>1, <1>2, <1>3, <2>1, <2>2, <2>3 DEF LoneInv, Ground, Mild
<1>. QED  BY <1>4, <1>5

LEMMA AlwaysLone == ASSUME LoneProgram PROVE Spec => []LoneInv
<1>1. LoneInv /\ [Next]_vars => LoneInv'
  BY StepLone
<1>. QED  BY <1>1, InitLoneInv, PTL DEF Spec

\* In a program of one thread whose Qt objects are made from Qore and whose
\* constructors do not throw, every entry of the map leads to the wrapper of
\* that object: whatever is returned to Qore is the object that was meant.
THEOREM EntriesSound == ASSUME LoneProgram PROVE Spec => []MapSound
<1>1. LoneInv => MapSound
  BY DEF LoneInv, Ground, DataInv
<1>. QED  BY <1>1, AlwaysLone, PTL

\* No assertion of the map or of clear() fails in such a program.
THEOREM AssertionsHold == ASSUME LoneProgram PROVE Spec => []MapAssertions
<1>1. LoneInv => MapAssertions
  BY NoneAssumption DEF LoneInv, Mild, MapAssertions, Faults
<1>. QED  BY <1>1, AlwaysLone, PTL

\* Nothing is used after it was freed: no dead Qt object is called, no freed
\* wrapper or private data entered, and the wrapper of an object is there when
\* the destructor of the object looks for it.  What remains of MemorySafe, that
\* no object is deleted twice, needs one more condition (AlwaysMemorySafe).
THEOREM NothingUsedAfterFree ==
    ASSUME LoneProgram
    PROVE  Spec => [](fault \notin {"dangling_qt", "wrapper_gone",
                                    "null_this", "dangling_this"})
<1>1. LoneInv => fault \notin {"dangling_qt", "wrapper_gone", "null_this", "dangling_this"}
  BY NoneAssumption DEF LoneInv, Mild, Faults
<1>. QED  BY <1>1, AlwaysLone, PTL

LEMMA NothingDangles == Ground => NoDanglingPrivate
<1>. SUFFICES ASSUME Ground, NEW w \in Wrap, pd[w].obj # None
              PROVE  qt[pd[w].obj].state # "free"
  BY DEF NoDanglingPrivate
<1>1. CASE Live(pd[w].obj)
  BY <1>1 DEF Live
<1>2. CASE Len(Tower) > 0 /\ Hears(At(Tower, Len(Tower) - 1), pd[w].obj, w)
  <2>1. TopOk(At(Tower, Len(Tower) - 1))
    BY <1>2 DEF Ground, StackInv, SummitOk
  <2>2. Dying(pd[w].obj)
    BY <1>2, <2>1 DEF Hears, TopOk, AFrame
  <2>. QED  BY <2>2 DEF Dying
<1>. QED  BY <1>1, <1>2 DEF Ground, DataInv, PointerOk

\* The Qt object that private data points to is never one that was freed,
\* however the destructors of Qt and of Qore nest.
THEOREM PrivateNeverDangles == ASSUME LoneProgram PROVE Spec => []NoDanglingPrivate
<1>1. LoneInv => NoDanglingPrivate
  BY NothingDangles DEF LoneInv
<1>. QED  BY <1>1, AlwaysLone, PTL

\* The windows that the widget manager will delete have not been freed.
THEOREM WindowsNeverDangle == ASSUME LoneProgram PROVE Spec => []NoDanglingWindow
<1>1. LoneInv => NoDanglingWindow
  <2>. SUFFICES ASSUME LoneInv, ~qwm.done, NEW a \in qwm.set PROVE qt[a].state # "free"
    BY DEF NoDanglingWindow
  <2>1. a \in Addr /\ a # None
    BY NoneAssumption DEF LoneInv, Ground, TypeOK
  <2>2. PICK w \in Wrap : pd[w].obj = a
    BY DEF LoneInv, Ground, DataInv, SetOk
  <2>. QED  BY <2>1, <2>2, NothingDangles DEF LoneInv, NoDanglingPrivate
<1>. QED  BY <1>1, AlwaysLone, PTL

-----------------------------------------------------------------------------
(* Entries leave the map with their object *)

EntryStep ==
    \A a \in Addr :
        map[a] # None /\ map'[a] # map[a] =>
            /\ map'[a] = None
            /\ Dying(a) \/ Returned(map[a]) \/ wr[map[a]].status # "ok"

LEMMA SameEntries == ASSUME map' = map PROVE EntryStep
BY DEF EntryStep

\* the entry that del() takes off
LEMMA DelEntry ==
    ASSUME Ground, MapDel(GuiThread)
    PROVE  EntryStep
<1>0. TypeOK
  BY DEF Ground
<1>1. PICK f : f = Top(GuiThread)
  OBVIOUS
<1>2. /\ Tower # <<>> /\ f.op \in DelOps /\ f.op \in ClearOps /\ Running(GuiThread)
  BY <1>0, <1>1, MapDelStep, ThreadAssumption DEF Tower, DelOps, Running
<1>3. PICK w, o : w \in Wrap /\ w = f.w /\ o = pd[w].obj /\ o # None
  BY <1>1, <1>2, ClearedObject
<1>4. map[o] = w
  <2>1. f.op \notin EndOps
    BY <1>2 DEF DelOps, EndOps
  <2>. QED  BY <1>1, <1>3, <2>1, PointedMapped
<1>5. UNCHANGED map \/ map' = [map EXCEPT ![o] = None]
  BY <1>1, <1>3 DEF MapDel, Abort
<1>6. /\ Len(Tower) - 1 \in Heights(Tower) /\ f = At(Tower, Len(Tower) - 1) /\ f \in Frame
  BY <1>0, <1>1, <1>2, TowerTop, FrameAt
<1>7. Dying(o) \/ Returned(w) \/ wr[w].status # "ok"
  <2>1. CASE f.op \in RestOps
    BY <1>3, <1>6, <2>1, RestThere
  <2>2. CASE f.op \in HearOps
    BY <1>1, <1>2, <1>3, <2>2, SummitTop DEF TopOk
  <2>3. CASE f.op = "returnDel"
    <3>1. f.op \in WOps
      BY <2>3 DEF WOps
    <3>2. f = WFrame("returnDel", w)
      BY <1>3, <1>6, <2>3, <3>1, <1>0, <1>2, TowerTop, FrameAt
    <3>. QED  BY <1>1, <1>2, <3>2, ThreadAssumption DEF Returned
  <2>. QED  BY <1>2, <2>1, <2>2, <2>3 DEF DelOps
<1>8. \A a \in Addr : map'[a] # map[a] => a = o /\ map'[a] = None
  BY <1>0, <1>5 DEF TypeOK
<1>. QED  BY <1>4, <1>7, <1>8 DEF EntryStep

LEMMA MakeEntry ==
    ASSUME TypeOK, NEW w, NEW a \in Addr, NEW kind, NEW p, NEW eo,
           NewPrivate(w, a, kind, p, eo), map[a] = None
    PROVE  EntryStep
<1>1. \A x \in Addr \ {a} : map'[x] = map[x]
  BY DEF NewPrivate, TypeOK
<1>. QED  BY <1>1 DEF EntryStep

LEMMA UnwindEntries ==
    ASSUME LoneProgram, Ground, Unwind(GuiThread)
    PROVE  EntryStep
<1>0. TypeOK
  BY DEF Ground
<1>. USE DEF Abort
<1>1. CASE \/ ConstructorReturns(GuiThread) \/ ConstructorThrows(GuiThread)
           \/ UserDtorEnd(GuiThread) \/ OutOfMemory(GuiThread) \/ MethodCall(GuiThread)
  <2>1. map' = map
    BY <1>1 DEF ConstructorReturns, ConstructorThrows, UserDtorEnd, OutOfMemory, MethodCall
  <2>. QED  BY <2>1, SameEntries
<1>2. CASE \/ Deref(GuiThread) \/ EndDelete(GuiThread) \/ ObjRefDrop(GuiThread)
           \/ CommonDestructor(GuiThread) \/ DeleteAll(GuiThread) \/ MapHit(GuiThread)
  <2>1. map' = map
    BY <1>2 DEF Deref, EndDelete, ObjRefDrop, CommonDestructor, DeleteAll, MapHit
  <2>. QED  BY <2>1, SameEntries
<1>3. CASE QtDestroy(GuiThread) \/ QtFree(GuiThread) \/ Deleted(GuiThread)
  <2>1. map' = map
    BY <1>3 DEF QtDestroy, QtFree, Deleted
  <2>. QED  BY <2>1, SameEntries
<1>4. CASE PdDeref(GuiThread)
  <2>1. Tower # <<>> /\ Top(GuiThread).op = "pdDeref"
    BY <1>4 DEF PdDeref, AtTop, Running, Tower
  <2>2. PICK w \in Wrap : w = Top(GuiThread).w /\ Top(GuiThread) = WFrame("pdDeref", w)
    BY <1>0, <2>1, TowerTop, FrameAt DEF WOps
  <2>3. ~(pd[w].refs > 1) => pd[w].obj = None
    BY <2>1, <2>2, LastUse
  <2>4. map' = map
    BY <1>4, <2>2, <2>3 DEF PdDeref
  <2>. QED  BY <2>4, SameEntries
<1>5. CASE \/ DtorRest(GuiThread) \/ DtorRestEnd(GuiThread) \/ ReturnToQtEnd(GuiThread)
           \/ ExternalDelete(GuiThread) \/ ExternalDeleteEnd(GuiThread) \/ Hold(GuiThread)
  <2>1. map' = map
    BY <1>5 DEF DtorRest, DtorRestEnd, ReturnToQtEnd, ExternalDelete, ExternalDeleteEnd, Hold
  <2>. QED  BY <2>1, SameEntries
<1>6. CASE MapDel(GuiThread)
  BY <1>6, DelEntry
<1>7. ASSUME NEW w \in Wrap, MapMiss(GuiThread, w) PROVE EntryStep
  <2>1. Tower # <<>> /\ Top(GuiThread).op \in {"mapMiss", "mapMissOwned"}
    BY <1>7 DEF MapMiss, AtTop, Running, Tower
  <2>2. PICK a \in Addr : a = Top(GuiThread).a
    BY <1>0, <2>1, TopArguments, ThreadAssumption DEF AOps, Tower
  <2>3. map[a] = None
    BY <2>1, <2>2, SummitTop DEF TopOk, MissOps
  <2>4. \/ map' = map
        \/ NewPrivate(w, a, qt[a].kind, qt[a].parent, Top(GuiThread).op = "mapMiss")
    BY <1>7, <2>2 DEF MapMiss
  <2>. QED  BY <1>0, <2>3, <2>4, MakeEntry, SameEntries
<1>8. ASSUME NEW w \in Wrap, NEW b \in Addr, MapMissCopy(GuiThread, w, b) PROVE EntryStep
  <2>1. map' = map \/ (map[b] = None /\ NewPrivate(w, b, "plain", None, FALSE))
    BY <1>8 DEF MapMissCopy
  <2>. QED  BY <1>0, <2>1, MakeEntry, SameEntries
<1>. QED  BY <1>1, <1>2, <1>3, <1>4, <1>5, <1>6, <1>7, <1>8 DEF Unwind

LEMMA ActsEntries ==
    ASSUME LoneProgram, Ground, QtActs(GuiThread) \/ ProgramActs(GuiThread)
    PROVE  EntryStep
<1>. USE DEF Abort
<1>1. ASSUME NEW a \in Addr, QtDelete(GuiThread, a) PROVE EntryStep
  BY <1>1, SameEntries DEF QtDelete
<1>2. ASSUME NEW a \in Addr, NEW p \in Addr \cup {None},
             \/ QtReparent(GuiThread, a, p)
             \/ \E kind \in Kinds : QtCreate(GuiThread, a, kind, p)
      PROVE  EntryStep
  BY <1>2, SameEntries DEF QtReparent, QtCreate
<1>3. ASSUME NEW w \in Wrap,
             \/ Release(GuiThread, w) \/ Delete(GuiThread, w)
             \/ SetExternallyOwned(GuiThread, w) \/ CommonMethod(GuiThread, w)
             \/ \E p \in Addr \cup {None} : SetParent(GuiThread, w, p)
      PROVE  EntryStep
  <2>1. map' = map
    BY <1>3 DEF Release, Delete, SetExternallyOwned, CommonMethod, SetParent
  <2>. QED  BY <2>1, SameEntries
<1>4. ASSUME NEW w \in Wrap, ReturnToQt(GuiThread, w) PROVE EntryStep
  BY <1>4, SameEntries DEF ReturnToQt
<1>5. ASSUME NEW w \in Wrap, NEW p \in Addr \cup {None}, NEW a \in Addr, NEW kind \in Kinds,
             CommonConstructor(GuiThread, a, w, kind, p)
      PROVE  EntryStep
  <2>1. map' = map \/ (PrivateFault(a, kind, p) = None /\ NewPrivate(w, a, kind, p, FALSE))
    BY <1>5 DEF CommonConstructor
  <2>2. PrivateFault(a, kind, p) = None => map[a] = None
    BY NoneAssumption DEF PrivateFault, Faults
  <2>3. TypeOK
    BY DEF Ground
  <2>. QED  BY <2>1, <2>2, <2>3, MakeEntry, SameEntries
<1>6. ASSUME NEW a \in Addr, \/ ReturnByValue(GuiThread, a)
                             \/ \E const \in BOOLEAN : ReturnObject(GuiThread, a, const)
      PROVE  EntryStep
  BY <1>6, SameEntries DEF ReturnByValue, ReturnObject
<1>. QED  BY <1>1, <1>2, <1>3, <1>4, <1>5, <1>6 DEF QtActs, ProgramActs

LEMMA NextEntries ==
    ASSUME LoneProgram, Ground, [Next]_vars
    PROVE  EntryStep
<1>1. CASE UNCHANGED vars
  BY <1>1, SameEntries DEF vars
<1>2. CASE Next
  BY <1>2, UnwindEntries, ActsEntries DEF Next, LoneProgram
<1>. QED  BY <1>1, <1>2

\* An entry leaves the map only if its Qt object is being deleted or passed to
\* Qt by value, or its wrapper destroyed, and is never redirected.
THEOREM EntriesKept == ASSUME LoneProgram PROVE Spec => EntryKept
<1>1. LoneInv /\ [Next]_vars => [\A a \in Addr :
         map[a] # None /\ map'[a] # map[a] =>
            /\ map'[a] = None
            /\ Dying(a) \/ Returned(map[a]) \/ wr[map[a]].status # "ok"]_vars
  BY NextEntries DEF LoneInv, EntryStep
<1>. QED  BY <1>1, AlwaysLone, PTL DEF Spec, EntryKept

-----------------------------------------------------------------------------
(* No object is deleted twice *)

\* destructors written in Qore do not act on other objects
MutedProgram == LoneProgram /\ NestedUserCode = FALSE

\* no destructor of Qt is at work below the height n,
NoFree(n) == \A k \in 0 .. n - 1 : At(Tower, k).op # "qtFree"
\* or that of the parent of a is
Chained(n, a) ==
    NoFree(n) \/ \E k \in 0 .. n - 1 : At(Tower, k) = AFrame("qtFree", qt[a].parent)
\* only constructors are at work below the height n
NoneBelow(n) == \A k \in 0 .. n - 1 : At(Tower, k).op = "ctorBody"

LowOps == MissOps \cup {"ctorBody"}
DeleteOps == {"qtDestroy", "qtFree"}
ShelterOps == RestOps \cup {"userDtor", "commonDtor", "endDelete", "deref", "objRefDrop"}

\* the program acts when no destructor is at work
UserLow == \A h \in Heights(Tower) : At(Tower, h).op \in LowOps => NoneBelow(h)
\* a wrapper that is destroyed while Qt deletes objects has lost its own
Shelter ==
    \A h \in Heights(Tower) : At(Tower, h).op \in ShelterOps =>
        NoFree(h) \/ pd[At(Tower, h).w].obj = None
\* an object is deleted by the program or by its parent,
ChainOk ==
    \A h \in Heights(Tower) : At(Tower, h).op \in DeleteOps => Chained(h, At(Tower, h).a)
\* while it is alive,
TargetOk ==
    \A h \in Heights(Tower) : At(Tower, h).op = "qtDestroy" => Live(At(Tower, h).a)
\* and is dying only as long as its destructor is at work
DyingOk ==
    \A a \in Addr : Dying(a) => \E h \in Heights(Tower) : At(Tower, h) = AFrame("qtFree", a)
\* parents are there, and nothing is its own ancestor
TreeOk ==
    /\ \A a \in Addr : qt[a].parent # None => qt[qt[a].parent].state # "free"
    /\ \A S \in SUBSET Addr : S # {} => \E x \in S : qt[x].parent \notin S

OnceInv == UserLow /\ Shelter /\ ChainOk /\ TargetOk /\ DyingOk /\ TreeOk

\* What a step may put on the stack, and do to the objects on it.
LowAt(b, fs, j) == fs[j].op \in LowOps => j = Len(fs) /\ NoneBelow(b)
ShelterAt(b, fs, j) ==
    fs[j].op \in ShelterOps =>
        /\ NoFree(b) \/ pd'[fs[j].w].obj = None
        /\ \A i \in 1..Len(fs) : fs[i].op # "qtFree"
DeleteAt(b, fs, j) ==
    /\ fs[j].op \in DeleteOps =>
          /\ \/ NoFree(b)
             \/ \E k \in 0 .. b - 1 : At(Tower, k) = AFrame("qtFree", qt'[fs[j].a].parent)
          /\ \A i \in j + 1 .. Len(fs) : fs[i].op # "qtFree"
    /\ fs[j].op = "qtDestroy" => qt'[fs[j].a].state = "live"
ObjectsKept(b, fs) ==
    /\ NoFree(b) \/ \A w \in Wrap : pd'[w].obj \in {pd[w].obj, None}
    /\ \A h \in 0 .. b - 1 : At(Tower, h).op \in DeleteOps =>
          /\ qt'[At(Tower, h).a].parent = qt[At(Tower, h).a].parent
          /\ At(Tower, h).op = "qtDestroy" => qt'[At(Tower, h).a].state = "live"
    /\ \A a \in Addr : qt'[a].state = "dying" =>
          \/ Dying(a) /\ (b < Len(Tower) => At(Tower, b) # AFrame("qtFree", a))
          \/ \E j \in 1..Len(fs) : fs[j] = AFrame("qtFree", a)
Plants(b, fs) ==
    /\ \A j \in 1..Len(fs) : LowAt(b, fs, j) /\ ShelterAt(b, fs, j) /\ DeleteAt(b, fs, j)
    /\ ObjectsKept(b, fs)
    /\ TreeOk'

\* below b nothing is moved
LEMMA LowerFrames ==
    ASSUME NEW b, NEW fs, Rebuilt(b, fs), NEW n \in 0 .. b
    PROVE  /\ NoFree(n)' <=> NoFree(n)
           /\ NoneBelow(n)' <=> NoneBelow(n)
           /\ \A f : (\E k \in 0 .. n - 1 : At(Tower', k) = f)
                        <=> (\E k \in 0 .. n - 1 : At(Tower, k) = f)
<1>1. b \in Nat /\ n \in Nat /\ n <= b
  BY DEF Rebuilt
<1>2. \A k \in 0 .. n - 1 : At(Tower', k) = At(Tower, k)
  BY <1>1 DEF Rebuilt, Grows
<1>. QED  BY <1>2 DEF NoFree, NoneBelow

\* a new frame stands on the old ones below b and the new ones that follow it
LEMMA NewBelow ==
    ASSUME NEW b, NEW fs, Rebuilt(b, fs), NEW j \in 1..Len(fs), NEW h, h = b + Len(fs) - j,
           NEW k \in 0 .. h - 1
    PROVE  \/ k \in 0 .. b - 1 /\ At(Tower', k) = At(Tower, k)
           \/ \E i \in j + 1 .. Len(fs) : At(Tower', k) = fs[i]
<1>1. /\ b \in Nat /\ Len(fs) \in Nat /\ Len(Tower') = b + Len(fs)
      /\ \A i \in 1..Len(fs) : At(Tower', b + Len(fs) - i) = fs[i]
      /\ \A i \in 0 .. b - 1 : At(Tower', i) = At(Tower, i)
      /\ k \in Int
  BY DEF Rebuilt, Grows
<1>2. CASE k < b
  BY <1>1, <1>2
<1>3. CASE k >= b
  <2>. DEFINE i == b + Len(fs) - k
  <2>1. i \in j + 1 .. Len(fs) /\ i \in 1..Len(fs) /\ k = b + Len(fs) - i
    BY <1>1, <1>3
  <2>. HIDE DEF i
  <2>2. At(Tower', k) = fs[i]
    BY <1>1, <2>1
  <2>. QED  BY <2>1, <2>2
<1>. QED  BY <1>1, <1>2, <1>3

LEMMA UserLowKept ==
    ASSUME NEW b, NEW fs, Rebuilt(b, fs), Plants(b, fs), UserLow
    PROVE  UserLow'
<1>. SUFFICES ASSUME NEW h \in Heights(Tower'), At(Tower', h).op \in LowOps
              PROVE  NoneBelow(h)'
  BY DEF UserLow
<1>0. b \in Nat /\ Len(fs) \in Nat
  BY DEF Rebuilt
<1>1. CASE h \in 0 .. b - 1 /\ h \in Heights(Tower) /\ At(Tower', h) = At(Tower, h)
  <2>1. NoneBelow(h) /\ h \in 0 .. b
    BY <1>0, <1>1 DEF UserLow
  <2>. QED  BY <2>1, LowerFrames
<1>2. ASSUME NEW j \in 1..Len(fs), h = b + Len(fs) - j, At(Tower', h) = fs[j]
      PROVE  NoneBelow(h)'
  <2>1. j = Len(fs) /\ NoneBelow(b)
    BY <1>2 DEF Plants, LowAt
  <2>2. h = b /\ b \in 0 .. b
    BY <1>0, <1>2, <2>1
  <2>. QED  BY <2>1, <2>2, LowerFrames
<1>. QED  BY <1>1, <1>2, NewFrames

LEMMA ShelterKept ==
    ASSUME NEW b, NEW fs, Rebuilt(b, fs), Plants(b, fs), Shelter
    PROVE  Shelter'
<1>. SUFFICES ASSUME NEW h \in Heights(Tower'), At(Tower', h).op \in ShelterOps
              PROVE  NoFree(h)' \/ pd'[At(Tower', h).w].obj = None
  BY DEF Shelter
<1>0. b \in Nat /\ Len(fs) \in Nat /\ Tower \in Seq(Frame)
  BY DEF Rebuilt
<1>1. CASE h \in 0 .. b - 1 /\ h \in Heights(Tower) /\ At(Tower', h) = At(Tower, h)
  <2>1. h \in 0 .. b /\ At(Tower, h).w \in Wrap
    <3>1. At(Tower, h).op \in WOps \cup RestOps
      BY <1>1 DEF ShelterOps, WOps
    <3>. QED  BY <1>0, <1>1, <3>1, FrameAt
  <2>2. CASE NoFree(b)
    <3>1. NoFree(h)
      BY <1>0, <1>1, <2>2 DEF NoFree
    <3>. QED  BY <2>1, <3>1, LowerFrames
  <2>3. CASE ~NoFree(b)
    <3>1. pd'[At(Tower, h).w].obj \in {pd[At(Tower, h).w].obj, None}
      BY <2>1, <2>3 DEF Plants, ObjectsKept
    <3>2. NoFree(h) \/ pd[At(Tower, h).w].obj = None
      BY <1>1 DEF Shelter
    <3>. QED  BY <1>1, <2>1, <3>1, <3>2, LowerFrames
  <2>. QED  BY <2>2, <2>3
<1>2. ASSUME NEW j \in 1..Len(fs), h = b + Len(fs) - j, At(Tower', h) = fs[j]
      PROVE  NoFree(h)' \/ pd'[fs[j].w].obj = None
  <2>1. SUFFICES ASSUME NoFree(b) PROVE NoFree(h)'
    BY <1>2 DEF Plants, ShelterAt
  <2>2. ASSUME NEW k \in 0 .. h - 1 PROVE At(Tower', k).op # "qtFree"
    <3>1. \A i \in 1..Len(fs) : fs[i].op # "qtFree"
      BY <1>2 DEF Plants, ShelterAt
    <3>2. j + 1 .. Len(fs) \subseteq 1..Len(fs)
      BY <1>0
    <3>3. \/ k \in 0 .. b - 1 /\ At(Tower', k) = At(Tower, k)
          \/ \E i \in j + 1 .. Len(fs) : At(Tower', k) = fs[i]
      BY <1>2, NewBelow
    <3>. QED  BY <2>1, <3>1, <3>2, <3>3 DEF NoFree
  <2>. QED  BY <2>2 DEF NoFree
<1>. QED  BY <1>1, <1>2, NewFrames

LEMMA ChainKept ==
    ASSUME NEW b, NEW fs, Rebuilt(b, fs), Plants(b, fs), ChainOk
    PROVE  ChainOk'
<1>. SUFFICES ASSUME NEW h \in Heights(Tower'), At(Tower', h).op \in DeleteOps,
                     NEW p, p = qt'[At(Tower', h).a].parent
              PROVE  NoFree(h)' \/ \E k \in 0 .. h - 1 : At(Tower', k) = AFrame("qtFree", p)
  BY DEF ChainOk, Chained
<1>0. b \in Nat /\ Len(fs) \in Nat
  BY DEF Rebuilt
<1>1. CASE h \in 0 .. b - 1 /\ h \in Heights(Tower) /\ At(Tower', h) = At(Tower, h)
  <2>1. h \in 0 .. b /\ p = qt[At(Tower, h).a].parent
    BY <1>0, <1>1 DEF Plants, ObjectsKept
  <2>2. NoFree(h) \/ \E k \in 0 .. h - 1 : At(Tower, k) = AFrame("qtFree", p)
    BY <1>1, <2>1 DEF ChainOk, Chained
  <2>. QED  BY <2>1, <2>2, LowerFrames
<1>2. ASSUME NEW j \in 1..Len(fs), h = b + Len(fs) - j, At(Tower', h) = fs[j]
      PROVE  NoFree(h)' \/ \E k \in 0 .. h - 1 : At(Tower', k) = AFrame("qtFree", p)
  <2>1. /\ NoFree(b) \/ \E k \in 0 .. b - 1 : At(Tower, k) = AFrame("qtFree", p)
        /\ \A i \in j + 1 .. Len(fs) : fs[i].op # "qtFree"
    BY <1>2 DEF Plants, DeleteAt
  <2>2. CASE NoFree(b)
    <3>1. ASSUME NEW k \in 0 .. h - 1 PROVE At(Tower', k).op # "qtFree"
      <4>1. \/ k \in 0 .. b - 1 /\ At(Tower', k) = At(Tower, k)
            \/ \E i \in j + 1 .. Len(fs) : At(Tower', k) = fs[i]
        BY <1>2, NewBelow
      <4>. QED  BY <2>1, <2>2, <4>1 DEF NoFree
    <3>. QED  BY <3>1 DEF NoFree
  <2>3. ASSUME NEW k \in 0 .. b - 1, At(Tower, k) = AFrame("qtFree", p)
        PROVE  \E i \in 0 .. h - 1 : At(Tower', i) = AFrame("qtFree", p)
    <3>1. k \in 0 .. h - 1
      BY <1>0, <1>2
    <3>2. At(Tower', k) = At(Tower, k)
      BY DEF Rebuilt, Grows
    <3>. QED  BY <2>3, <3>1, <3>2
  <2>. QED  BY <2>1, <2>2, <2>3
<1>. QED  BY <1>1, <1>2, NewFrames

LEMMA TargetKept ==
    ASSUME NEW b, NEW fs, Rebuilt(b, fs), Plants(b, fs), TargetOk
    PROVE  TargetOk'
<1>. SUFFICES ASSUME NEW h \in Heights(Tower'), At(Tower', h).op = "qtDestroy"
              PROVE  qt'[At(Tower', h).a].state = "live"
  BY DEF TargetOk, Live
<1>1. CASE h \in 0 .. b - 1 /\ h \in Heights(Tower) /\ At(Tower', h) = At(Tower, h)
  BY <1>1 DEF Plants, ObjectsKept, DeleteOps
<1>2. ASSUME NEW j \in 1..Len(fs), h = b + Len(fs) - j, At(Tower', h) = fs[j]
      PROVE  qt'[fs[j].a].state = "live"
  BY <1>2 DEF Plants, DeleteAt
<1>. QED  BY <1>1, <1>2, NewFrames

LEMMA StillDying ==
    ASSUME NEW b, NEW fs, Rebuilt(b, fs), Plants(b, fs), DyingOk
    PROVE  DyingOk'
<1>. SUFFICES ASSUME NEW a \in Addr, qt'[a].state = "dying"
              PROVE  \E h \in Heights(Tower') : At(Tower', h) = AFrame("qtFree", a)
  BY DEF DyingOk, Dying
<1>0. b \in Nat /\ Len(fs) \in Nat /\ Len(Tower) \in Nat /\ b >= Len(Tower) - 1
      /\ Len(Tower') = b + Len(fs)
  BY DEF Rebuilt, Grows
<1>1. CASE Dying(a) /\ (b < Len(Tower) => At(Tower, b) # AFrame("qtFree", a))
  <2>1. PICK h \in Heights(Tower) : At(Tower, h) = AFrame("qtFree", a)
    BY <1>1 DEF DyingOk
  <2>2. h \in 0 .. b - 1
    BY <1>0, <1>1, <2>1 DEF Heights
  <2>. QED  BY <2>1, <2>2, OldFrames
<1>2. ASSUME NEW j \in 1..Len(fs), fs[j] = AFrame("qtFree", a)
      PROVE  \E h \in Heights(Tower') : At(Tower', h) = AFrame("qtFree", a)
  <2>1. b + Len(fs) - j \in Heights(Tower')
    BY <1>0 DEF Heights
  <2>2. At(Tower', b + Len(fs) - j) = fs[j]
    BY DEF Rebuilt, Grows
  <2>. QED  BY <1>2, <2>1, <2>2
<1>. QED  BY <1>1, <1>2 DEF Plants, ObjectsKept

LEMMA OnceKept ==
    ASSUME NEW b, NEW fs, Rebuilt(b, fs), Plants(b, fs), OnceInv
    PROVE  OnceInv'
<1>1. UserLow' /\ Shelter'
  BY UserLowKept, ShelterKept DEF OnceInv
<1>2. ChainOk' /\ TargetOk'
  BY ChainKept, TargetKept DEF OnceInv
<1>3. DyingOk' /\ TreeOk'
  BY StillDying DEF OnceInv, Plants
<1>. QED  BY <1>1, <1>2, <1>3 DEF OnceInv

-----------------------------------------------------------------------------
\* Steps that leave the objects of Qt as they are.
MereAt(b, fs, j) ==
    /\ fs[j].op \notin LowOps \cup DeleteOps
    /\ fs[j].op \in ShelterOps => NoFree(b) \/ pd'[fs[j].w].obj = None
PlantAt(b, fs, j) == LowAt(b, fs, j) /\ ShelterAt(b, fs, j) /\ DeleteAt(b, fs, j)

LEMMA MerePlant ==
    ASSUME NEW b, NEW fs, \A j \in 1..Len(fs) : MereAt(b, fs, j)
    PROVE  \A j \in 1..Len(fs) : PlantAt(b, fs, j)
BY DEF MereAt, PlantAt, LowAt, ShelterAt, DeleteAt, DeleteOps

LEMMA PlainPlants ==
    ASSUME TypeOK, OnceInv, NEW b, NEW fs, Rebuilt(b, fs),
           \A x \in Addr : qt'[x].state = qt[x].state /\ qt'[x].parent = qt[x].parent,
           NoFree(b) \/ \A w \in Wrap : pd'[w].obj \in {pd[w].obj, None},
           b < Len(Tower) => At(Tower, b).op # "qtFree",
           \A j \in 1..Len(fs) : PlantAt(b, fs, j)
    PROVE  OnceInv'
<1>1. \A h \in 0 .. b - 1 : At(Tower, h).op \in DeleteOps =>
          /\ qt'[At(Tower, h).a].parent = qt[At(Tower, h).a].parent
          /\ At(Tower, h).op = "qtDestroy" => qt'[At(Tower, h).a].state = "live"
  <2>. SUFFICES ASSUME NEW h \in 0 .. b - 1, At(Tower, h).op \in DeleteOps
                PROVE  /\ qt'[At(Tower, h).a].parent = qt[At(Tower, h).a].parent
                       /\ At(Tower, h).op = "qtDestroy" => qt'[At(Tower, h).a].state = "live"
    OBVIOUS
  <2>1. h \in Heights(Tower) /\ Tower \in Seq(Frame)
    BY OldFrames DEF Rebuilt
  <2>2. At(Tower, h).a \in Addr
    BY <2>1, FrameAt DEF DeleteOps, AOps
  <2>3. At(Tower, h).op = "qtDestroy" => qt[At(Tower, h).a].state = "live"
    BY <2>1 DEF OnceInv, TargetOk, Live
  <2>. QED  BY <2>2, <2>3
<1>2. \A a \in Addr : qt'[a].state = "dying" =>
          Dying(a) /\ (b < Len(Tower) => At(Tower, b) # AFrame("qtFree", a))
  BY DEF Dying, AFrame
<1>3. ObjectsKept(b, fs)
  BY <1>1, <1>2 DEF ObjectsKept
<1>4. TreeOk'
  <2>1. \A a \in Addr : qt[a].parent # None => qt[a].parent \in Addr
    BY DEF TypeOK, QtRecord
  <2>. QED  BY <2>1 DEF OnceInv, TreeOk
<1>. QED  BY <1>3, <1>4, OnceKept DEF Plants, PlantAt

LEMMA CallsOnce ==
    ASSUME TypeOK, TypeOK', OnceInv, Tower # <<>>, Top(GuiThread).op # "qtFree", UNCHANGED qt,
           \A w \in Wrap : pd'[w].obj \in {pd[w].obj, None},
           NEW fs \in Seq(Frame), Calls(GuiThread, fs),
           NEW n, n = Len(Tower) - 1, \A j \in 1..Len(fs) : PlantAt(n, fs, j)
    PROVE  OnceInv'
<1>1. Rebuilt(n, fs) /\ At(Tower, n).op # "qtFree"
  BY CallsRebuild, TowerTop
<1>. QED  BY <1>1, PlainPlants

LEMMA ReturnOnce ==
    ASSUME TypeOK, TypeOK', OnceInv, Tower # <<>>, Top(GuiThread).op # "qtFree", UNCHANGED qt,
           \A w \in Wrap : pd'[w].obj \in {pd[w].obj, None}, Return(GuiThread)
    PROVE  OnceInv'
<1>1. <<>> \in Seq(Frame) /\ Calls(GuiThread, <<>>) /\ \A j \in 1..Len(<<>>) : FALSE
  BY DEF Return
<1>2. \A j \in 1..Len(<<>>) : PlantAt(Len(Tower) - 1, <<>>, j)
  BY <1>1
<1>. QED  BY <1>1, <1>2, CallsOnce

LEMMA IdleOnce ==
    ASSUME OnceInv, UNCHANGED <<qt, pd, stack>>
    PROVE  OnceInv'
BY DEF OnceInv, UserLow, NoneBelow, Shelter, NoFree, ChainOk, Chained, TargetOk, Live,
       DyingOk, Dying, TreeOk, Tower

\* when the program acts no destructor of Qt is at work
LEMMA UserBelow ==
    ASSUME MutedProgram, TypeOK, OnceInv, UserCode(GuiThread)
    PROVE  /\ NoneBelow(Len(Tower)) /\ NoFree(Len(Tower)) /\ Len(Tower) \in Nat
           /\ \A h \in Heights(Tower) : At(Tower, h).op \notin DeleteOps
           /\ \A a \in Addr : ~Dying(a)
<1>0. Tower \in Seq(Frame) /\ Len(Tower) \in Nat
  BY ThreadAssumption DEF TypeOK, Tower
<1>1. ASSUME NEW k \in 0 .. Len(Tower) - 1 PROVE At(Tower, k).op = "ctorBody"
  <2>1. Tower # <<>>
    BY <1>1
  <2>2. /\ Top(GuiThread) = At(Tower, Len(Tower) - 1) /\ Len(Tower) - 1 \in Heights(Tower)
        /\ Top(GuiThread).op = "ctorBody"
    BY <2>1, TowerTop DEF UserCode, Running, Tower, UserFrames, MutedProgram
  <2>3. NoneBelow(Len(Tower) - 1)
    BY <2>2 DEF OnceInv, UserLow, LowOps
  <2>4. k = Len(Tower) - 1 \/ k \in 0 .. Len(Tower) - 1 - 1
    BY <1>0
  <2>. QED  BY <2>2, <2>3, <2>4 DEF NoneBelow
<1>2. NoneBelow(Len(Tower)) /\ NoFree(Len(Tower))
  BY <1>1 DEF NoneBelow, NoFree
<1>3. \A h \in Heights(Tower) : At(Tower, h).op = "ctorBody"
  BY <1>1 DEF Heights
<1>4. \A h \in Heights(Tower), a \in Addr : At(Tower, h) # AFrame("qtFree", a)
  BY <1>3 DEF AFrame
<1>. QED  BY <1>0, <1>2, <1>3, <1>4 DEF DeleteOps, OnceInv, DyingOk

LEMMA EnterOnce ==
    ASSUME MutedProgram, TypeOK, TypeOK', OnceInv, UserCode(GuiThread), UNCHANGED qt,
           NEW fs \in Seq(Frame), Enter(GuiThread, fs),
           \A j \in 1..Len(fs) : PlantAt(Len(Tower), fs, j)
    PROVE  OnceInv'
<1>1. NoFree(Len(Tower)) /\ Len(Tower) \in Nat
  BY UserBelow
<1>2. Rebuilt(Len(Tower), fs)
  BY EnterRebuilds
<1>3. ~(Len(Tower) < Len(Tower))
  BY <1>1
<1>. QED  BY <1>1, <1>2, <1>3, PlainPlants

-----------------------------------------------------------------------------
LEMMA ReturnsOnce ==
    ASSUME Ground, TypeOK', OnceInv,
           \/ ConstructorReturns(GuiThread) \/ UserDtorEnd(GuiThread) \/ OutOfMemory(GuiThread)
    PROVE  OnceInv'
<1>1. Tower # <<>> /\ Return(GuiThread) /\ Top(GuiThread).op # "qtFree" /\ UNCHANGED <<qt, pd>>
  BY DEF ConstructorReturns, UserDtorEnd, OutOfMemory, AtTop, Running, Tower
<1>. QED  BY <1>1, ReturnOnce DEF Ground

\* One call in the place of another that is about the same wrapper.
LEMMA SameWrapperOnce ==
    ASSUME TypeOK, TypeOK', OnceInv, Tower # <<>>, Top(GuiThread).op \in ShelterOps, UNCHANGED qt,
           \A v \in Wrap : pd'[v].obj \in {pd[v].obj, None},
           NEW fs \in Seq(Frame), Calls(GuiThread, fs),
           Top(GuiThread).w \in Wrap,
           \A j \in 1..Len(fs) :
               /\ fs[j].op \in ShelterOps \cup {"pdDeref", "deleteAll"}
               /\ fs[j].op \in ShelterOps => fs[j].w = Top(GuiThread).w
    PROVE  OnceInv'
<1>1. PICK n : n = Len(Tower) - 1
  OBVIOUS
<1>2. NoFree(n) \/ pd[Top(GuiThread).w].obj = None
  BY <1>1, TowerTop DEF OnceInv, Shelter
<1>3. Top(GuiThread).op # "qtFree"
  BY DEF ShelterOps
<1>4. \A j \in 1..Len(fs) : MereAt(n, fs, j)
  BY <1>2 DEF MereAt, ShelterOps, LowOps, MissOps, DeleteOps
<1>. QED  BY <1>1, <1>3, <1>4, MerePlant, CallsOnce

\* One call in the place of another.
LEMMA OneCallOnce ==
    ASSUME TypeOK, TypeOK', OnceInv, Tower # <<>>, Top(GuiThread).op # "qtFree", UNCHANGED qt,
           \A v \in Wrap : pd'[v].obj \in {pd[v].obj, None},
           NEW f \in Frame, Calls(GuiThread, <<f>>), f.op \notin LowOps \cup DeleteOps,
           f.op \in ShelterOps => /\ f.w \in Wrap
                                  /\ \/ Top(GuiThread).op \in ShelterOps /\ f.w = Top(GuiThread).w
                                     \/ pd'[f.w].obj = None
    PROVE  OnceInv'
<1>1. PICK n : n = Len(Tower) - 1
  OBVIOUS
<1>2. Top(GuiThread).op \in ShelterOps => NoFree(n) \/ pd[Top(GuiThread).w].obj = None
  BY <1>1, TowerTop DEF OnceInv, Shelter
<1>3. PICK fs : fs = <<f>>
  OBVIOUS
<1>4. fs \in Seq(Frame) /\ fs[1] = f /\ \A j \in 1..Len(fs) : j = 1
  BY <1>3
<1>5. f.op \in ShelterOps => NoFree(n) \/ pd'[f.w].obj = None
  BY <1>2
<1>6. \A j \in 1..Len(fs) : MereAt(n, fs, j)
  BY <1>4, <1>5 DEF MereAt
<1>7. Calls(GuiThread, fs)
  BY <1>3
<1>. QED  BY <1>1, <1>4, <1>6, <1>7, MerePlant, CallsOnce

LEMMA DerefOnce ==
    ASSUME Ground, TypeOK', OnceInv, Deref(GuiThread)
    PROVE  OnceInv'
<1>0. TypeOK /\ pd \in [Wrap -> PdRecord]
  BY DEF Ground, TypeOK
<1>1. PICK w \in Wrap : w = Top(GuiThread).w /\ Tower # <<>> /\ Top(GuiThread).op = "deref"
  BY <1>0, ThreadAssumption, TopArguments DEF Deref, AtTop, Running, WOps, Tower
<1>2. CASE Abort("wrapper_gone")
  BY <1>2, IdleOnce DEF Abort
<1>3. CASE ~Abort("wrapper_gone")
  <2>1. /\ UNCHANGED qt /\ \A v \in Wrap : pd'[v].obj = pd[v].obj
        /\ Return(GuiThread) \/ Calls(GuiThread, DestructorFrames(w))
    BY <1>0, <1>1, <1>3 DEF Deref, PdRecord
  <2>2. CASE Return(GuiThread)
    BY <1>0, <1>1, <2>1, <2>2, ReturnOnce
  <2>3. CASE Calls(GuiThread, DestructorFrames(w))
    <3>1. /\ DestructorFrames(w) \in Seq(Frame)
          /\ \A j \in 1..Len(DestructorFrames(w)) :
                /\ DestructorFrames(w)[j].op \in ShelterOps \cup {"pdDeref"}
                /\ DestructorFrames(w)[j].w = w
      BY DestructorFramesType DEF DestructorFrames, WFrame, ShelterOps
    <3>. QED  BY <1>0, <1>1, <2>1, <2>3, <3>1, SameWrapperOnce DEF ShelterOps
  <2>. QED  BY <2>1, <2>2, <2>3
<1>. QED  BY <1>2, <1>3

\* short lists of calls
LEMMA OneFrame ==
    ASSUME NEW f \in Frame, NEW fs, fs = <<f>>
    PROVE  fs \in Seq(Frame) /\ Len(fs) = 1 /\ fs[1] = f /\ \A j \in 1..Len(fs) : j = 1
OBVIOUS

LEMMA TwoFrames ==
    ASSUME NEW f \in Frame, NEW g \in Frame, NEW fs, fs = <<f, g>>
    PROVE  /\ fs \in Seq(Frame) /\ Len(fs) = 2 /\ fs[1] = f /\ fs[2] = g
           /\ \A j \in 1..Len(fs) : j = 1 \/ j = 2
OBVIOUS

LEMMA ThreeFrames ==
    ASSUME NEW f \in Frame, NEW g \in Frame, NEW h \in Frame, NEW fs, fs = <<f, g, h>>
    PROVE  /\ fs \in Seq(Frame) /\ Len(fs) = 3 /\ fs[1] = f /\ fs[2] = g /\ fs[3] = h
           /\ \A j \in 1..Len(fs) : j = 1 \/ j = 2 \/ j = 3
OBVIOUS

LEMMA OneSheltered ==
    ASSUME NEW w \in Wrap, NEW op \in {"deref", "objRefDrop", "pdDeref"}, NEW fs,
           fs = <<WFrame(op, w)>>
    PROVE  fs \in Seq(Frame) /\ \A j \in 1..Len(fs) : fs[j].op = op /\ fs[j].w = w
<1>1. WFrame(op, w) \in Frame /\ WFrame(op, w).op = op /\ WFrame(op, w).w = w
  BY WFrameType DEF WOps, WFrame
<1>. QED  BY <1>1

LEMMA EndDeleteOnce ==
    ASSUME Ground, TypeOK', OnceInv, EndDelete(GuiThread)
    PROVE  OnceInv'
<1>0. TypeOK
  BY DEF Ground
<1>1. PICK w \in Wrap : w = Top(GuiThread).w /\ Tower # <<>> /\ Top(GuiThread).op = "endDelete"
  BY <1>0, ThreadAssumption, TopArguments DEF EndDelete, AtTop, Running, WOps, Tower
<1>2. PICK fs : fs = <<WFrame("deref", w)>>
  OBVIOUS
<1>3. Calls(GuiThread, fs) /\ UNCHANGED <<qt, pd>>
  BY <1>1, <1>2 DEF EndDelete
<1>4. fs \in Seq(Frame) /\ \A j \in 1..Len(fs) : fs[j].op = "deref" /\ fs[j].w = w
  BY <1>2, OneSheltered
<1>. QED  BY <1>0, <1>1, <1>3, <1>4, SameWrapperOnce DEF ShelterOps

LEMMA PdDerefOnce ==
    ASSUME Ground, TypeOK', OnceInv, PdDeref(GuiThread)
    PROVE  OnceInv'
<1>0. TypeOK /\ pd \in [Wrap -> PdRecord]
  BY DEF Ground, TypeOK
<1>1. PICK w \in Wrap : w = Top(GuiThread).w /\ Tower # <<>> /\ Top(GuiThread).op = "pdDeref"
                        /\ Top(GuiThread) = WFrame("pdDeref", w)
  <2>1. Top(GuiThread).op = "pdDeref" /\ Tower # <<>>
    BY DEF PdDeref, AtTop, Running, Tower
  <2>2. Top(GuiThread).w \in Wrap
    BY <1>0, <2>1, ThreadAssumption, TopArguments DEF WOps, Tower
  <2>3. Top(GuiThread) = WFrame("pdDeref", Top(GuiThread).w)
    BY <1>0, <2>1, TowerTop, FrameAt DEF WOps
  <2>. QED  BY <2>1, <2>2, <2>3
<1>2. CASE \E f \in {"obj_ref", "map_del"} : Abort(f)
  BY <1>2, IdleOnce DEF Abort
<1>3. CASE pd[w].refs > 1
  <2>1. Return(GuiThread) /\ UNCHANGED qt /\ pd' = [pd EXCEPT ![w].refs = @ - 1]
    BY <1>1, <1>3 DEF PdDeref
  <2>. QED  BY <1>0, <1>1, <2>1, ReturnOnce DEF PdRecord
<1>4. CASE ~(pd[w].refs > 1) /\ ~\E f \in {"obj_ref", "map_del"} : Abort(f)
  <2>1. pd[w].obj = None
    BY <1>1, <1>4, LastUse
  <2>2. pd' = [pd EXCEPT ![w] = NoPd] /\ Calls(GuiThread, <<>>) /\ UNCHANGED qt
    BY <1>1, <1>4, <2>1 DEF PdDeref
  <2>3. \A v \in Wrap : pd'[v].obj \in {pd[v].obj, None}
    BY <1>0, <2>2 DEF NoPd
  <2>. QED  BY <1>0, <1>1, <2>2, <2>3, ReturnOnce DEF Return
<1>. QED  BY <1>2, <1>3, <1>4

LEMMA ObjRefDropOnce ==
    ASSUME Ground, TypeOK', OnceInv, ObjRefDrop(GuiThread)
    PROVE  OnceInv'
<1>0. TypeOK /\ pd \in [Wrap -> PdRecord]
  BY DEF Ground, TypeOK
<1>1. PICK w \in Wrap : w = Top(GuiThread).w /\ Tower # <<>> /\ Top(GuiThread).op = "objRefDrop"
  BY <1>0, ThreadAssumption, TopArguments DEF ObjRefDrop, AtTop, Running, WOps, Tower
<1>2. PICK fs : fs = <<WFrame("deref", w)>>
  OBVIOUS
<1>3. /\ pd' = [pd EXCEPT ![w].obj_ref = FALSE] /\ UNCHANGED qt
      /\ Return(GuiThread) \/ Calls(GuiThread, fs)
  BY <1>1, <1>2 DEF ObjRefDrop, Return
<1>4. \A v \in Wrap : pd'[v].obj = pd[v].obj
  BY <1>0, <1>3 DEF PdRecord
<1>5. fs \in Seq(Frame) /\ \A j \in 1..Len(fs) : fs[j].op = "deref" /\ fs[j].w = w
  BY <1>2, OneSheltered
<1>6. CASE Return(GuiThread)
  BY <1>0, <1>1, <1>3, <1>4, <1>6, ReturnOnce
<1>7. CASE Calls(GuiThread, fs)
  BY <1>0, <1>1, <1>3, <1>4, <1>5, <1>7, SameWrapperOnce DEF ShelterOps
<1>. QED  BY <1>3, <1>6, <1>7

LEMMA MethodCallOnce ==
    ASSUME Ground, TypeOK', OnceInv, MethodCall(GuiThread) \/ MapHit(GuiThread)
    PROVE  OnceInv'
<1>1. /\ Tower # <<>> /\ Top(GuiThread).op # "qtFree"
      /\ UNCHANGED <<qt, pd, stack>> \/ (Return(GuiThread) /\ UNCHANGED <<qt, pd>>)
  BY DEF MethodCall, MapHit, AtTop, Running, Tower, Abort
<1>. QED  BY <1>1, IdleOnce, ReturnOnce DEF Ground

LEMMA CommonDestructorOnce ==
    ASSUME Ground, TypeOK', OnceInv, CommonDestructor(GuiThread)
    PROVE  OnceInv'
<1>0. TypeOK /\ pd \in [Wrap -> PdRecord]
  BY DEF Ground, TypeOK
<1>1. PICK w \in Wrap : w = Top(GuiThread).w /\ Tower # <<>> /\ Top(GuiThread).op = "commonDtor"
  BY <1>0, ThreadAssumption, TopArguments DEF CommonDestructor, AtTop, Running, WOps, Tower
<1>. DEFINE a == pd[w].obj
            drop == WFrame("pdDeref", w)
            rest == RestFrame("dtorRest", a, w)
            loop == LoopFrame(qwm.set)
<1>2. \/ UNCHANGED <<qt, pd, stack>>
      \/ Return(GuiThread) /\ UNCHANGED <<qt, pd>>
      \/ /\ pd' = [pd EXCEPT ![w].attached = FALSE] /\ UNCHANGED qt
         /\ \/ Calls(GuiThread, <<drop>>)
            \/ a # None /\ Calls(GuiThread, <<loop, rest, drop>>)
            \/ a # None /\ Calls(GuiThread, <<rest, drop>>)
  BY <1>1 DEF CommonDestructor, Abort
<1>3. CASE UNCHANGED <<qt, pd, stack>>
  BY <1>3, IdleOnce
<1>4. CASE Return(GuiThread) /\ UNCHANGED <<qt, pd>>
  BY <1>0, <1>1, <1>4, ReturnOnce
<1>5. CASE /\ pd' = [pd EXCEPT ![w].attached = FALSE] /\ UNCHANGED qt
           /\ \/ Calls(GuiThread, <<drop>>)
              \/ a # None /\ Calls(GuiThread, <<loop, rest, drop>>)
              \/ a # None /\ Calls(GuiThread, <<rest, drop>>)
  <2>1. drop \in Frame /\ drop.op = "pdDeref"
    BY WFrameType DEF WOps, WFrame
  <2>2. a # None => rest \in Frame /\ rest.op = "dtorRest" /\ rest.w = w
    BY <1>0, PdFields, RestFrameType DEF RestFrame
  <2>3. loop \in Frame /\ loop.op = "deleteAll"
    BY <1>0 DEF LoopFrame, Frame, TypeOK
  <2>4. \A v \in Wrap : pd'[v].obj = pd[v].obj
    BY <1>0, <1>5 DEF PdRecord
  <2>. HIDE DEF drop, rest, loop
  <2>5. PICK fs \in Seq(Frame) :
          /\ Calls(GuiThread, fs)
          /\ \A j \in 1..Len(fs) : /\ fs[j].op \in ShelterOps \cup {"pdDeref", "deleteAll"}
                                   /\ fs[j].op \in ShelterOps => fs[j].w = w
    <3>. SUFFICES ASSUME NEW fs, Calls(GuiThread, fs),
                         \/ fs = <<drop>>
                         \/ a # None /\ fs = <<loop, rest, drop>>
                         \/ a # None /\ fs = <<rest, drop>>
                  PROVE  /\ fs \in Seq(Frame)
                         /\ \A j \in 1..Len(fs) : /\ fs[j].op \in ShelterOps \cup {"pdDeref", "deleteAll"}
                                                  /\ fs[j].op \in ShelterOps => fs[j].w = w
      BY <1>5
    <3>1. CASE fs = <<drop>>
      <4>1. fs \in Seq(Frame) /\ fs[1] = drop /\ \A j \in 1..Len(fs) : j = 1
        BY <2>1, <3>1, OneFrame
      <4>. QED  BY <2>1, <4>1 DEF ShelterOps
    <3>2. CASE a # None /\ fs = <<loop, rest, drop>>
      <4>1. /\ fs \in Seq(Frame) /\ fs[1] = loop /\ fs[2] = rest /\ fs[3] = drop
            /\ \A j \in 1..Len(fs) : j = 1 \/ j = 2 \/ j = 3
        BY <2>1, <2>2, <2>3, <3>2, ThreeFrames
      <4>. QED  BY <2>1, <2>2, <2>3, <3>2, <4>1 DEF ShelterOps
    <3>3. CASE a # None /\ fs = <<rest, drop>>
      <4>1. /\ fs \in Seq(Frame) /\ fs[1] = rest /\ fs[2] = drop
            /\ \A j \in 1..Len(fs) : j = 1 \/ j = 2
        BY <2>1, <2>2, <3>3, TwoFrames
      <4>. QED  BY <2>1, <2>2, <3>3, <4>1 DEF ShelterOps
    <3>. QED  BY <3>1, <3>2, <3>3
  <2>. QED  BY <1>0, <1>1, <1>5, <2>4, <2>5, SameWrapperOnce DEF ShelterOps
<1>. QED  BY <1>2, <1>3, <1>4, <1>5

\* the rest of common_destructor never runs in a destructor of Qt
LEMMA RestFree ==
    ASSUME Ground, OnceInv, NEW h \in Heights(Tower), At(Tower, h).op \in RestOps
    PROVE  NoFree(h) /\ NoFree(h + 1)
<1>1. pd[At(Tower, h).w].obj # None /\ h \in Int
  BY RestThere DEF Heights
<1>2. NoFree(h)
  BY <1>1 DEF OnceInv, Shelter, ShelterOps
<1>. QED  BY <1>1, <1>2 DEF NoFree

LEMMA ResetsObject ==
    ASSUME TypeOK, NEW w \in Wrap, Reset(w)
    PROVE  pd'[w].obj = None /\ \A v \in Wrap : pd'[v].obj \in {pd[v].obj, None}
BY DEF Reset, TypeOK, PdRecord

LEMMA MapDelOnce ==
    ASSUME Ground, TypeOK', OnceInv, MapDel(GuiThread)
    PROVE  OnceInv'
<1>0. TypeOK
  BY DEF Ground
<1>1. PICK f : f = Top(GuiThread)
  OBVIOUS
<1>2. /\ Tower # <<>> /\ f.op \in DelOps /\ f.w \in Wrap
      /\ \/ \E g : Abort(g)
         \/ \E g \in Frame : /\ g = [f EXCEPT !.op = EndOf(f.op)] /\ g.w = f.w
                             /\ Calls(GuiThread, <<g>>)
  BY <1>0, <1>1, MapDelStep, ThreadAssumption DEF Tower
<1>3. UNCHANGED <<qt, pd>>
  BY DEF MapDel, Abort
<1>4. CASE \E g : Abort(g)
  BY <1>3, <1>4, IdleOnce DEF Abort
<1>5. CASE ~\E g : Abort(g)
  <2>1. PICK g \in Frame : /\ g = [f EXCEPT !.op = EndOf(f.op)] /\ g.w = f.w
                           /\ Calls(GuiThread, <<g>>)
    BY <1>2, <1>5
  <2>2. g.op = EndOf(f.op)
    <3>1. f \in Frame
      BY <1>0, <1>1, <1>2, TowerTop, FrameAt
    <3>. QED  BY <2>1, <3>1 DEF Frame
  <2>3. /\ g.op \notin LowOps \cup DeleteOps /\ f.op # "qtFree"
        /\ g.op \in ShelterOps => f.op \in ShelterOps
    BY <1>2, <2>2 DEF EndOf, DelOps, LowOps, MissOps, DeleteOps, ShelterOps
  <2>. QED  BY <1>0, <1>1, <1>2, <1>3, <2>1, <2>3, OneCallOnce
<1>. QED  BY <1>4, <1>5

\* what is deleted on behalf of no other destructor
LEMMA DestroyPlant ==
    ASSUME NEW b, NEW fs, NEW j \in 1..Len(fs), fs[j].op = "qtDestroy", NoFree(b),
           qt'[fs[j].a].state = "live", \A i \in 1..Len(fs) : fs[i].op # "qtFree", Len(fs) \in Nat
    PROVE  PlantAt(b, fs, j)
<1>1. \A i \in j + 1 .. Len(fs) : i \in 1..Len(fs)
  OBVIOUS
<1>. QED  BY <1>1 DEF PlantAt, LowAt, ShelterAt, DeleteAt, LowOps, MissOps, ShelterOps, DeleteOps

LEMMA DtorRestOnce ==
    ASSUME Ground, TypeOK', OnceInv, DtorRest(GuiThread)
    PROVE  OnceInv'
<1>0. TypeOK
  BY DEF Ground
<1>1. Tower # <<>> /\ Top(GuiThread).op = "dtorRest"
  BY DEF DtorRest, AtTop, Running, Tower
<1>2. PICK w \in Wrap, a \in Addr : w = Top(GuiThread).w /\ a = Top(GuiThread).a
  BY <1>0, <1>1, TowerTop, RestThere
<1>3. /\ UNCHANGED <<qt, pd>>
      /\ \/ UNCHANGED stack
         \/ \E way \in RestDelOps : Calls(GuiThread, <<RestFrame(way, a, w)>>)
  BY <1>2 DEF DtorRest, Abort
<1>4. ASSUME NEW way \in RestDelOps, Calls(GuiThread, <<RestFrame(way, a, w)>>)
      PROVE  OnceInv'
  <2>1. /\ RestFrame(way, a, w) \in Frame /\ RestFrame(way, a, w).op = way
        /\ RestFrame(way, a, w).w = w
    BY RestFrameType DEF RestFrame
  <2>2. way \notin LowOps \cup DeleteOps /\ Top(GuiThread).op \in ShelterOps
    BY <1>1 DEF LowOps, MissOps, DeleteOps, ShelterOps
  <2>. QED  BY <1>0, <1>1, <1>2, <1>3, <1>4, <2>1, <2>2, OneCallOnce
<1>. QED  BY <1>3, <1>4, IdleOnce

LEMMA DtorRestEndOnce ==
    ASSUME Ground, TypeOK', OnceInv, DtorRestEnd(GuiThread)
    PROVE  OnceInv'
<1>0. TypeOK
  BY DEF Ground
<1>. DEFINE n == Len(Tower) - 1
<1>1. /\ Tower # <<>> /\ Top(GuiThread).op \in RestEndOps /\ Top(GuiThread).op # "qtFree"
      /\ n \in Heights(Tower) /\ Top(GuiThread) = At(Tower, n)
  BY <1>0, TowerTop DEF DtorRestEnd, Running, Tower
<1>. HIDE DEF n
<1>2. PICK w \in Wrap, a \in Addr : w = Top(GuiThread).w /\ a = Top(GuiThread).a /\ Live(a)
  BY <1>1, RestThere
<1>3. NoFree(n)
  BY <1>1, RestFree
<1>. DEFINE drop == WFrame("objRefDrop", w)
            del == AFrame("qtDestroy", a)
<1>4. /\ Reset(w) /\ UNCHANGED qt
      /\ \/ Return(GuiThread)
         \/ Calls(GuiThread, <<drop>>)
         \/ Calls(GuiThread, <<drop, del>>)
  BY <1>1, <1>2 DEF DtorRestEnd, Return
<1>5. /\ drop \in Frame /\ drop.op = "objRefDrop" /\ drop.w = w
      /\ del \in Frame /\ del.op = "qtDestroy" /\ del.a = a
  BY WFrameType, AFrameType DEF WOps, AOps, WFrame, AFrame
<1>. HIDE DEF drop, del
<1>6. pd'[w].obj = None /\ \A v \in Wrap : pd'[v].obj \in {pd[v].obj, None}
  BY <1>0, <1>4, ResetsObject
<1>7. CASE Return(GuiThread)
  BY <1>0, <1>1, <1>4, <1>6, <1>7, ReturnOnce
<1>8. CASE Calls(GuiThread, <<drop>>)
  <2>1. drop.op \notin LowOps \cup DeleteOps
    BY <1>5 DEF LowOps, MissOps, DeleteOps
  <2>. QED  BY <1>0, <1>1, <1>4, <1>5, <1>6, <1>8, <2>1, OneCallOnce
<1>9. CASE Calls(GuiThread, <<drop, del>>)
  <2>1. PICK fs \in Seq(Frame) : /\ fs = <<drop, del>> /\ Calls(GuiThread, fs)
                                /\ fs[1] = drop /\ fs[2] = del /\ Len(fs) = 2
                                /\ \A i \in 1..Len(fs) : i = 1 \/ i = 2
    BY <1>5, <1>9, TwoFrames
  <2>2. \A i \in 1..Len(fs) : fs[i].op # "qtFree"
    BY <1>5, <2>1
  <2>3. PlantAt(n, fs, 1)
    BY <1>3, <1>5, <2>1, <2>2 DEF PlantAt, LowAt, ShelterAt, DeleteAt, LowOps, MissOps, DeleteOps
  <2>4. PlantAt(n, fs, 2)
    <3>1. qt'[fs[2].a].state = "live"
      BY <1>2, <1>4, <1>5, <2>1 DEF Live
    <3>. QED  BY <1>3, <1>5, <2>1, <2>2, <3>1, DestroyPlant
  <2>. QED  BY <1>0, <1>1, <1>4, <1>6, <2>1, <2>2, <2>3, <2>4, CallsOnce DEF n
<1>. QED  BY <1>4, <1>7, <1>8, <1>9

LEMMA DeleteAllOnce ==
    ASSUME Ground, TypeOK', OnceInv, DeleteAll(GuiThread)
    PROVE  OnceInv'
<1>0. TypeOK /\ qt \in [Addr -> QtRecord]
  BY DEF Ground, TypeOK
<1>1. PICK n : n = Len(Tower) - 1
  OBVIOUS
<1>2. /\ Tower # <<>> /\ Top(GuiThread).op = "deleteAll" /\ Top(GuiThread) = At(Tower, n)
      /\ n \in Heights(Tower) /\ n \in Nat /\ Heights(Tower) = 0 .. n /\ Tower \in Seq(Frame)
  BY <1>0, <1>1, TowerTop DEF DeleteAll, AtTop, Running, Tower, Heights
<1>3. NoFree(n)
  <2>1. n - 1 \in Heights(Tower) /\ At(Tower, n - 1).op = "dtorRest"
    BY <1>2 DEF Ground, StackInv, Fitted, FitAt
  <2>2. n - 1 + 1 = n
    BY <1>2
  <2>. QED  BY <2>1, <2>2, RestFree
<1>4. Top(GuiThread).s \in SUBSET Addr
  BY <1>2, FrameAt
<1>5. CASE UNCHANGED <<qt, pd, stack>>
  BY <1>5, IdleOnce
<1>6. CASE Return(GuiThread) /\ UNCHANGED <<qt, pd>>
  BY <1>0, <1>2, <1>6, ReturnOnce
<1>7. ASSUME NEW a \in Top(GuiThread).s, qt[a].state # "free", UNCHANGED <<qt, pd>>,
             NEW more, more = LoopFrame(Top(GuiThread).s \ {a}),
             NEW fs, Calls(GuiThread, fs),
             fs = <<more>> \/ fs = <<AFrame("qtDestroy", a), more>>
      PROVE  OnceInv'
  <2>1. more \in Frame /\ more.op = "deleteAll"
    BY <1>4, <1>7 DEF LoopFrame, Frame
  <2>2. a \in Addr /\ AFrame("qtDestroy", a) \in Frame
    BY <1>4, AFrameType DEF AOps
  <2>3. qt[a].state = "live"
    <3>1. ASSUME Dying(a) PROVE FALSE
      <4>1. PICK h \in Heights(Tower) : At(Tower, h) = AFrame("qtFree", a)
        BY <2>2, <3>1 DEF OnceInv, DyingOk
      <4>2. At(Tower, h).op = "qtFree"
        BY <4>1 DEF AFrame
      <4>3. h = n \/ h \in 0 .. n - 1
        BY <1>2
      <4>. QED  BY <1>2, <1>3, <4>2, <4>3 DEF NoFree
    <3>. QED  BY <1>0, <1>7, <2>2, <3>1 DEF Dying, QtRecord
  <2>4. \A v \in Wrap : pd'[v].obj \in {pd[v].obj, None}
    BY <1>7
  <2>5. CASE fs = <<more>>
    <3>1. fs \in Seq(Frame) /\ fs[1] = more /\ \A j \in 1..Len(fs) : j = 1
      BY <2>1, <2>5, OneFrame
    <3>2. \A j \in 1..Len(fs) : MereAt(n, fs, j)
      BY <2>1, <3>1 DEF MereAt, LowOps, MissOps, DeleteOps, ShelterOps
    <3>3. \A j \in 1..Len(fs) : PlantAt(n, fs, j)
      BY <3>2, MerePlant
    <3>. QED  BY <1>0, <1>1, <1>2, <1>7, <2>4, <3>1, <3>3, CallsOnce
  <2>6. CASE fs = <<AFrame("qtDestroy", a), more>>
    <3>1. /\ fs \in Seq(Frame) /\ fs[1] = AFrame("qtDestroy", a) /\ fs[2] = more /\ Len(fs) = 2
          /\ \A j \in 1..Len(fs) : j = 1 \/ j = 2
      BY <2>1, <2>2, <2>6, TwoFrames
    <3>2. fs[1].op = "qtDestroy" /\ fs[1].a = a /\ 1 \in 1..Len(fs) /\ Len(fs) \in Nat
      BY <3>1 DEF AFrame
    <3>3. \A i \in 1..Len(fs) : fs[i].op # "qtFree"
      BY <2>1, <3>1, <3>2
    <3>4. PlantAt(n, fs, 1)
      <4>1. qt'[fs[1].a].state = "live"
        BY <1>7, <2>3, <3>2
      <4>. QED  BY <1>3, <3>2, <3>3, <4>1, DestroyPlant
    <3>5. PlantAt(n, fs, 2)
      BY <2>1, <3>1 DEF PlantAt, LowAt, ShelterAt, DeleteAt, LowOps, MissOps, DeleteOps, ShelterOps
    <3>. QED  BY <1>0, <1>1, <1>2, <1>7, <2>4, <3>1, <3>4, <3>5, CallsOnce
  <2>. QED  BY <1>7, <2>5, <2>6
<1>. QED
  <2>1. \/ UNCHANGED <<qt, pd, stack>>
        \/ Return(GuiThread) /\ UNCHANGED <<qt, pd>>
        \/ /\ UNCHANGED <<qt, pd>>
           /\ \E a \in Top(GuiThread).s :
                /\ qt[a].state # "free"
                /\ \/ Calls(GuiThread, <<LoopFrame(Top(GuiThread).s \ {a})>>)
                   \/ Calls(GuiThread, <<AFrame("qtDestroy", a), LoopFrame(Top(GuiThread).s \ {a})>>)
    BY DEF DeleteAll, Abort
  <2>. QED  BY <1>5, <1>6, <1>7, <2>1

LEMMA DeletedCallOnce ==
    ASSUME Ground, TypeOK', OnceInv, Deleted(GuiThread)
    PROVE  OnceInv'
<1>0. TypeOK /\ map \in [Addr -> Wrap \cup {None}]
  BY DEF Ground, TypeOK
<1>1. Tower # <<>> /\ Top(GuiThread).op = "deleted" /\ Top(GuiThread).a \in Addr
  <2>1. Tower # <<>> /\ Top(GuiThread).op = "deleted"
    BY DEF Deleted, AtTop, Running, Tower
  <2>. QED  BY <1>0, <2>1, TowerTop, FrameAt DEF AOps
<1>2. PICK w : w = map[Top(GuiThread).a]
  OBVIOUS
<1>3. /\ UNCHANGED <<qt, pd>>
      /\ Return(GuiThread) \/ (w # None /\ Calls(GuiThread, <<WFrame("hold", w)>>))
  BY <1>2 DEF Deleted, Return
<1>4. CASE Return(GuiThread)
  BY <1>0, <1>1, <1>3, <1>4, ReturnOnce
<1>5. CASE w # None /\ Calls(GuiThread, <<WFrame("hold", w)>>)
  <2>1. w \in Wrap
    BY <1>0, <1>1, <1>2, <1>5
  <2>2. WFrame("hold", w) \in Frame /\ WFrame("hold", w).op = "hold"
    BY <2>1, WFrameType DEF WOps, WFrame
  <2>3. "hold" \notin LowOps \cup DeleteOps \cup ShelterOps
    BY DEF LowOps, MissOps, DeleteOps, ShelterOps
  <2>. QED  BY <1>0, <1>1, <1>3, <1>5, <2>2, <2>3, OneCallOnce
<1>. QED  BY <1>3, <1>4, <1>5

LEMMA HoldOnce ==
    ASSUME Ground, TypeOK', OnceInv, Hold(GuiThread)
    PROVE  OnceInv'
<1>0. TypeOK /\ pd \in [Wrap -> PdRecord]
  BY DEF Ground, TypeOK
<1>1. PICK w \in Wrap : w = Top(GuiThread).w /\ Tower # <<>> /\ Top(GuiThread).op = "hold"
  BY <1>0, ThreadAssumption, TopArguments DEF Hold, AtTop, Running, WOps, Tower
<1>2. \/ UNCHANGED <<qt, pd, stack>>
      \/ Return(GuiThread) /\ UNCHANGED <<qt, pd>>
      \/ /\ UNCHANGED qt /\ pd' = [pd EXCEPT ![w].refs = @ + 1]
         /\ Calls(GuiThread, <<WFrame("externalDelete", w), WFrame("pdDeref", w)>>)
  BY <1>1 DEF Hold, Abort
<1>3. CASE UNCHANGED <<qt, pd, stack>>
  BY <1>3, IdleOnce
<1>4. CASE Return(GuiThread) /\ UNCHANGED <<qt, pd>>
  BY <1>0, <1>1, <1>4, ReturnOnce
<1>5. ASSUME UNCHANGED qt, pd' = [pd EXCEPT ![w].refs = @ + 1],
             NEW fs, fs = <<WFrame("externalDelete", w), WFrame("pdDeref", w)>>,
             Calls(GuiThread, fs)
      PROVE  OnceInv'
  <2>1. \A v \in Wrap : pd'[v].obj \in {pd[v].obj, None}
    BY <1>0, <1>5 DEF PdRecord
  <2>2. /\ WFrame("externalDelete", w) \in Frame /\ WFrame("externalDelete", w).op = "externalDelete"
        /\ WFrame("pdDeref", w) \in Frame /\ WFrame("pdDeref", w).op = "pdDeref"
    BY WFrameType DEF WOps, WFrame
  <2>3. /\ fs \in Seq(Frame) /\ fs[1].op = "externalDelete" /\ fs[2].op = "pdDeref"
        /\ \A j \in 1..Len(fs) : j = 1 \/ j = 2
    BY <1>5, <2>2, TwoFrames
  <2>4. PICK n : n = Len(Tower) - 1
    OBVIOUS
  <2>5. \A j \in 1..Len(fs) : MereAt(n, fs, j)
    BY <2>3 DEF MereAt, LowOps, MissOps, DeleteOps, ShelterOps
  <2>6. \A j \in 1..Len(fs) : PlantAt(n, fs, j)
    BY <2>5, MerePlant
  <2>. QED  BY <1>0, <1>1, <1>5, <2>1, <2>3, <2>4, <2>6, CallsOnce
<1>. QED  BY <1>2, <1>3, <1>4, <1>5

LEMMA ExternalDeleteOnce ==
    ASSUME Ground, TypeOK', OnceInv, ExternalDelete(GuiThread)
    PROVE  OnceInv'
<1>0. TypeOK
  BY DEF Ground
<1>1. PICK w \in Wrap : w = Top(GuiThread).w /\ Tower # <<>> /\ Top(GuiThread).op = "externalDelete"
  BY <1>0, ThreadAssumption, TopArguments DEF ExternalDelete, AtTop, Running, WOps, Tower
<1>2. /\ UNCHANGED <<qt, pd>>
      /\ \/ UNCHANGED stack
         \/ Calls(GuiThread, <<WFrame("externalDel", w)>>)
         \/ pd[w].obj = None /\ Calls(GuiThread, <<WFrame("objRefDrop", w)>>)
  BY <1>1 DEF ExternalDelete, Abort
<1>3. ASSUME NEW op \in {"externalDel", "objRefDrop"}, Calls(GuiThread, <<WFrame(op, w)>>),
             op = "objRefDrop" => pd[w].obj = None
      PROVE  OnceInv'
  <2>1. WFrame(op, w) \in Frame /\ WFrame(op, w).op = op /\ WFrame(op, w).w = w
    BY WFrameType DEF WOps, WFrame
  <2>2. op \notin LowOps \cup DeleteOps /\ (op \in ShelterOps => op = "objRefDrop")
    BY DEF LowOps, MissOps, DeleteOps, ShelterOps
  <2>. QED  BY <1>0, <1>1, <1>2, <1>3, <2>1, <2>2, OneCallOnce
<1>. QED  BY <1>2, <1>3, IdleOnce

LEMMA ExternalDeleteEndOnce ==
    ASSUME Ground, TypeOK', OnceInv, ExternalDeleteEnd(GuiThread)
    PROVE  OnceInv'
<1>0. TypeOK /\ pd \in [Wrap -> PdRecord]
  BY DEF Ground, TypeOK
<1>1. PICK w \in Wrap : w = Top(GuiThread).w /\ Tower # <<>> /\ Top(GuiThread).op = "externalEnd"
  BY <1>0, ThreadAssumption, TopArguments DEF ExternalDeleteEnd, AtTop, Running, WOps, Tower
<1>. DEFINE drop == WFrame("objRefDrop", w)
            dtor == DestructorFrames(w)
<1>2. \/ UNCHANGED <<qt, pd, stack>>
      \/ /\ Reset(w) /\ UNCHANGED qt
         /\ Calls(GuiThread, Append(dtor, drop)) \/ Calls(GuiThread, <<drop>>)
  BY <1>1 DEF ExternalDeleteEnd, Abort
<1>3. CASE UNCHANGED <<qt, pd, stack>>
  BY <1>3, IdleOnce
<1>4. ASSUME Reset(w), UNCHANGED qt, NEW fs, Calls(GuiThread, fs),
             fs = Append(dtor, drop) \/ fs = <<drop>>
      PROVE  OnceInv'
  <2>1. pd'[w].obj = None /\ \A v \in Wrap : pd'[v].obj \in {pd[v].obj, None}
    BY <1>0, <1>4, ResetsObject
  <2>2. /\ dtor \in Seq(Frame)
        /\ \A j \in 1..Len(dtor) : dtor[j].op \in ShelterOps /\ dtor[j].w = w
    BY DestructorFramesType DEF DestructorFrames, WFrame, ShelterOps
  <2>3. drop \in Frame /\ drop.op = "objRefDrop" /\ drop.w = w
    BY WFrameType DEF WOps, WFrame
  <2>. HIDE DEF drop, dtor
  <2>4. fs \in Seq(Frame) /\ \A j \in 1..Len(fs) : fs[j].op \in ShelterOps /\ fs[j].w = w
    <3>1. CASE fs = <<drop>>
      BY <2>3, <3>1, OneFrame DEF ShelterOps
    <3>2. CASE fs = Append(dtor, drop)
      <4>1. /\ fs \in Seq(Frame) /\ Len(dtor) \in Nat /\ Len(fs) = Len(dtor) + 1
            /\ fs[Len(dtor) + 1] = drop /\ \A j \in 1..Len(dtor) : fs[j] = dtor[j]
        BY <2>2, <2>3, <3>2
      <4>2. \A j \in 1..Len(fs) : j \in 1..Len(dtor) \/ j = Len(dtor) + 1
        BY <4>1
      <4>. QED  BY <2>2, <2>3, <4>1, <4>2 DEF ShelterOps
    <3>. QED  BY <1>4, <3>1, <3>2
  <2>5. PICK n : n = Len(Tower) - 1
    OBVIOUS
  <2>6. \A j \in 1..Len(fs) : MereAt(n, fs, j)
    BY <2>1, <2>4 DEF MereAt, LowOps, MissOps, DeleteOps, ShelterOps
  <2>7. \A j \in 1..Len(fs) : PlantAt(n, fs, j)
    BY <2>6, MerePlant
  <2>. QED  BY <1>0, <1>1, <1>4, <2>1, <2>4, <2>5, <2>7, CallsOnce
<1>. QED  BY <1>2, <1>3, <1>4

LEMMA ReturnToQtEndOnce ==
    ASSUME Ground, TypeOK', OnceInv, ReturnToQtEnd(GuiThread)
    PROVE  OnceInv'
<1>0. TypeOK /\ qt \in [Addr -> QtRecord]
  BY DEF Ground, TypeOK
<1>1. /\ Tower # <<>> /\ Top(GuiThread).op = "returnEnd" /\ Return(GuiThread)
  BY DEF ReturnToQtEnd, AtTop, Running, Tower
<1>2. PICK w \in Wrap : w = Top(GuiThread).w
  BY <1>0, <1>1, ThreadAssumption, TopArguments DEF WOps, Tower
<1>3. /\ Reset(w)
      /\ qt' = qt \/ qt' = [qt EXCEPT ![pd[w].obj].taken = TRUE]
  BY <1>2 DEF ReturnToQtEnd
<1>4. \A x \in Addr : qt'[x].state = qt[x].state /\ qt'[x].parent = qt[x].parent
  BY <1>0, <1>3 DEF QtRecord
<1>5. \A v \in Wrap : pd'[v].obj \in {pd[v].obj, None}
  BY <1>0, <1>3, ResetsObject
<1>6. PICK b, fs : b = Len(Tower) - 1 /\ fs = <<>>
  OBVIOUS
<1>7. Rebuilt(b, fs) /\ At(Tower, b).op # "qtFree"
  BY <1>1, <1>6, ReturnRebuilds
<1>8. \A j \in 1..Len(fs) : PlantAt(b, fs, j)
  BY <1>6
<1>. QED  BY <1>0, <1>4, <1>5, <1>7, <1>8, PlainPlants

\* no call of a destructor of Qt waits below a call that is not the return of a reference
LEMMA NoneWaiting ==
    ASSUME Ground, Tower # <<>>, Top(GuiThread).op \in DeleteOps, NEW n, n = Len(Tower) - 1,
           NEW h \in 0 .. n - 1
    PROVE  h \in Heights(Tower) /\ At(Tower, h).op # "qtDestroy"
<1>1. /\ n \in Nat /\ Len(Tower) = n + 1 /\ At(Tower, n) = Top(GuiThread)
  BY TowerTop DEF Ground
<1>2. h \in Heights(Tower) /\ h # Len(Tower) - 1
  BY <1>1 DEF Heights
<1>3. ASSUME At(Tower, h).op = "qtDestroy" PROVE FALSE
  <2>1. h = Len(Tower) - 2 /\ At(Tower, h + 1).op \in DropOps
    BY <1>2, <1>3 DEF Ground, StackInv, DestroyLast
  <2>2. h + 1 = n
    BY <1>1, <2>1
  <2>. QED  BY <1>1, <2>1, <2>2 DEF DropOps, DeleteOps
<1>. QED  BY <1>2, <1>3

LEMMA QtDestroyOnce ==
    ASSUME Ground, TypeOK', OnceInv, QtDestroy(GuiThread)
    PROVE  OnceInv' /\ fault' = fault
<1>0. TypeOK /\ qt \in [Addr -> QtRecord]
  BY DEF Ground, TypeOK
<1>1. PICK n : n = Len(Tower) - 1
  OBVIOUS
<1>2. /\ Tower # <<>> /\ Top(GuiThread).op = "qtDestroy" /\ Top(GuiThread) = At(Tower, n)
      /\ n \in Heights(Tower) /\ n \in Nat /\ Tower \in Seq(Frame)
  BY <1>0, <1>1, TowerTop DEF QtDestroy, AtTop, Running, Tower
<1>3. PICK a \in Addr : a = Top(GuiThread).a
  BY <1>2, FrameAt DEF AOps
<1>4. Live(a)
  BY <1>2, <1>3 DEF OnceInv, TargetOk
<1>. DEFINE gone == AFrame("deleted", a)
            free == AFrame("qtFree", a)
<1>5. /\ qt' = [qt EXCEPT ![a].state = "dying"] /\ UNCHANGED <<pd, fault>>
      /\ Calls(GuiThread, <<gone, free>>) \/ Calls(GuiThread, <<free>>)
  BY <1>3, <1>4 DEF QtDestroy
<1>6. /\ qt'[a].state = "dying" /\ \A x \in Addr : qt'[x].parent = qt[x].parent
      /\ \A x \in Addr \ {a} : qt'[x].state = qt[x].state
  BY <1>0, <1>5 DEF QtRecord
<1>7. gone \in Frame /\ gone.op = "deleted" /\ free \in Frame /\ free.op = "qtFree" /\ free.a = a
  BY AFrameType DEF AOps, AFrame
<1>. HIDE DEF gone
<1>8. PICK fs \in Seq(Frame), m \in 1..2 :
        /\ Calls(GuiThread, fs) /\ Len(fs) = m /\ fs[m] = free
        /\ \A j \in 1..Len(fs) : j = m \/ fs[j] = gone
  <2>. HIDE DEF free
  <2>1. CASE Calls(GuiThread, <<gone, free>>)
    BY <1>7, <2>1, TwoFrames
  <2>2. CASE Calls(GuiThread, <<free>>)
    BY <1>7, <2>2, OneFrame
  <2>. QED  BY <1>5, <2>1, <2>2
<1>9. Rebuilt(n, fs)
  BY <1>0, <1>1, <1>2, <1>8, CallsRebuild
<1>10. \A j \in 1..Len(fs) : PlantAt(n, fs, j)
  <2>. SUFFICES ASSUME NEW j \in 1..Len(fs) PROVE PlantAt(n, fs, j)
    OBVIOUS
  <2>1. CASE j = m
    <3>1. fs[j].op = "qtFree" /\ fs[j].a = a /\ qt'[fs[j].a].parent = qt[a].parent
      BY <1>6, <1>7, <1>8, <2>1
    <3>2. NoFree(n) \/ \E k \in 0 .. n - 1 : At(Tower, k) = AFrame("qtFree", qt[a].parent)
      BY <1>2, <1>3 DEF OnceInv, ChainOk, Chained, DeleteOps
    <3>3. \A i \in j + 1 .. Len(fs) : FALSE
      BY <1>8, <2>1
    <3>. QED  BY <3>1, <3>2, <3>3 DEF PlantAt, LowAt, ShelterAt, DeleteAt, LowOps, MissOps, ShelterOps
  <2>2. CASE fs[j] = gone
    BY <1>7, <2>2 DEF PlantAt, LowAt, ShelterAt, DeleteAt, LowOps, MissOps, ShelterOps, DeleteOps
  <2>. QED  BY <1>8, <2>1, <2>2
<1>11. ObjectsKept(n, fs)
  <2>1. ASSUME NEW h \in 0 .. n - 1, At(Tower, h).op \in DeleteOps
        PROVE  /\ qt'[At(Tower, h).a].parent = qt[At(Tower, h).a].parent
               /\ At(Tower, h).op # "qtDestroy"
    <3>1. h \in Heights(Tower) /\ At(Tower, h).op # "qtDestroy"
      BY <1>1, <1>2, NoneWaiting DEF DeleteOps
    <3>2. At(Tower, h).a \in Addr
      BY <1>2, <2>1, <3>1, FrameAt DEF DeleteOps, AOps
    <3>. QED  BY <1>6, <3>1, <3>2
  <2>2. ASSUME NEW x \in Addr, qt'[x].state = "dying"
        PROVE  \/ Dying(x) /\ (n < Len(Tower) => At(Tower, n) # AFrame("qtFree", x))
               \/ \E j \in 1..Len(fs) : fs[j] = AFrame("qtFree", x)
    <3>1. CASE x = a
      BY <1>8, <3>1
    <3>2. CASE x # a
      BY <1>2, <1>6, <2>2, <3>2 DEF Dying, AFrame
    <3>. QED  BY <3>1, <3>2
  <2>3. \A w \in Wrap : pd'[w].obj \in {pd[w].obj, None}
    BY <1>5
  <2>. QED  BY <2>1, <2>2, <2>3 DEF ObjectsKept
<1>12. TreeOk'
  <2>1. \A x \in Addr : qt'[x].state = "free" => qt[x].state = "free"
    BY <1>6
  <2>2. \A x \in Addr : qt[x].parent # None => qt[x].parent \in Addr
    BY <1>0 DEF QtRecord
  <2>. QED  BY <1>6, <2>1, <2>2 DEF OnceInv, TreeOk
<1>13. OnceInv'
  BY <1>9, <1>10, <1>11, <1>12, OnceKept DEF Plants, PlantAt
<1>. QED  BY <1>5, <1>13

\* only one destructor of an object is at work
LEMMA FreesOnce ==
    ASSUME Ground, NEW a \in Addr, NEW h \in Heights(Tower), NEW k \in Heights(Tower),
           At(Tower, h) = AFrame("qtFree", a), At(Tower, k) = AFrame("qtFree", a)
    PROVE  h = k
<1>1. h \in Int /\ k \in Int
  BY DEF Heights
<1>2. At(Tower, h) \in FreeFrames(a) /\ At(Tower, k) \in FreeFrames(a)
  BY DEF FreeFrames
<1>3. <<GuiThread, h>> \in Places(FreeFrames(a)) /\ <<GuiThread, k>> \in Places(FreeFrames(a))
  BY <1>1, <1>2, PlacedAt DEF Ground
<1>. QED  BY <1>3 DEF Ground, IdentityInv, FreeOk

\* what the destructor of an object finds among its children is alive
LEMMA ChildLives ==
    ASSUME Ground, OnceInv, NEW a \in Addr, NEW n \in Heights(Tower), n = Len(Tower) - 1,
           At(Tower, n) = AFrame("qtFree", a), NEW c \in Children(a)
    PROVE  qt[c].state = "live"
<1>1. c \in Addr /\ qt[c].state # "free" /\ qt[c].parent = a /\ qt \in [Addr -> QtRecord]
  BY DEF Children, Ground, TypeOK
<1>2. c # a
  <2>1. {c} \in SUBSET Addr /\ {c} # {}
    BY <1>1
  <2>2. \E x \in {c} : qt[x].parent \notin {c}
    BY <2>1 DEF OnceInv, TreeOk
  <2>. QED  BY <1>1, <2>2
<1>3. ASSUME Dying(c) PROVE FALSE
  <2>1. PICK h \in Heights(Tower) : At(Tower, h) = AFrame("qtFree", c)
    BY <1>1, <1>3 DEF OnceInv, DyingOk
  <2>2. Len(Tower) \in Nat
    BY ThreadAssumption DEF Ground, TypeOK, Tower
  <2>3. h \in 0 .. n - 1
    <3>1. h # n
      BY <1>2, <2>1 DEF AFrame
    <3>. QED  BY <2>2, <3>1 DEF Heights
  <2>4. At(Tower, h).op \in DeleteOps /\ At(Tower, h).a = c
    BY <2>1 DEF DeleteOps, AFrame
  \* its own caller cannot be the destructor on top
  <2>5. ASSUME NEW k \in 0 .. h - 1, At(Tower, k) = AFrame("qtFree", a) PROVE FALSE
    <3>1. k \in Heights(Tower) /\ k # n
      BY <2>2, <2>3 DEF Heights
    <3>. QED  BY <2>5, <3>1, FreesOnce
  <2>6. NoFree(h)
    BY <1>1, <2>4, <2>5 DEF OnceInv, ChainOk, Chained
  \* nor is it the first destructor: all that are at work would have their
  \* parents among themselves
  <2>. DEFINE S == {x \in Addr : \E k \in Heights(Tower) : At(Tower, k) = AFrame("qtFree", x)}
  <2>7. ASSUME NEW x \in S PROVE qt[x].parent \in S
    <3>1. PICK k \in Heights(Tower) : At(Tower, k) = AFrame("qtFree", x)
      OBVIOUS
    <3>2. CASE \E i \in 0 .. k - 1 : At(Tower, i) = AFrame("qtFree", qt[x].parent)
      <4>1. PICK i \in 0 .. k - 1 : At(Tower, i) = AFrame("qtFree", qt[x].parent)
        BY <3>2
      <4>2. i \in Heights(Tower)
        BY <2>2, <3>1 DEF Heights
      <4>3. qt[x].parent \in Addr
        <5>1. At(Tower, i).op \in AOps /\ At(Tower, i).a = qt[x].parent
          BY <4>1 DEF AFrame, AOps
        <5>2. Tower \in Seq(Frame)
          BY ThreadAssumption DEF Ground, TypeOK, Tower
        <5>. QED  BY <4>2, <5>1, <5>2, FrameAt
      <4>. QED  BY <4>1, <4>2, <4>3
    <3>3. CASE NoFree(k)
      <4>1. ~(h < k) /\ ~(k < h)
        <5>1. h \in Nat /\ k \in Nat
          BY <2>2 DEF Heights
        <5>2. At(Tower, k).op = "qtFree" /\ At(Tower, h).op = "qtFree"
          BY <2>1, <3>1 DEF AFrame
        <5>. QED  BY <2>6, <3>3, <5>1, <5>2 DEF NoFree
      <4>2. h = k
        BY <2>2, <4>1 DEF Heights
      <4>3. x = c
        BY <2>1, <3>1, <4>2 DEF AFrame
      <4>. QED  BY <1>1, <4>3
    <3>4. Chained(k, x)
      <4>1. At(Tower, k).op \in DeleteOps /\ At(Tower, k).a = x
        BY <3>1 DEF DeleteOps, AFrame
      <4>. QED  BY <4>1 DEF OnceInv, ChainOk
    <3>. QED  BY <3>2, <3>3, <3>4 DEF Chained
  <2>8. S # {} /\ S \in SUBSET Addr
    OBVIOUS
  <2>. QED  BY <2>7, <2>8 DEF OnceInv, TreeOk
<1>. QED  BY <1>1, <1>3 DEF Dying, QtRecord

LEMMA QtFreeOnce ==
    ASSUME Ground, TypeOK', OnceInv, QtFree(GuiThread)
    PROVE  OnceInv'
<1>0. TypeOK /\ qt \in [Addr -> QtRecord] /\ pd \in [Wrap -> PdRecord]
  BY DEF Ground, TypeOK
<1>1. PICK n : n = Len(Tower) - 1
  OBVIOUS
<1>2. /\ Tower # <<>> /\ Top(GuiThread).op = "qtFree" /\ Top(GuiThread) = At(Tower, n)
      /\ n \in Heights(Tower) /\ n \in Nat /\ Tower \in Seq(Frame) /\ Len(Tower) = n + 1
  BY <1>0, <1>1, TowerTop DEF QtFree, AtTop, Running, Tower
<1>3. PICK a \in Addr : a = Top(GuiThread).a /\ At(Tower, n) = AFrame("qtFree", a)
  BY <1>2, FrameAt DEF AOps
<1>4. \A w \in Wrap : pd'[w].obj \in {pd[w].obj, None}
  <2>1. pd' = [w \in Wrap |-> IF pd[w].obj = a /\ pd[w].is_qobject
                              THEN [pd[w] EXCEPT !.obj = None] ELSE pd[w]]
    BY <1>3 DEF QtFree
  <2>. QED  BY <1>0, <2>1 DEF PdRecord
<1>5. /\ a # None /\ \A x \in Addr : qt[x].parent # None => qt[x].state # "free"
  BY NoneAssumption DEF Ground, DataInv, ObjectOk
<1>6. ASSUME NEW c \in Children(a), Enter(GuiThread, <<AFrame("qtDestroy", c)>>), UNCHANGED qt
      PROVE  OnceInv'
  <2>1. c \in Addr /\ qt[c].parent = a
    BY DEF Children
  <2>2. qt'[c].state = "live"
    BY <1>1, <1>2, <1>3, <1>6, ChildLives
  <2>. DEFINE f == AFrame("qtDestroy", c)
  <2>3. f \in Frame /\ f.op = "qtDestroy" /\ f.a = c
    BY <2>1, AFrameType DEF AOps, AFrame
  <2>. HIDE DEF f
  <2>4. PICK fs \in Seq(Frame) : /\ Enter(GuiThread, fs) /\ fs[1] = f /\ Len(fs) = 1
                                /\ \A j \in 1..Len(fs) : j = 1
    BY <1>6, <2>3, OneFrame DEF f
  <2>5. PICK b : b = Len(Tower)
    OBVIOUS
  <2>6. Rebuilt(b, fs)
    BY <1>0, <2>4, <2>5, EnterRebuilds
  <2>7. DeleteAt(b, fs, 1)
    <3>1. n \in 0 .. b - 1 /\ At(Tower, n) = AFrame("qtFree", qt'[c].parent)
      BY <1>2, <1>3, <1>6, <2>1, <2>5
    <3>2. \A i \in 1 + 1 .. Len(fs) : FALSE
      BY <2>4
    <3>. QED  BY <2>2, <2>3, <2>4, <3>1, <3>2 DEF DeleteAt
  <2>8. PlantAt(b, fs, 1)
    BY <2>3, <2>4, <2>7 DEF PlantAt, LowAt, ShelterAt, LowOps, MissOps, ShelterOps
  <2>9. ObjectsKept(b, fs)
    <3>1. \A h \in 0 .. b - 1 : h \in Heights(Tower)
      BY <2>6, OldFrames
    <3>2. ~(b < Len(Tower))
      BY <1>2, <2>5
    <3>. QED  BY <1>4, <1>6, <3>1, <3>2 DEF ObjectsKept, OnceInv, TargetOk, Live, Dying
  <2>10. TreeOk'
    BY <1>6 DEF OnceInv, TreeOk
  <2>. QED  BY <2>4, <2>6, <2>8, <2>9, <2>10, OnceKept DEF Plants, PlantAt
<1>7. ASSUME Children(a) = {}, qt' = [qt EXCEPT ![a] = NoQt], Return(GuiThread)
      PROVE  OnceInv'
  <2>1. /\ qt'[a].state = "free" /\ qt'[a].parent = None
        /\ \A x \in Addr \ {a} : qt'[x] = qt[x]
    BY <1>0, <1>7 DEF NoQt
  <2>2. \A x \in Addr : qt[x].parent # a
    BY <1>5, <1>7 DEF Children
  <2>3. PICK fs \in Seq(Frame) : Rebuilt(n, fs) /\ \A j \in 1..Len(fs) : FALSE
    <3>1. Rebuilt(n, <<>>) /\ <<>> \in Seq(Frame) /\ \A j \in 1..Len(<<>>) : FALSE
      BY <1>1, <1>2, <1>7, ReturnRebuilds
    <3>. QED  BY <3>1
  <2>4. ObjectsKept(n, fs)
    <3>1. ASSUME NEW h \in 0 .. n - 1, At(Tower, h).op \in DeleteOps
          PROVE  /\ qt'[At(Tower, h).a].parent = qt[At(Tower, h).a].parent
                 /\ At(Tower, h).op # "qtDestroy"
      <4>1. h \in Heights(Tower) /\ At(Tower, h).op # "qtDestroy" /\ h # n
        BY <1>1, <1>2, NoneWaiting DEF DeleteOps
      <4>2. /\ At(Tower, h).a \in Addr
            /\ At(Tower, h) = AFrame("qtFree", At(Tower, h).a)
        BY <1>2, <3>1, <4>1, FrameAt DEF DeleteOps, AOps
      <4>3. At(Tower, h).a # a
        BY <1>2, <1>3, <4>1, <4>2, FreesOnce
      <4>. QED  BY <2>1, <4>1, <4>2, <4>3
    <3>2. ASSUME NEW x \in Addr, qt'[x].state = "dying"
          PROVE  Dying(x) /\ At(Tower, n) # AFrame("qtFree", x)
      <4>1. x # a
        BY <2>1, <3>2
      <4>. QED  BY <1>3, <2>1, <3>2, <4>1 DEF Dying, AFrame
    <3>. QED  BY <1>4, <3>1, <3>2 DEF ObjectsKept
  <2>5. TreeOk'
    <3>1. ASSUME NEW x \in Addr, qt'[x].parent # None PROVE qt'[qt'[x].parent].state # "free"
      <4>1. x # a /\ qt'[x] = qt[x]
        BY <2>1, <3>1
      <4>2. qt[x].parent \in Addr \ {a} /\ qt[qt[x].parent].state # "free"
        BY <1>0, <2>2, <3>1, <4>1 DEF QtRecord, OnceInv, TreeOk
      <4>. QED  BY <2>1, <4>1, <4>2
    <3>2. ASSUME NEW S \in SUBSET Addr, S # {} PROVE \E x \in S : qt'[x].parent \notin S
      <4>1. PICK x \in S : qt[x].parent \notin S
        BY <3>2 DEF OnceInv, TreeOk
      <4>2. CASE x = a
        BY <2>1, <4>2, NoneAssumption
      <4>3. CASE x # a
        BY <2>1, <4>1, <4>3
      <4>. QED  BY <4>2, <4>3
    <3>. QED  BY <3>1, <3>2 DEF TreeOk
  <2>. QED  BY <2>3, <2>4, <2>5, OnceKept DEF Plants
<1>. QED  BY <1>3, <1>6, <1>7 DEF QtFree

-----------------------------------------------------------------------------
\* The program makes a wrapper.
LEMMA FreeHasNoParent ==
    ASSUME Ground, NEW a \in Addr, qt[a].state = "free"
    PROVE  qt[a].parent = None
BY DEF Ground, DataInv, ObjectOk

\* a new object at a free address, whose parent is there, leaves the tree a tree
LEMMA TreeGrows ==
    ASSUME Ground, OnceInv, NEW a \in Addr, qt[a].state = "free",
           \A x \in Addr \ {a} : qt'[x] = qt[x], qt'[a].state = "live",
           NEW p, qt'[a].parent = p, p # None => p \in Addr /\ qt[p].state # "free"
    PROVE  TreeOk'
<1>1. qt \in [Addr -> QtRecord]
  BY DEF Ground, TypeOK
<1>2. \A x \in Addr : qt[x].parent # a
  <2>1. ASSUME NEW x \in Addr, qt[x].parent = a PROVE FALSE
    <3>1. a # None
      BY NoneAssumption
    <3>. QED  BY <2>1, <3>1 DEF OnceInv, TreeOk
  <2>. QED  BY <2>1
<1>3. p # a
  BY NoneAssumption
<1>4. ASSUME NEW x \in Addr, qt'[x].parent # None PROVE qt'[qt'[x].parent].state # "free"
  <2>1. CASE x = a
    BY <1>3, <1>4, <2>1
  <2>2. CASE x # a
    <3>1. qt[x].parent \in Addr \ {a} /\ qt[qt[x].parent].state # "free" /\ qt'[x] = qt[x]
      BY <1>1, <1>2, <1>4, <2>2 DEF OnceInv, TreeOk, QtRecord
    <3>. QED  BY <3>1
  <2>. QED  BY <2>1, <2>2
<1>5. ASSUME NEW S \in SUBSET Addr, S # {} PROVE \E x \in S : qt'[x].parent \notin S
  <2>1. CASE S \ {a} = {}
    BY <1>3, <1>5, <2>1
  <2>2. CASE S \ {a} # {}
    <3>1. S \ {a} \in SUBSET Addr
      OBVIOUS
    <3>2. PICK x \in S \ {a} : qt[x].parent \notin S \ {a}
      BY <2>2, <3>1 DEF OnceInv, TreeOk
    <3>3. qt[x].parent \notin S /\ qt'[x] = qt[x]
      BY <1>2, <3>2
    <3>. QED  BY <3>3
  <2>. QED  BY <2>1, <2>2
<1>. QED  BY <1>4, <1>5 DEF TreeOk

\* a step that makes an object, with no destructor at work
LEMMA MakeOnce ==
    ASSUME Ground, TypeOK', OnceInv, NEW a \in Addr, qt[a].state = "free",
           \A x \in Addr \ {a} : qt'[x] = qt[x], qt'[a].state = "live",
           NEW p, qt'[a].parent = p, p # None => p \in Addr /\ qt[p].state # "free",
           NEW b, NEW fs, Rebuilt(b, fs), NoFree(b),
           \A h \in 0 .. b - 1 : At(Tower, h).op \notin DeleteOps,
           b < Len(Tower) => At(Tower, b).op # "qtFree",
           \A j \in 1..Len(fs) : PlantAt(b, fs, j)
    PROVE  OnceInv'
<1>1. TreeOk'
  BY TreeGrows
<1>2. ASSUME NEW x \in Addr, qt'[x].state = "dying"
      PROVE  Dying(x) /\ (b < Len(Tower) => At(Tower, b) # AFrame("qtFree", x))
  <2>1. x # a
    BY <1>2
  <2>. QED  BY <1>2, <2>1 DEF Dying, AFrame
<1>3. ObjectsKept(b, fs)
  BY <1>2 DEF ObjectsKept
<1>. QED  BY <1>1, <1>3, OnceKept DEF Plants, PlantAt

LEMMA MapMissOnce ==
    ASSUME Ground, TypeOK', OnceInv, NEW w \in Wrap, MapMiss(GuiThread, w)
    PROVE  OnceInv'
<1>0. TypeOK /\ pd \in [Wrap -> PdRecord]
  BY DEF Ground, TypeOK
<1>1. Tower # <<>> /\ Top(GuiThread).op \in MissOps
  BY DEF MapMiss, AtTop, Running, Tower, MissOps
<1>2. PICK n : n = Len(Tower) - 1
  OBVIOUS
<1>3. NoFree(n) /\ At(Tower, n).op # "qtFree" /\ n < Len(Tower)
  <2>1. n \in Heights(Tower) /\ At(Tower, n).op \in LowOps /\ At(Tower, n).op \in MissOps
    BY <1>0, <1>1, <1>2, TowerTop DEF LowOps
  <2>2. NoneBelow(n)
    BY <2>1 DEF OnceInv, UserLow
  <2>. QED  BY <1>0, <1>1, <1>2, <2>1, <2>2, TowerTop DEF NoneBelow, NoFree, MissOps
<1>4. CASE UNCHANGED <<qt, pd, stack>>
  BY <1>4, IdleOnce
<1>5. CASE Return(GuiThread) /\ UNCHANGED qt
  <2>1. PICK fs \in Seq(Frame) : Rebuilt(n, fs) /\ \A j \in 1..Len(fs) : FALSE
    <3>1. Rebuilt(n, <<>>) /\ <<>> \in Seq(Frame) /\ \A j \in 1..Len(<<>>) : FALSE
      BY <1>1, <1>2, <1>5, ReturnRebuilds
    <3>. QED  BY <3>1
  <2>. QED  BY <1>0, <1>3, <1>5, <2>1, PlainPlants
<1>. QED  BY <1>4, <1>5 DEF MapMiss, Abort

LEMMA MapMissCopyOnce ==
    ASSUME Ground, TypeOK', OnceInv, NEW w \in Wrap, NEW a \in Addr, MapMissCopy(GuiThread, w, a)
    PROVE  OnceInv'
<1>0. TypeOK /\ qt \in [Addr -> QtRecord]
  BY DEF Ground, TypeOK
<1>1. Tower # <<>> /\ Top(GuiThread).op \in MissOps
  BY DEF MapMissCopy, AtTop, Running, Tower, MissOps
<1>2. PICK n : n = Len(Tower) - 1
  OBVIOUS
<1>3. /\ NoneBelow(n) /\ NoFree(n) /\ At(Tower, n).op # "qtFree"
      /\ \A h \in 0 .. n - 1 : At(Tower, h).op \notin DeleteOps
  <2>1. n \in Heights(Tower) /\ At(Tower, n).op \in LowOps /\ At(Tower, n).op \in MissOps
    BY <1>0, <1>1, <1>2, TowerTop DEF LowOps
  <2>2. NoneBelow(n)
    BY <2>1 DEF OnceInv, UserLow
  <2>. QED  BY <2>1, <2>2 DEF NoneBelow, NoFree, MissOps, DeleteOps
<1>4. CASE UNCHANGED <<qt, pd, stack>>
  BY <1>4, IdleOnce
<1>5. CASE /\ Return(GuiThread) /\ qt[a].state = "free"
           /\ qt' = [qt EXCEPT ![a] = NewQt("plain", TRUE, FALSE, None)]
  <2>1. PICK fs \in Seq(Frame) : Rebuilt(n, fs) /\ \A j \in 1..Len(fs) : FALSE
    <3>1. Rebuilt(n, <<>>) /\ <<>> \in Seq(Frame) /\ \A j \in 1..Len(<<>>) : FALSE
      BY <1>1, <1>2, <1>5, ReturnRebuilds
    <3>. QED  BY <3>1
  <2>2. /\ qt'[a].state = "live" /\ qt'[a].parent = None
        /\ \A x \in Addr \ {a} : qt'[x] = qt[x]
    BY <1>0, <1>5 DEF NewQt
  <2>. QED  BY <1>3, <1>5, <2>1, <2>2, MakeOnce
<1>. QED  BY <1>4, <1>5 DEF MapMissCopy, Abort

LEMMA CommonConstructorOnce ==
    ASSUME MutedProgram, Ground, TypeOK', OnceInv, NEW w \in Wrap, NEW a \in Addr,
           NEW kind \in Kinds, NEW p \in Addr \cup {None},
           CommonConstructor(GuiThread, a, w, kind, p)
    PROVE  OnceInv'
<1>0. TypeOK /\ qt \in [Addr -> QtRecord]
  BY DEF Ground, TypeOK
<1>1. PICK b : b = Len(Tower)
  OBVIOUS
<1>2. /\ NoneBelow(b) /\ NoFree(b) /\ b \in Nat
      /\ \A h \in Heights(Tower) : At(Tower, h).op \notin DeleteOps
  BY <1>0, <1>1, UserBelow DEF CommonConstructor
<1>3. qt[a].state = "free" /\ (p # None => p \in Addr /\ qt[p].state # "free")
  BY DEF CommonConstructor, CanMake, ParentOk, Live
<1>4. CASE UNCHANGED <<qt, pd, stack>>
  BY <1>4, IdleOnce
<1>5. CASE /\ qt' = [qt EXCEPT ![a] = NewQt(kind, TRUE, FALSE, p)]
           /\ Enter(GuiThread, <<WFrame("ctorBody", w)>>)
  <2>1. WFrame("ctorBody", w) \in Frame /\ WFrame("ctorBody", w).op = "ctorBody"
    BY WFrameType DEF WOps, WFrame
  <2>2. PICK fs \in Seq(Frame) : /\ Enter(GuiThread, fs) /\ Len(fs) = 1 /\ fs[1].op = "ctorBody"
                                /\ \A j \in 1..Len(fs) : j = 1
    BY <1>5, <2>1, OneFrame
  <2>3. Rebuilt(b, fs)
    BY <1>0, <1>1, <2>2, EnterRebuilds
  <2>4. PlantAt(b, fs, 1)
    BY <1>2, <2>2 DEF PlantAt, LowAt, ShelterAt, DeleteAt, DeleteOps, ShelterOps
  <2>5. /\ qt'[a].state = "live" /\ qt'[a].parent = p
        /\ \A x \in Addr \ {a} : qt'[x] = qt[x]
    BY <1>0, <1>5 DEF NewQt
  <2>6. ~(b < Len(Tower)) /\ \A h \in 0 .. b - 1 : h \in Heights(Tower)
    BY <1>1, <1>2 DEF Heights
  <2>. QED  BY <1>2, <1>3, <2>2, <2>3, <2>4, <2>5, <2>6, MakeOnce
<1>. QED  BY <1>4, <1>5 DEF CommonConstructor, Abort

-----------------------------------------------------------------------------
\* The program acts without making an object.
LEMMA EnterMereOnce ==
    ASSUME MutedProgram, Ground, TypeOK', OnceInv, UserCode(GuiThread), UNCHANGED qt,
           NEW fs \in Seq(Frame), Enter(GuiThread, fs),
           \A j \in 1..Len(fs) : fs[j].op \notin LowOps \cup DeleteOps
    PROVE  OnceInv'
<1>0. TypeOK
  BY DEF Ground
<1>1. PICK b : b = Len(Tower)
  OBVIOUS
<1>2. NoFree(b)
  BY <1>0, <1>1, UserBelow
<1>3. \A j \in 1..Len(fs) : PlantAt(b, fs, j)
  BY <1>2, MerePlant DEF MereAt
<1>. QED  BY <1>0, <1>1, <1>3, EnterOnce

LEMMA ReleaseOnce ==
    ASSUME MutedProgram, Ground, TypeOK', OnceInv, NEW w \in Wrap, Release(GuiThread, w)
    PROVE  OnceInv'
<1>1. PICK fs : fs = <<WFrame("deref", w)>>
  OBVIOUS
<1>2. fs \in Seq(Frame) /\ \A j \in 1..Len(fs) : fs[j].op = "deref"
  BY <1>1, OneSheltered
<1>3. UserCode(GuiThread) /\ Enter(GuiThread, fs) /\ UNCHANGED qt
  BY <1>1 DEF Release
<1>. QED  BY <1>2, <1>3, EnterMereOnce DEF LowOps, MissOps, DeleteOps

LEMMA DeleteOnce ==
    ASSUME MutedProgram, Ground, TypeOK', OnceInv, NEW w \in Wrap, Delete(GuiThread, w)
    PROVE  OnceInv'
<1>1. PICK fs : fs = DestructorFrames(w)
  OBVIOUS
<1>2. fs \in Seq(Frame) /\ \A j \in 1..Len(fs) : fs[j].op \in ShelterOps
  BY <1>1, DestructorFramesType DEF DestructorFrames, WFrame, ShelterOps
<1>3. UserCode(GuiThread) /\ Enter(GuiThread, fs) /\ UNCHANGED qt
  BY <1>1 DEF Delete
<1>. QED  BY <1>2, <1>3, EnterMereOnce DEF LowOps, MissOps, DeleteOps, ShelterOps

LEMMA CommonMethodOnce ==
    ASSUME MutedProgram, Ground, TypeOK', OnceInv, NEW w \in Wrap, CommonMethod(GuiThread, w)
    PROVE  OnceInv'
<1>1. PICK fs : fs = <<WFrame("methodCall", w), WFrame("pdDeref", w)>>
  OBVIOUS
<1>2. /\ WFrame("methodCall", w) \in Frame /\ WFrame("methodCall", w).op = "methodCall"
      /\ WFrame("pdDeref", w) \in Frame /\ WFrame("pdDeref", w).op = "pdDeref"
  BY WFrameType DEF WOps, WFrame
<1>3. /\ fs \in Seq(Frame) /\ fs[1].op = "methodCall" /\ fs[2].op = "pdDeref"
      /\ \A j \in 1..Len(fs) : j = 1 \/ j = 2
  BY <1>1, <1>2, TwoFrames
<1>4. UserCode(GuiThread) /\ Enter(GuiThread, fs) /\ UNCHANGED qt
  BY <1>1 DEF CommonMethod
<1>. QED  BY <1>3, <1>4, EnterMereOnce DEF LowOps, MissOps, DeleteOps

LEMMA ReturnObjectOnce ==
    ASSUME MutedProgram, Ground, TypeOK', OnceInv, NEW a \in Addr, NEW const \in BOOLEAN,
           ReturnObject(GuiThread, a, const)
    PROVE  OnceInv'
<1>0. TypeOK /\ map \in [Addr -> Wrap \cup {None}]
  BY DEF Ground, TypeOK
<1>1. PICK f : f \in Frame /\ f.op \in MissOps \cup {"mapHit"} /\ Enter(GuiThread, <<f>>)
  <2>1. PICK miss \in MissOps : Enter(GuiThread, <<Lookup(a, miss)>>)
    BY DEF ReturnObject, MissOps
  <2>2. Lookup(a, miss) \in Frame /\ Lookup(a, miss).op \in MissOps \cup {"mapHit"}
    <3>1. CASE map[a] # None
      <4>1. map[a] \in Wrap
        BY <1>0, <3>1
      <4>. QED  BY <3>1, <4>1, WFrameType DEF Lookup, WOps, WFrame
    <3>2. CASE map[a] = None
      <4>1. miss \in AOps
        BY DEF MissOps, AOps
      <4>. QED  BY <3>2, <4>1, AFrameType DEF Lookup, AFrame
    <3>. QED  BY <3>1, <3>2
  <2>. QED  BY <2>1, <2>2
<1>2. PICK fs \in Seq(Frame) : /\ Enter(GuiThread, fs) /\ fs[1] = f /\ Len(fs) = 1
                              /\ \A j \in 1..Len(fs) : j = 1
  BY <1>1, OneFrame
<1>3. UserCode(GuiThread) /\ UNCHANGED <<qt, pd>>
  BY DEF ReturnObject
<1>4. PICK b : b = Len(Tower)
  OBVIOUS
<1>5. NoneBelow(b)
  BY <1>0, <1>3, <1>4, UserBelow
<1>6. \A j \in 1..Len(fs) : PlantAt(b, fs, j)
  BY <1>1, <1>2, <1>5 DEF PlantAt, LowAt, ShelterAt, DeleteAt, MissOps, DeleteOps, ShelterOps
<1>. QED  BY <1>0, <1>2, <1>3, <1>4, <1>6, EnterOnce

LEMMA QtDeleteOnce ==
    ASSUME MutedProgram, Ground, TypeOK', OnceInv, NEW a \in Addr, QtDelete(GuiThread, a)
    PROVE  OnceInv'
<1>0. TypeOK
  BY DEF Ground
<1>1. UserCode(GuiThread) /\ Live(a) /\ UNCHANGED <<qt, pd>>
  BY DEF QtDelete
<1>2. PICK b : b = Len(Tower)
  OBVIOUS
<1>3. NoFree(b)
  BY <1>0, <1>1, <1>2, UserBelow
<1>4. /\ AFrame("qtDestroy", a) \in Frame
      /\ AFrame("qtDestroy", a).op = "qtDestroy" /\ AFrame("qtDestroy", a).a = a
  BY AFrameType DEF AOps, AFrame
<1>5. PICK fs \in Seq(Frame) : /\ Enter(GuiThread, fs) /\ fs[1] = AFrame("qtDestroy", a)
                              /\ Len(fs) = 1 /\ \A j \in 1..Len(fs) : j = 1
  BY <1>4, OneFrame DEF QtDelete
<1>6. /\ 1 \in 1..Len(fs) /\ Len(fs) \in Nat /\ fs[1].op = "qtDestroy"
      /\ qt'[fs[1].a].state = "live" /\ \A i \in 1..Len(fs) : fs[i].op # "qtFree"
  BY <1>1, <1>4, <1>5 DEF Live
<1>7. PlantAt(b, fs, 1)
  BY <1>3, <1>6, DestroyPlant
<1>. QED  BY <1>0, <1>1, <1>2, <1>5, <1>7, EnterOnce

\* nothing is called
LEMMA StillOnce ==
    ASSUME MutedProgram, Ground, OnceInv, UserCode(GuiThread), UNCHANGED stack,
           \A a \in Addr : qt'[a].state = qt[a].state, TreeOk'
    PROVE  OnceInv'
<1>0. TypeOK
  BY DEF Ground
<1>1. /\ NoFree(Len(Tower)) /\ Len(Tower) \in Nat
      /\ \A h \in Heights(Tower) : At(Tower, h).op \notin DeleteOps
      /\ \A a \in Addr : ~Dying(a)
  BY <1>0, UserBelow
<1>2. Tower' = Tower
  BY DEF Tower
<1>3. UserLow'
  BY <1>2 DEF OnceInv, UserLow, NoneBelow
<1>4. Shelter'
  <2>1. \A h \in Heights(Tower) : NoFree(h)
    BY <1>1 DEF NoFree, Heights
  <2>. QED  BY <1>2, <2>1 DEF Shelter, NoFree
<1>5. ChainOk' /\ TargetOk'
  BY <1>1, <1>2 DEF ChainOk, TargetOk, DeleteOps
<1>6. DyingOk'
  BY <1>1 DEF DyingOk, Dying
<1>. QED  BY <1>3, <1>4, <1>5, <1>6 DEF OnceInv

LEMMA SetExternallyOwnedOnce ==
    ASSUME MutedProgram, Ground, OnceInv, NEW w \in Wrap, SetExternallyOwned(GuiThread, w)
    PROVE  OnceInv'
<1>1. qt \in [Addr -> QtRecord]
  BY DEF Ground, TypeOK
<1>2. /\ UserCode(GuiThread) /\ UNCHANGED stack
      /\ qt' = [qt EXCEPT ![pd[w].obj].taken = TRUE]
  BY DEF SetExternallyOwned
<1>3. \A a \in Addr : qt'[a].state = qt[a].state /\ qt'[a].parent = qt[a].parent
  BY <1>1, <1>2 DEF QtRecord
<1>4. TreeOk'
  <2>1. \A a \in Addr : qt[a].parent # None => qt[a].parent \in Addr
    BY <1>1 DEF QtRecord
  <2>. QED  BY <1>3, <2>1 DEF OnceInv, TreeOk
<1>. QED  BY <1>2, <1>3, <1>4, StillOnce

LEMMA ReturnToQtOnce ==
    ASSUME MutedProgram, Ground, TypeOK', OnceInv, NEW w \in Wrap, ReturnToQt(GuiThread, w)
    PROVE  OnceInv'
<1>1. PICK fs : fs = <<WFrame("returnDel", w), WFrame("pdDeref", w), WFrame("deref", w)>>
  OBVIOUS
<1>2. /\ WFrame("returnDel", w) \in Frame /\ WFrame("returnDel", w).op = "returnDel"
      /\ WFrame("pdDeref", w) \in Frame /\ WFrame("pdDeref", w).op = "pdDeref"
      /\ WFrame("deref", w) \in Frame /\ WFrame("deref", w).op = "deref"
  BY WFrameType DEF WOps, WFrame
<1>3. /\ fs \in Seq(Frame)
      /\ fs[1].op = "returnDel" /\ fs[2].op = "pdDeref" /\ fs[3].op = "deref"
      /\ \A j \in 1..Len(fs) : j = 1 \/ j = 2 \/ j = 3
  BY <1>1, <1>2, ThreeFrames
<1>4. UserCode(GuiThread) /\ Enter(GuiThread, fs) /\ UNCHANGED qt
  BY <1>1 DEF ReturnToQt
<1>. QED  BY <1>3, <1>4, EnterMereOnce DEF LowOps, MissOps, DeleteOps

\* An object moves below a root of the tree, or becomes one.
LEMMA MoveOnce ==
    ASSUME MutedProgram, Ground, OnceInv, UserCode(GuiThread), UNCHANGED stack,
           NEW a \in Addr, NEW p \in Addr \cup {None}, qt' = [qt EXCEPT ![a].parent = p],
           p # a, p # None => qt[p].state = "live" /\ qt[p].parent = None
    PROVE  OnceInv'
<1>1. qt \in [Addr -> QtRecord]
  BY DEF Ground, TypeOK
<1>2. /\ \A x \in Addr : qt'[x].state = qt[x].state
      /\ qt'[a].parent = p /\ \A x \in Addr \ {a} : qt'[x].parent = qt[x].parent
  BY <1>1 DEF QtRecord
<1>3. \A x \in Addr : qt'[x].parent # None =>
          qt'[x].parent \in Addr /\ qt[qt'[x].parent].state # "free"
  BY <1>1, <1>2 DEF OnceInv, TreeOk, QtRecord
<1>4. ASSUME NEW S \in SUBSET Addr, S # {} PROVE \E x \in S : qt'[x].parent \notin S
  <2>1. CASE p \in S
    <3>1. qt'[p].parent = None /\ None \notin S
      BY <1>2, <2>1, NoneAssumption
    <3>. QED  BY <2>1, <3>1
  <2>2. CASE p \notin S /\ a \in S
    BY <1>2, <2>2
  <2>3. CASE a \notin S
    BY <1>2, <1>4, <2>3 DEF OnceInv, TreeOk
  <2>. QED  BY <2>1, <2>2, <2>3
<1>5. TreeOk'
  BY <1>2, <1>3, <1>4 DEF TreeOk
<1>. QED  BY <1>2, <1>5, StillOnce

LEMMA QtReparentOnce ==
    ASSUME MutedProgram, Ground, OnceInv, NEW a \in Addr, NEW p \in Addr \cup {None},
           QtReparent(GuiThread, a, p)
    PROVE  OnceInv'
<1>1. /\ UserCode(GuiThread) /\ UNCHANGED stack /\ qt' = [qt EXCEPT ![a].parent = p]
      /\ p # a /\ (p # None => qt[p].state = "live" /\ qt[p].parent = None)
  BY DEF QtReparent, ParentOk, Live
<1>. QED  BY <1>1, MoveOnce

LEMMA SetParentOnce ==
    ASSUME MutedProgram, Ground, OnceInv, NEW w \in Wrap, NEW p \in Addr \cup {None},
           SetParent(GuiThread, w, p)
    PROVE  OnceInv'
<1>1. PICK a \in Addr : a = pd[w].obj
  BY PdFields DEF SetParent, Ground
<1>2. /\ UserCode(GuiThread) /\ p # a /\ (p # None => qt[p].state = "live" /\ qt[p].parent = None)
      /\ \/ UNCHANGED <<qt, pd, stack>>
         \/ UNCHANGED stack /\ qt' = [qt EXCEPT ![a].parent = p]
  BY <1>1 DEF SetParent, ParentOk, Live, Abort
<1>. QED  BY <1>2, IdleOnce, MoveOnce

-----------------------------------------------------------------------------
LEMMA UnwindOnce ==
    ASSUME LoneProgram, Ground, TypeOK', OnceInv, Unwind(GuiThread)
    PROVE  OnceInv'
<1>1. CASE ConstructorReturns(GuiThread) \/ UserDtorEnd(GuiThread) \/ OutOfMemory(GuiThread)
  BY <1>1, ReturnsOnce
<1>2. CASE ConstructorThrows(GuiThread)
  BY <1>2 DEF ConstructorThrows, LoneProgram
<1>3. CASE \/ Deref(GuiThread) \/ EndDelete(GuiThread) \/ PdDeref(GuiThread)
           \/ ObjRefDrop(GuiThread) \/ CommonDestructor(GuiThread)
  BY <1>3, DerefOnce, EndDeleteOnce, PdDerefOnce, ObjRefDropOnce, CommonDestructorOnce
<1>4. CASE DeleteAll(GuiThread) \/ DtorRest(GuiThread) \/ ExternalDelete(GuiThread)
  BY <1>4, DeleteAllOnce, DtorRestOnce, ExternalDeleteOnce
<1>5. CASE QtDestroy(GuiThread) \/ QtFree(GuiThread) \/ Deleted(GuiThread)
  BY <1>5, QtDestroyOnce, QtFreeOnce, DeletedCallOnce
<1>6. CASE MethodCall(GuiThread) \/ MapHit(GuiThread)
  BY <1>6, MethodCallOnce
<1>7. CASE \E w \in Wrap : MapMiss(GuiThread, w)
  BY <1>7, MapMissOnce
<1>8. CASE \E w \in Wrap, b \in Addr : MapMissCopy(GuiThread, w, b)
  BY <1>8, MapMissCopyOnce
<1>9. CASE \/ DtorRestEnd(GuiThread) \/ ExternalDeleteEnd(GuiThread)
           \/ ReturnToQtEnd(GuiThread) \/ MapDel(GuiThread) \/ Hold(GuiThread)
  BY <1>9, DtorRestEndOnce, ExternalDeleteEndOnce, ReturnToQtEndOnce, MapDelOnce, HoldOnce
<1>. QED  BY <1>1, <1>2, <1>3, <1>4, <1>5, <1>6, <1>7, <1>8, <1>9 DEF Unwind

LEMMA ActsOnce ==
    ASSUME MutedProgram, Ground, TypeOK', OnceInv,
           QtActs(GuiThread) \/ ProgramActs(GuiThread)
    PROVE  OnceInv'
<1>1. CASE \E a \in Addr : QtDelete(GuiThread, a)
  BY <1>1, QtDeleteOnce
<1>2. CASE \E a \in Addr, p \in Addr \cup {None} : QtReparent(GuiThread, a, p)
  BY <1>2, QtReparentOnce
<1>3. CASE \E a \in Addr, p \in Addr \cup {None}, kind \in Kinds : QtCreate(GuiThread, a, kind, p)
  BY <1>3 DEF QtCreate, LoneProgram, MutedProgram
<1>4. CASE \E w \in Wrap : \/ Release(GuiThread, w) \/ Delete(GuiThread, w)
                           \/ SetExternallyOwned(GuiThread, w) \/ CommonMethod(GuiThread, w)
                           \/ ReturnToQt(GuiThread, w)
  BY <1>4, ReleaseOnce, DeleteOnce, SetExternallyOwnedOnce, CommonMethodOnce,
      ReturnToQtOnce
<1>5. CASE \E w \in Wrap, p \in Addr \cup {None} : SetParent(GuiThread, w, p)
  BY <1>5, SetParentOnce
<1>6. CASE \E w \in Wrap, p \in Addr \cup {None}, a \in Addr, kind \in Kinds :
              CommonConstructor(GuiThread, a, w, kind, p)
  BY <1>6, CommonConstructorOnce
<1>7. CASE \E a \in Addr : ReturnByValue(GuiThread, a)
  BY <1>7 DEF ReturnByValue, LoneProgram, MutedProgram
<1>8. CASE \E a \in Addr, const \in BOOLEAN : ReturnObject(GuiThread, a, const)
  BY <1>8, ReturnObjectOnce
<1>9. CASE QtActs(GuiThread)
  BY <1>1, <1>2, <1>3, <1>9 DEF QtActs
<1>10. CASE ProgramActs(GuiThread)
  BY <1>4, <1>5, <1>6, <1>7, <1>8, <1>10 DEF ProgramActs
<1>. QED  BY <1>9, <1>10

\* only the destructor of an object finds that it is deleted a second time
LEMMA OnlyDestroyAborts ==
    ASSUME Unwind(GuiThread) \/ QtActs(GuiThread) \/ ProgramActs(GuiThread),
           ~QtDestroy(GuiThread), fault # "double_free"
    PROVE  fault' # "double_free"
<1>1. CASE \/ ConstructorReturns(GuiThread) \/ UserDtorEnd(GuiThread) \/ OutOfMemory(GuiThread)
           \/ ConstructorThrows(GuiThread) \/ EndDelete(GuiThread) \/ ObjRefDrop(GuiThread)
           \/ QtFree(GuiThread)
  BY <1>1 DEF ConstructorReturns, UserDtorEnd, OutOfMemory, ConstructorThrows, EndDelete,
              ObjRefDrop, QtFree
<1>2. CASE \/ Deref(GuiThread) \/ PdDeref(GuiThread) \/ CommonDestructor(GuiThread)
           \/ DeleteAll(GuiThread) \/ MethodCall(GuiThread) \/ MapHit(GuiThread)
           \/ Deleted(GuiThread)
  BY <1>2 DEF Deref, PdDeref, CommonDestructor, DeleteAll, MethodCall, MapHit, Deleted, Abort
<1>3. CASE \/ DtorRest(GuiThread) \/ ExternalDelete(GuiThread) \/ DtorRestEnd(GuiThread)
           \/ ExternalDeleteEnd(GuiThread) \/ ReturnToQtEnd(GuiThread)
           \/ MapDel(GuiThread) \/ Hold(GuiThread)
  BY <1>3 DEF DtorRest, ExternalDelete, DtorRestEnd, ExternalDeleteEnd, ReturnToQtEnd, MapDel,
              Hold, Abort, ClearFault, DelFault
<1>4. CASE \/ \E w \in Wrap : MapMiss(GuiThread, w)
           \/ \E w \in Wrap, b \in Addr : MapMissCopy(GuiThread, w, b)
  BY <1>4 DEF MapMiss, MapMissCopy, Abort, PrivateFault
<1>5. CASE QtActs(GuiThread)
  BY <1>5 DEF QtActs, QtDelete, QtReparent, QtCreate
<1>6. CASE ProgramActs(GuiThread)
  <2>1. \A w \in Wrap : Release(GuiThread, w) \/ Delete(GuiThread, w) \/ CommonMethod(GuiThread, w)
            \/ SetExternallyOwned(GuiThread, w) => fault' # "double_free"
    BY DEF Release, Delete, CommonMethod, SetExternallyOwned
  <2>2. \A w \in Wrap : ReturnToQt(GuiThread, w) => fault' # "double_free"
    BY DEF ReturnToQt
  <2>3. \A w \in Wrap, p \in Addr \cup {None} : SetParent(GuiThread, w, p) => fault' # "double_free"
    BY DEF SetParent, Abort
  <2>4. \A w \in Wrap, p \in Addr \cup {None}, a \in Addr, kind \in Kinds :
            CommonConstructor(GuiThread, a, w, kind, p) => fault' # "double_free"
    BY DEF CommonConstructor, Abort, PrivateFault
  <2>5. \A a \in Addr : ReturnByValue(GuiThread, a) => fault' # "double_free"
    BY DEF ReturnByValue
  <2>6. \A a \in Addr, const \in BOOLEAN : ReturnObject(GuiThread, a, const) => fault' # "double_free"
    BY DEF ReturnObject
  <2>. QED  BY <1>6, <2>1, <2>2, <2>3, <2>4, <2>5, <2>6 DEF ProgramActs
<1>. QED  BY <1>1, <1>2, <1>3, <1>4, <1>5, <1>6 DEF Unwind

DeletedOnceInv == LoneInv /\ OnceInv /\ fault # "double_free"

LEMMA InitOnce == Init => DeletedOnceInv
<1>. SUFFICES ASSUME Init PROVE DeletedOnceInv
  OBVIOUS
<1>1. Heights(Tower) = {} /\ \A a \in Addr : qt[a] = NoQt
  BY ThreadAssumption DEF Init, Tower, Heights
<1>2. UserLow /\ Shelter /\ ChainOk /\ TargetOk
  BY <1>1 DEF UserLow, Shelter, ChainOk, TargetOk
<1>3. DyingOk
  BY <1>1 DEF DyingOk, Dying, NoQt
<1>4. TreeOk
  <2>1. \A a \in Addr : qt[a].parent = None
    BY <1>1 DEF NoQt
  <2>. QED  BY <2>1, NoneAssumption DEF TreeOk
<1>5. fault # "double_free"
  BY NoneAssumption DEF Init, Faults
<1>. QED  BY <1>2, <1>3, <1>4, <1>5, InitLoneInv DEF DeletedOnceInv, OnceInv

LEMMA StepOnce ==
    ASSUME MutedProgram, DeletedOnceInv, [Next]_vars
    PROVE  DeletedOnceInv'
<1>1. LoneProgram /\ LoneInv /\ Ground /\ OnceInv /\ fault # "double_free"
  BY DEF MutedProgram, DeletedOnceInv, LoneInv
<1>2. LoneInv' /\ TypeOK'
  <2>1. LoneInv'
    BY <1>1, StepLone
  <2>. QED  BY <2>1 DEF LoneInv, Ground
<1>3. CASE UNCHANGED vars
  <2>1. OnceInv' /\ fault' = fault
    BY <1>1, <1>3, IdleOnce DEF vars
  <2>. QED  BY <1>1, <1>2, <2>1 DEF DeletedOnceInv
<1>4. CASE Next
  <2>1. Unwind(GuiThread) \/ QtActs(GuiThread) \/ ProgramActs(GuiThread)
    BY <1>1, <1>4 DEF Next, LoneProgram
  <2>2. OnceInv'
    BY <1>1, <1>2, <2>1, UnwindOnce, ActsOnce
  <2>3. fault' # "double_free"
    <3>1. CASE QtDestroy(GuiThread)
      BY <1>1, <1>2, <3>1, QtDestroyOnce
    <3>2. CASE ~QtDestroy(GuiThread)
      BY <1>1, <2>1, <3>2, OnlyDestroyAborts
    <3>. QED  BY <3>1, <3>2
  <2>. QED  BY <1>2, <2>2, <2>3 DEF DeletedOnceInv
<1>. QED  BY <1>3, <1>4

\* A program whose destructors leave other objects alone is safe in memory:
\* on top of NothingUsedAfterFree, no Qt object is deleted twice, by whatever
\* chain of parents, wrappers, windows and deleteLater() its destructor is
\* reached.
THEOREM AlwaysMemorySafe == ASSUME MutedProgram PROVE Spec => []MemorySafe
<1>1. DeletedOnceInv /\ [Next]_vars => DeletedOnceInv'
  BY StepOnce
<1>2. DeletedOnceInv => MemorySafe
  BY NoneAssumption DEF DeletedOnceInv, LoneInv, Mild, MemorySafe, Faults
<1>. QED  BY <1>1, <1>2, InitOnce, PTL DEF Spec
=============================================================================
