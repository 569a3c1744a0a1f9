------------------------ MODULE DynamicSignalsProofs ------------------------
(***************************************************************************)
(* Proofs about DynamicSignals, for every set of objects and signatures,   *)
(* every Qt class and all bounds: the state keeps its type, the table of   *)
(* dynamic methods and its indices describe each other, and, as long as no *)
(* object is wrapped anew while old connections lead to it, a call that Qt *)
(* makes finds its method and the tables implement connections by name.    *)
(***************************************************************************)
EXTENDS DynamicSignals, SequenceTheorems, TLAPS

-----------------------------------------------------------------------------
(* Indices *)

\* What indexOf() returns is -1 or the place of the method.
LEMMA IndexType ==
    /\ methodCount \in Nat
    /\ \A m : /\ indexOf(m) \in -1..(methodCount - 1)
              /\ indexOf(m) >= 0 => Static[indexOf(m) + 1] = m
<1>1. methodCount \in Nat /\ DOMAIN Static = 1..methodCount
  BY StaticAssumption DEF methodCount
<1>2. ASSUME NEW m
      PROVE  /\ indexOf(m) \in -1..(methodCount - 1)
             /\ indexOf(m) >= 0 => Static[indexOf(m) + 1] = m
  <2>1. CASE \E i \in DOMAIN Static : Static[i] = m
    <3>. DEFINE j == CHOOSE i \in DOMAIN Static : Static[i] = m
    <3>1. j \in 1..methodCount /\ Static[j] = m
      BY <1>1, <2>1
    <3>2. indexOf(m) = j - 1
      BY <2>1 DEF indexOf
    <3>. HIDE DEF j
    <3>. QED  BY <1>1, <3>1, <3>2
  <2>2. CASE ~ \E i \in DOMAIN Static : Static[i] = m
    BY <1>1, <2>2 DEF indexOf
  <2>. QED  BY <2>1, <2>2
<1>. QED  BY <1>1, <1>2

\* An index that is looked up leads to a method of Qt or into the list.
LEMMA SignalIndexType ==
    ASSUME TablesOK, NEW o \in Object, NEW s \in Name
    PROVE  /\ Len(methodList[o]) \in Nat
           /\ getSignalIndex(o, s) \in -1..(methodCount + Len(methodList[o]) - 1)
<1>1. Len(methodList[o]) \in Nat
  BY DEF TablesOK
<1>2. signalIndices[o][s] \in -1..(Len(methodList[o]) - 1)
  BY DEF TablesOK
<1>3. methodCount \in Nat /\ indexOf(Signal(s)) \in -1..(methodCount - 1)
  BY IndexType
<1>. QED  BY <1>1, <1>2, <1>3 DEF getSignalIndex

\* The same for slots, where the next place is promised to a new slot.
LEMMA SlotIndexType ==
    ASSUME TablesOK, NEW o \in Object, NEW s \in Name
    PROVE  /\ getSlotIndex(o, s) \in -1..(methodCount + Len(methodList[o]))
           /\ ~NeedsSlot(o, s) =>
                getSlotIndex(o, s) < methodCount + Len(methodList[o])
<1>1. Len(methodList[o]) \in Nat
  BY DEF TablesOK
<1>2. slotIndices[o][s] \in -1..(Len(methodList[o]) - 1)
  BY DEF TablesOK
<1>3. methodCount \in Nat /\ indexOf(Slot(s)) \in -1..(methodCount - 1)
  BY IndexType
<1>4. CASE slotIndices[o][s] >= 0
  <2>1. getSlotIndex(o, s) = slotIndices[o][s] + methodCount
    BY <1>4 DEF getSlotIndex
  <2>2. /\ slotIndices[o][s] \in Nat /\ methodCount \in Nat
        /\ slotIndices[o][s] < Len(methodList[o])
    BY <1>1, <1>2, <1>3, <1>4
  <2>. QED  BY <1>1, <2>1, <2>2
<1>5. CASE ~(slotIndices[o][s] >= 0) /\ NeedsSlot(o, s)
  <2>1. getSlotIndex(o, s) = Len(methodList[o]) + methodCount
    BY <1>5 DEF getSlotIndex
  <2>. QED  BY <1>1, <1>3, <1>5, <2>1
<1>6. CASE ~(slotIndices[o][s] >= 0) /\ ~NeedsSlot(o, s)
  <2>1. getSlotIndex(o, s) = indexOf(Slot(s))
    BY <1>6 DEF getSlotIndex
  <2>. QED  BY <1>1, <1>3, <2>1
<1>. QED  BY <1>4, <1>5, <1>6

\* An index within bounds stands for a member.
LEMMA MemberOfType ==
    ASSUME TablesOK, NEW o \in Object, NEW id \in Nat,
           id < methodCount + Len(methodList[o])
    PROVE  MemberOf(o, id) \in Member
<1>1. methodCount \in Nat
  BY IndexType
<1>2. CASE id < methodCount
  <2>1. id + 1 \in 1..Len(Static)
    BY <1>1, <1>2 DEF methodCount
  <2>. QED  BY <1>2, <2>1, StaticAssumption DEF MemberOf
<1>3. CASE ~(id < methodCount)
  <2>1. methodList[o] \in Seq(Member)
    BY DEF TablesOK
  <2>2. id - methodCount + 1 \in 1..Len(methodList[o])
    BY <1>1, <1>3, <2>1
  <2>. QED  BY <1>3, <2>1, <2>2 DEF MemberOf
<1>. QED  BY <1>2, <1>3

-----------------------------------------------------------------------------
(* Calls *)

\* An emission is a call.
LEMMA ActivationType ==
    ASSUME TypeOK, NEW o \in Object, NEW id \in Nat,
           id < methodCount + Len(methodList[o])
    PROVE  Activation(o, id) \in Call
<1>1. MemberOf(o, id) \in Member
  BY MemberOfType DEF TypeOK
<1>2. Connected(o, id) \in SUBSET Connection
  BY DEF Connected, TypeOK
<1>. QED  BY <1>1, <1>2 DEF Activation, Frame, Call

\* What Qt calls without a fault is a call, and what it serves is connected.
LEMMA MetacallType ==
    ASSUME TypeOK, NEW o \in Object, NEW id \in Nat, MetacallFault(o, id) = None
    PROVE  Metacall(o, id) \in Call /\ Metacall(o, id).rest \subseteq conns
<1>1. methodCount \in Nat /\ Len(methodList[o]) \in Nat
  BY IndexType DEF TypeOK, TablesOK
<1>2. ASSUME NEW i \in Nat
      PROVE  Activation(o, i).rest \subseteq conns
  BY DEF Activation, Frame, Connected
<1>3. ASSUME NEW op \in {"builtin", "slot"}, NEW m \in Member \cup {None}
      PROVE  Frame(op, o, m, {}) \in Call /\ Frame(op, o, m, {}).rest \subseteq conns
  BY DEF Frame, Call
<1>4. CASE id < methodCount
  <2>1. id + 1 \in 1..Len(Static)
    BY <1>1, <1>4 DEF methodCount
  <2>2. Static[id + 1] \in Member
    BY <2>1, StaticAssumption
  <2>3. Activation(o, id) \in Call
    BY <1>1, <1>4, ActivationType
  <2>. QED  BY <1>2, <1>3, <1>4, <2>2, <2>3 DEF Metacall
<1>5. CASE ~(id < methodCount) /\ ~Reacts(o)
  BY <1>3, <1>5 DEF Metacall
<1>6. CASE ~(id < methodCount) /\ Reacts(o)
  <2>. DEFINE i == TableIndex(id)
              m == methodList[o][i + 1]
  <2>1. ~(i + 1 > Len(methodList[o]))
    BY <1>1, <1>6, NoneAssumption DEF MetacallFault, Faults
  <2>2. i \in Nat /\ i = id - methodCount
    BY <1>1, <1>6 DEF TableIndex
  <2>3. i + 1 \in 1..Len(methodList[o])
    BY <1>1, <2>1, <2>2
  <2>4. methodList[o] \in Seq(Member)
    BY DEF TypeOK, TablesOK
  <2>5. m \in Member
    BY <2>3, <2>4
  <2>6. RelayId(i) = id
    BY <1>1, <2>2 DEF RelayId
  <2>7. Activation(o, id) \in Call
    BY <1>1, <2>2, <2>3, ActivationType
  <2>8. Metacall(o, id) = IF m.kind = "signal" THEN Activation(o, RelayId(i))
                          ELSE Frame("slot", o, m, {})
    BY <1>6 DEF Metacall
  <2>. HIDE DEF i, m
  <2>. QED  BY <1>2, <1>3, <2>5, <2>6, <2>7, <2>8
<1>. QED  BY <1>4, <1>5, <1>6

-----------------------------------------------------------------------------
(* Tables *)

Fits(list, signals, slots) ==
    /\ list \in Seq(Member)
    /\ signals \in [Name -> Int] /\ slots \in [Name -> Int]
    /\ \A s \in Name : /\ signals[s] \in -1..(Len(list) - 1)
                       /\ slots[s] \in -1..(Len(list) - 1)

TablesSound == TablesOK /\ IndicesSound

\* An empty table is sound.
LEMMA EmptyTable ==
    Fits(<<>>, NoIndices, NoIndices) /\ Describe(<<>>, NoIndices, NoIndices)
<1>1. Fits(<<>>, NoIndices, NoIndices)
  BY DEF Fits, NoIndices
<1>2. Describe(<<>>, NoIndices, NoIndices)
  BY DEF Describe, NoIndices
<1>. QED  BY <1>1, <1>2

\* createSignal() keeps a table sound.
LEMMA SignalAdded ==
    ASSUME NEW list, NEW signals, NEW slots, NEW s \in Name,
           Fits(list, signals, slots), Describe(list, signals, slots),
           signals[s] < 0
    PROVE  LET longer == Append(list, Signal(s))
               more == [signals EXCEPT ![s] = Len(list)]
           IN  Fits(longer, more, slots) /\ Describe(longer, more, slots)
<1>. DEFINE longer == Append(list, Signal(s))
            more == [signals EXCEPT ![s] = Len(list)]
<1>1. /\ list \in Seq(Member) /\ signals \in [Name -> Int] /\ slots \in [Name -> Int]
      /\ Len(list) \in Nat
  BY DEF Fits
<1>2. Signal(s) \in Member /\ Signal(s).kind = "signal" /\ Signal(s).name = s
  BY DEF Signal, Member
<1>3. /\ longer \in Seq(Member) /\ Len(longer) = Len(list) + 1
      /\ longer[Len(list) + 1] = Signal(s)
      /\ \A i \in 1..Len(list) : longer[i] = list[i]
  BY <1>1, <1>2
<1>4. /\ more \in [Name -> Int] /\ more[s] = Len(list)
      /\ \A t \in Name \ {s} : more[t] = signals[t]
  BY <1>1
<1>5. Fits(longer, more, slots)
  BY <1>1, <1>3, <1>4 DEF Fits
<1>6. ASSUME NEW t \in Name
      PROVE  /\ more[t] >= 0 => longer[more[t] + 1] = Signal(t)
             /\ slots[t] >= 0 => longer[slots[t] + 1] = Method(t)
  <2>1. /\ signals[t] \in -1..(Len(list) - 1) /\ slots[t] \in -1..(Len(list) - 1)
        /\ signals[t] >= 0 => list[signals[t] + 1] = Signal(t)
        /\ slots[t] >= 0 => list[slots[t] + 1] = Method(t)
    BY DEF Fits, Describe
  <2>. QED  BY <1>1, <1>3, <1>4, <2>1
<1>7. ASSUME NEW i \in DOMAIN longer
      PROVE  i - 1 = IF longer[i].kind = "signal" THEN more[longer[i].name]
                     ELSE slots[longer[i].name]
  <2>1. CASE i = Len(list) + 1
    BY <1>1, <1>2, <1>3, <1>4, <2>1
  <2>2. CASE i \in 1..Len(list)
    <3>1. list[i] \in Member /\ list[i].name \in Name
      <4>1. list[i] \in Member
        BY <1>1, <2>2
      <4>. QED  BY <4>1 DEF Member
    <3>2. i - 1 = IF list[i].kind = "signal" THEN signals[list[i].name]
                  ELSE slots[list[i].name]
      BY <1>1, <2>2 DEF Describe
    <3>3. list[i].kind = "signal" => list[i].name # s
      BY <2>2, <3>2
    <3>. QED  BY <1>3, <1>4, <2>2, <3>1, <3>2, <3>3
  <2>. QED  BY <1>1, <1>3, <2>1, <2>2
<1>8. Describe(longer, more, slots)
  BY <1>6, <1>7 DEF Describe
<1>. QED  BY <1>5, <1>8

\* A slot that connect() adds keeps a table sound.
LEMMA SlotAdded ==
    ASSUME NEW list, NEW signals, NEW slots, NEW s \in Name,
           Fits(list, signals, slots), Describe(list, signals, slots),
           slots[s] < 0
    PROVE  LET longer == Append(list, Method(s))
               more == [slots EXCEPT ![s] = Len(list)]
           IN  Fits(longer, signals, more) /\ Describe(longer, signals, more)
<1>. DEFINE longer == Append(list, Method(s))
            more == [slots EXCEPT ![s] = Len(list)]
<1>1. /\ list \in Seq(Member) /\ signals \in [Name -> Int] /\ slots \in [Name -> Int]
      /\ Len(list) \in Nat
  BY DEF Fits
<1>2. Method(s) \in Member /\ Method(s).kind # "signal" /\ Method(s).name = s
  BY DEF Method, Member
<1>3. /\ longer \in Seq(Member) /\ Len(longer) = Len(list) + 1
      /\ longer[Len(list) + 1] = Method(s)
      /\ \A i \in 1..Len(list) : longer[i] = list[i]
  BY <1>1, <1>2
<1>4. /\ more \in [Name -> Int] /\ more[s] = Len(list)
      /\ \A t \in Name \ {s} : more[t] = slots[t]
  BY <1>1
<1>5. Fits(longer, signals, more)
  BY <1>1, <1>3, <1>4 DEF Fits
<1>6. ASSUME NEW t \in Name
      PROVE  /\ signals[t] >= 0 => longer[signals[t] + 1] = Signal(t)
             /\ more[t] >= 0 => longer[more[t] + 1] = Method(t)
  <2>1. /\ signals[t] \in -1..(Len(list) - 1) /\ slots[t] \in -1..(Len(list) - 1)
        /\ signals[t] >= 0 => list[signals[t] + 1] = Signal(t)
        /\ slots[t] >= 0 => list[slots[t] + 1] = Method(t)
    BY DEF Fits, Describe
  <2>. QED  BY <1>1, <1>3, <1>4, <2>1
<1>7. ASSUME NEW i \in DOMAIN longer
      PROVE  i - 1 = IF longer[i].kind = "signal" THEN signals[longer[i].name]
                     ELSE more[longer[i].name]
  <2>1. CASE i = Len(list) + 1
    BY <1>1, <1>2, <1>3, <1>4, <2>1
  <2>2. CASE i \in 1..Len(list)
    <3>1. list[i] \in Member /\ list[i].name \in Name
      <4>1. list[i] \in Member
        BY <1>1, <2>2
      <4>. QED  BY <4>1 DEF Member
    <3>2. i - 1 = IF list[i].kind = "signal" THEN signals[list[i].name]
                  ELSE slots[list[i].name]
      BY <1>1, <2>2 DEF Describe
    <3>3. list[i].kind # "signal" => list[i].name # s
      BY <2>2, <3>2
    <3>. QED  BY <1>3, <1>4, <2>2, <3>1, <3>2, <3>3
  <2>. QED  BY <1>1, <1>3, <2>1, <2>2
<1>8. Describe(longer, signals, more)
  BY <1>6, <1>7 DEF Describe
<1>. QED  BY <1>5, <1>8

\* A table that is replaced by a sound one leaves the tables sound.
LEMMA TableReplaced ==
    ASSUME TablesSound, NEW o \in Object,
           NEW STATE list, NEW STATE signals, NEW STATE slots,
           Fits(list, signals, slots), Describe(list, signals, slots),
           Table(o, list, signals, slots)
    PROVE  TablesSound'
<1>1. /\ methodList' = [methodList EXCEPT ![o] = list]
      /\ signalIndices' = [signalIndices EXCEPT ![o] = signals]
      /\ slotIndices' = [slotIndices EXCEPT ![o] = slots]
  BY DEF Table
<1>2. \A p \in Object :
         IF p = o THEN methodList'[p] = list /\ signalIndices'[p] = signals
                       /\ slotIndices'[p] = slots
         ELSE methodList'[p] = methodList[p] /\ signalIndices'[p] = signalIndices[p]
              /\ slotIndices'[p] = slotIndices[p]
  BY <1>1 DEF TablesSound, TablesOK
<1>3. TablesOK'
  BY <1>1, <1>2 DEF TablesSound, TablesOK, Fits
<1>4. IndicesSound'
  BY <1>2 DEF TablesSound, IndicesSound
<1>. QED  BY <1>3, <1>4 DEF TablesSound

\* The table of an object of a sound state.
LEMMA TableOf ==
    ASSUME TablesSound, NEW o \in Object
    PROVE  /\ Fits(methodList[o], signalIndices[o], slotIndices[o])
           /\ Describe(methodList[o], signalIndices[o], slotIndices[o])
  BY DEF TablesSound, TablesOK, IndicesSound, Fits

LEMMA DropSound ==
    ASSUME TablesSound, NEW o \in Object, DropTable(o) PROVE TablesSound'
  BY EmptyTable, TableReplaced DEF DropTable
LEMMA CreateSignalSound ==
    ASSUME TablesSound, NEW o \in Object, NEW s \in Name, createSignal(o, s)
    PROVE  TablesSound'
<1>. DEFINE list == Append(methodList[o], Signal(s))
            signals == [signalIndices[o] EXCEPT ![s] = Len(methodList[o])]
<1>1. Table(o, list, signals, slotIndices[o]) /\ signalIndices[o][s] < 0
  BY DEF createSignal
<1>2. Fits(list, signals, slotIndices[o]) /\ Describe(list, signals, slotIndices[o])
  BY <1>1, TableOf, SignalAdded
<1>. HIDE DEF list, signals
<1>. QED  BY <1>1, <1>2, TableReplaced
LEMMA AddSlotSound ==
    ASSUME TablesSound, NEW o \in Object, NEW s \in Name,
           NeedsSlot(o, s), AddSlot(o, s)
    PROVE  TablesSound'
<1>. DEFINE list == Append(methodList[o], Method(s))
            slots == [slotIndices[o] EXCEPT ![s] = Len(methodList[o])]
<1>1. Table(o, list, signalIndices[o], slots) /\ slotIndices[o][s] < 0
  BY DEF AddSlot, NeedsSlot
<1>2. Fits(list, signalIndices[o], slots) /\ Describe(list, signalIndices[o], slots)
  BY <1>1, TableOf, SlotAdded
<1>. HIDE DEF list, slots
<1>. QED  BY <1>1, <1>2, TableReplaced

-----------------------------------------------------------------------------
(* What a step does to the connections that are still to be served *)

Rests(frames) == UNION {frames[i].rest : i \in DOMAIN frames}

\* A call that is pushed.
LEMMA Pushed ==
    ASSUME NEW s \in Seq(Call), NEW f \in Call
    PROVE  <<f>> \o s \in Seq(Call) /\ Rests(<<f>> \o s) \subseteq f.rest \cup Rests(s)
<1>. DEFINE t == <<f>> \o s
<1>1. t \in Seq(Call) /\ Len(t) = Len(s) + 1 /\ Len(s) \in Nat
  OBVIOUS
<1>2. t[1] = f /\ \A i \in 2..Len(t) : t[i] = s[i - 1]
  OBVIOUS
<1>3. ASSUME NEW i \in DOMAIN t PROVE t[i].rest \subseteq f.rest \cup Rests(s)
  <2>1. CASE i = 1
    BY <1>2, <2>1
  <2>2. CASE i \in 2..Len(t)
    <3>1. i - 1 \in DOMAIN s
      BY <1>1, <2>2
    <3>. QED  BY <1>2, <2>2, <3>1 DEF Rests
  <2>. QED  BY <1>1, <2>1, <2>2
<1>. QED  BY <1>1, <1>3 DEF Rests

\* A call that returns.
LEMMA Popped ==
    ASSUME NEW s \in Seq(Call), s # <<>>
    PROVE  /\ Tail(s) \in Seq(Call) /\ Rests(Tail(s)) \subseteq Rests(s)
           /\ Head(s) \in Call /\ Head(s).rest \subseteq Rests(s)
<1>. DEFINE t == Tail(s)
<1>1. /\ t \in Seq(Call) /\ Len(t) = Len(s) - 1 /\ Len(s) \in Nat /\ Len(s) > 0
      /\ \A i \in 1..Len(t) : t[i] = s[i + 1]
  OBVIOUS
<1>2. ASSUME NEW i \in DOMAIN t PROVE t[i].rest \subseteq Rests(s)
  <2>1. i + 1 \in DOMAIN s /\ t[i] = s[i + 1]
    BY <1>1
  <2>. QED  BY <2>1 DEF Rests
<1>3. Head(s) \in Call /\ 1 \in DOMAIN s /\ Head(s) = s[1]
  BY <1>1
<1>4. Head(s).rest \subseteq Rests(s)
  BY <1>3 DEF Rests
<1>. QED  BY <1>1, <1>2, <1>3, <1>4 DEF Rests

\* Calls that lose some of the connections they have to serve.
LEMMA Trimmed ==
    ASSUME NEW s \in Seq(Call), NEW o
    PROVE  Trim(o, s) \in Seq(Call) /\ Rests(Trim(o, s)) \subseteq Rests(s)
<1>. DEFINE keep(i) == IF s[i].o = o THEN {} ELSE {c \in s[i].rest : c.receiver # o}
            t == [i \in DOMAIN s |-> [s[i] EXCEPT !.rest = keep(i)]]
<1>1. ASSUME NEW i \in DOMAIN s
      PROVE  [s[i] EXCEPT !.rest = keep(i)] \in Call /\ keep(i) \subseteq s[i].rest
             /\ [s[i] EXCEPT !.rest = keep(i)].rest = keep(i)
  <2>1. s[i] \in Call
    OBVIOUS
  <2>2. keep(i) \subseteq s[i].rest
    OBVIOUS
  <2>. QED  BY <2>1, <2>2 DEF Call
<1>2. t \in Seq(Call)
  BY <1>1
<1>3. Rests(t) \subseteq Rests(s)
  BY <1>1 DEF Rests
<1>4. Trim(o, s) = t
  BY DEF Trim
<1>. QED  BY <1>2, <1>3, <1>4

\* Everything a step may do to connections without making one.
Shrinks ==
    /\ conns' \subseteq conns /\ serial' = serial
    /\ posted' \subseteq [k : Nat, c : Connection]
    /\ {e.c : e \in posted'} \subseteq Pending
    /\ stack' \in Seq(Call) /\ Rests(stack') \subseteq Pending

LEMMA PendingIs ==
    Pending = conns \cup {e.c : e \in posted} \cup Rests(stack)
  BY DEF Pending, Rests

LEMMA StillShrinks ==
    ASSUME TypeOK, UNCHANGED <<conns, serial, stack, posted>>
    PROVE  Shrinks
  BY PendingIs DEF TypeOK, Shrinks

LEMMA PushShrinks ==
    ASSUME TypeOK, NEW STATE f, f \in Call, f.rest \subseteq Pending, Push(f),
           posted' \subseteq posted, UNCHANGED <<conns, serial>>
    PROVE  Shrinks
<1>1. stack' = <<f>> \o stack /\ stack \in Seq(Call)
  BY DEF Push, TypeOK
<1>2. stack' \in Seq(Call) /\ Rests(stack') \subseteq f.rest \cup Rests(stack)
  BY <1>1, Pushed
<1>. QED  BY <1>2, PendingIs DEF TypeOK, Shrinks

\* A destructor or a callback ends in another call that serves nothing.
LEMMA EndingType ==
    ASSUME TypeOK, NEW op \in {"activate", "slot", "builtin", "deleted", "destructor"},
           stack # <<>>
    PROVE  /\ Top \in Call
           /\ Ending(op) \in Seq(Call) /\ Rests(Ending(op)) \subseteq Rests(stack)
<1>1. /\ Top \in Call /\ Tail(stack) \in Seq(Call)
      /\ Rests(Tail(stack)) \subseteq Rests(stack)
  BY Popped DEF TypeOK, Top
<1>2. Frame(op, Top.o, None, {}) \in Call /\ Frame(op, Top.o, None, {}).rest = {}
  BY <1>1 DEF Frame, Call
<1>. QED  BY <1>1, <1>2, Pushed DEF Ending

LEMMA EndShrinks ==
    ASSUME TypeOK, NEW op \in {"activate", "slot", "builtin", "deleted", "destructor"},
           stack # <<>>, stack' = Ending(op), UNCHANGED <<conns, serial, posted>>
    PROVE  Shrinks
  BY EndingType, PendingIs DEF TypeOK, Shrinks

LEMMA DisconnectShrinks ==
    ASSUME TypeOK, NEW o, NEW STATE frames, frames \in Seq(Call),
           Rests(frames) \subseteq Rests(stack), Disconnect(o, frames), serial' = serial
    PROVE  Shrinks
<1>1. conns' \subseteq conns /\ posted' \subseteq posted /\ stack' = Trim(o, frames)
  BY DEF Disconnect
<1>2. stack' \in Seq(Call) /\ Rests(stack') \subseteq Rests(frames)
  BY <1>1, Trimmed
<1>. QED  BY <1>1, <1>2, PendingIs DEF TypeOK, Shrinks

-----------------------------------------------------------------------------
(* The inductive invariant *)

\* A call of the object that a connection leads to will find its method.
Finds(c) ==
    /\ obj[c.receiver] # "new"
    /\ c.tid >= methodCount /\ Reacts(c.receiver) =>
          c.tid - methodCount < Len(methodList[c.receiver])

IInv == TypeOK /\ IndicesSound
AllFound == \A c \in Pending : Finds(c)

\* Objects that connections may lead to stay, lose their table for good, or
\* get longer ones.
Steady ==
    \A p \in Object :
        \/ obj[p] = "new"
        \/ /\ obj'[p] # "new"
           /\ \/ Speaks(p)' =>
                    Speaks(p) /\ Len(methodList[p]) <= Len(methodList'[p])
              \/ StaleLinks = FALSE => ~Stale(p)

LEMMA PendingType == TypeOK => Pending \subseteq Connection
<1>. SUFFICES ASSUME TypeOK PROVE Pending \subseteq Connection
  OBVIOUS
<1>1. \A i \in DOMAIN stack : stack[i] \in Call
  BY DEF TypeOK
<1>2. \A i \in DOMAIN stack : stack[i].rest \subseteq Connection
  BY <1>1 DEF Call
<1>3. Rests(stack) \subseteq Connection
  BY <1>2 DEF Rests
<1>. QED  BY <1>3, PendingIs DEF TypeOK

\* What a step must do to keep the invariant.
LEMMA StepKeeps ==
    ASSUME IInv, Shrinks, TablesSound', obj' \in [Object -> Status],
           fault' \in Faults \cup {None}
    PROVE  IInv'
  BY DEF IInv, TypeOK, Shrinks, TablesSound

LEMMA StepFinds ==
    ASSUME IInv, IInv', Shrinks, Steady, AllFound, StaleLinks = FALSE
    PROVE  AllFound'
<1>. SUFFICES ASSUME NEW c \in Pending' PROVE Finds(c)'
  BY DEF AllFound
<1>1. Pending' = conns' \cup {e.c : e \in posted'} \cup Rests(stack')
  BY DEF Pending, Rests
<1>2. c \in Pending /\ Finds(c)
  BY <1>1 DEF Shrinks, AllFound, Pending
<1>3. c \in Connection /\ c.receiver \in Object /\ c.tid \in Nat
  BY <1>2, PendingType DEF IInv, Connection
<1>4. methodCount \in Nat /\ Len(methodList[c.receiver]) \in Nat
      /\ Len(methodList'[c.receiver]) \in Nat
  BY <1>3, IndexType DEF IInv, TypeOK, TablesOK
<1>5. obj'[c.receiver] # "new"
  BY <1>2, <1>3 DEF Steady, Finds
<1>6. ASSUME c.tid >= methodCount, Reacts(c.receiver)'
      PROVE  c.tid - methodCount < Len(methodList'[c.receiver])
  <2>1. Stale(c.receiver)
    BY <1>2, <1>6 DEF Stale
  <2>2. Reacts(c.receiver) /\ Len(methodList[c.receiver]) <= Len(methodList'[c.receiver])
    BY <1>2, <1>3, <1>6, <2>1 DEF Steady, Finds, Reacts, Speaks
  <2>. QED  BY <1>2, <1>3, <1>4, <1>6, <2>2 DEF Finds
<1>. QED  BY <1>5, <1>6 DEF Finds, Reacts, Speaks

-----------------------------------------------------------------------------
(* The steps that make no connection *)

Keeps ==
    /\ Shrinks /\ TablesSound' /\ Steady
    /\ obj' \in [Object -> Status] /\ fault' \in Faults \cup {None}

LEMMA SameTables ==
    ASSUME IInv, UNCHANGED tables PROVE TablesSound'
  BY DEF IInv, TypeOK, tables, TablesSound, TablesOK, IndicesSound

LEMMA Lengths ==
    ASSUME IInv PROVE \A p \in Object : Len(methodList[p]) \in Nat
  BY DEF IInv, TypeOK, TablesOK

LEMMA SameObjects ==
    ASSUME IInv, UNCHANGED <<obj, tables>> PROVE Steady
<1>1. ASSUME NEW p \in Object, obj[p] # "new"
      PROVE  /\ obj'[p] # "new" /\ Speaks(p)' = Speaks(p)
             /\ Len(methodList[p]) <= Len(methodList'[p])
  BY <1>1, Lengths DEF tables, Speaks
<1>. QED  BY <1>1 DEF Steady

\* a step that only moves calls about
LEMMA CallStep ==
    ASSUME IInv, Shrinks, UNCHANGED <<obj, tables, fault>> PROVE Keeps
  BY SameTables, SameObjects DEF IInv, TypeOK, Keeps

LEMMA AbortKeeps ==
    ASSUME IInv, NEW STATE f, f \in Faults, Abort(f) PROVE Keeps
<1>1. UNCHANGED <<obj, tables>> /\ UNCHANGED <<conns, serial, stack, posted>> /\ fault' = f
  BY DEF Abort
<1>. QED  BY <1>1, SameTables, SameObjects, StillShrinks DEF IInv, TypeOK, Keeps

LEMMA createSignalKeeps ==
    ASSUME IInv, NEW o \in Object, NEW s \in Name, createSignal(o, s) PROVE Keeps
<1>1. TablesSound'
  BY CreateSignalSound DEF IInv, TypeOK, TablesSound
<1>2. UNCHANGED <<obj, conns, serial, stack, posted, fault>>
  BY DEF createSignal
<1>3. methodList' = [methodList EXCEPT ![o] = Append(methodList[o], Signal(s))]
  BY DEF createSignal, Table
<1>4. ASSUME NEW p \in Object
      PROVE  Len(methodList[p]) <= Len(methodList'[p])
  <2>1. methodList[p] \in Seq(Member) /\ methodList \in [Object -> Seq(Member)]
    BY DEF IInv, TypeOK, TablesOK
  <2>. QED  BY <1>3, <2>1
<1>5. Steady
  BY <1>2, <1>4 DEF Steady, Speaks
<1>. QED  BY <1>1, <1>2, <1>5, StillShrinks DEF IInv, TypeOK, Keeps

LEMMA emitSignalKeeps ==
    ASSUME IInv, NEW o \in Object, NEW s \in Name, emitSignal(o, s) PROVE Keeps
<1>1. CASE Abort("null_qobject")
  BY <1>1, AbortKeeps DEF Faults
<1>2. CASE /\ getSignalIndex(o, s) >= 0 /\ Push(Activation(o, getSignalIndex(o, s)))
           /\ UNCHANGED <<obj, tables, conns, serial, posted, fault>>
  <2>1. getSignalIndex(o, s) \in Nat
        /\ getSignalIndex(o, s) < methodCount + Len(methodList[o])
    BY <1>2, SignalIndexType, IndexType DEF IInv, TypeOK
  <2>2. Activation(o, getSignalIndex(o, s)) \in Call
    BY <2>1, ActivationType DEF IInv
  <2>3. Activation(o, getSignalIndex(o, s)).rest \subseteq Pending
    BY PendingIs DEF Activation, Frame, Connected
  <2>. QED  BY <1>2, <2>2, <2>3, PushShrinks, CallStep DEF IInv
<1>. QED  BY <1>1, <1>2 DEF emitSignal

LEMMA QtEmitKeeps ==
    ASSUME IInv, NEW o \in Object, NEW s \in Name, QtEmit(o, s) PROVE Keeps
<1>1. /\ indexOf(Signal(s)) >= 0 /\ Push(Activation(o, indexOf(Signal(s))))
      /\ UNCHANGED <<obj, tables, conns, serial, posted, fault>>
  BY DEF QtEmit
<1>2. indexOf(Signal(s)) \in Nat /\ indexOf(Signal(s)) < methodCount + Len(methodList[o])
  BY <1>1, IndexType, Lengths
<1>3. Activation(o, indexOf(Signal(s))) \in Call
  BY <1>2, ActivationType DEF IInv
<1>4. Activation(o, indexOf(Signal(s))).rest \subseteq Pending
  BY PendingIs DEF Activation, Frame, Connected
<1>. QED  BY <1>1, <1>3, <1>4, PushShrinks, CallStep DEF IInv

LEMMA emitFromThreadKeeps ==
    ASSUME IInv, NEW o \in Object, NEW s \in Name, emitFromThread(o, s) PROVE Keeps
<1>. DEFINE cs == Connected(o, getSignalIndex(o, s))
<1>1. PICK k \in 1..MaxPosted : posted' = posted \cup {[k |-> k, c |-> c] : c \in cs}
  BY DEF emitFromThread
<1>2. UNCHANGED <<obj, tables, conns, serial, stack, fault>>
  BY DEF emitFromThread
<1>3. cs \subseteq conns /\ cs \subseteq Connection /\ k \in Nat
  BY DEF Connected, IInv, TypeOK
<1>. HIDE DEF cs
<1>4. posted' \subseteq [k : Nat, c : Connection]
  BY <1>1, <1>3 DEF IInv, TypeOK
<1>5. {e.c : e \in posted'} \subseteq Pending
  BY <1>1, <1>3, PendingIs
<1>6. Shrinks
  BY <1>2, <1>4, <1>5, PendingIs DEF IInv, TypeOK, Shrinks
<1>. QED  BY <1>2, <1>6, CallStep

LEMMA ReturnKeeps ==
    ASSUME IInv, Return PROVE Keeps
<1>1. stack # <<>> /\ stack' = Tail(stack)
      /\ UNCHANGED <<obj, tables, conns, serial, posted, fault>>
  BY DEF Return, AtTop
<1>2. stack' \in Seq(Call) /\ Rests(stack') \subseteq Rests(stack)
  BY <1>1, Popped DEF IInv, TypeOK
<1>3. Shrinks
  BY <1>1, <1>2, PendingIs DEF IInv, TypeOK, Shrinks
<1>. QED  BY <1>1, <1>3, CallStep

-----------------------------------------------------------------------------
(* A call that Qt makes *)

\* A fault of handleSignal() would need a connection that is not found.
LEMMA FoundHandled ==
    ASSUME IInv, AllFound, NEW c \in Pending
    PROVE  MetacallFault(c.receiver, c.tid) # "handle_signal"
<1>1. c.receiver \in Object /\ c.tid \in Nat
  BY PendingType DEF IInv, Connection
<1>2. methodCount \in Nat /\ Len(methodList[c.receiver]) \in Nat
  BY <1>1, IndexType, Lengths
<1>3. c.tid >= methodCount /\ Reacts(c.receiver) =>
        c.tid - methodCount < Len(methodList[c.receiver])
  BY DEF AllFound, Finds
<1>4. None # "handle_signal"
  BY NoneAssumption DEF Faults
<1>. QED  BY <1>1, <1>2, <1>3, <1>4 DEF MetacallFault, TableIndex

LEMMA ActivateKeeps ==
    ASSUME IInv, Activate
    PROVE  Keeps /\ (AllFound /\ HandleAssertion => HandleAssertion')
<1>1. PICK c \in Top.rest :
        LET f == MetacallFault(c.receiver, c.tid)
        IN IF f # None THEN Abort(f)
           ELSE /\ stack' = <<Metacall(c.receiver, c.tid)>>
                              \o (<<[Top EXCEPT !.rest = @ \ {c}]>> \o Tail(stack))
                /\ UNCHANGED <<obj, tables, conns, serial, posted, fault>>
  BY DEF Activate
<1>. DEFINE f == MetacallFault(c.receiver, c.tid)
            call == Metacall(c.receiver, c.tid)
            rest == [Top EXCEPT !.rest = @ \ {c}]
<1>2. /\ stack # <<>> /\ Top \in Call /\ Top.rest \subseteq Rests(stack)
      /\ Tail(stack) \in Seq(Call) /\ Rests(Tail(stack)) \subseteq Rests(stack)
  BY Popped DEF Activate, AtTop, IInv, TypeOK, Top
<1>3. c \in Pending /\ c \in Connection /\ c.receiver \in Object /\ c.tid \in Nat
  BY <1>1, <1>2, PendingIs, PendingType DEF IInv, Connection
<1>4. CASE f # None
  <2>1. f \in Faults /\ Abort(f)
    BY <1>1, <1>4 DEF MetacallFault, Faults
  <2>2. AllFound => fault' # "handle_signal"
    BY <1>3, <2>1, FoundHandled DEF Abort
  <2>3. Keeps
    <3>. HIDE DEF f
    <3>. QED  BY <2>1, AbortKeeps
  <2>. QED  BY <2>2, <2>3 DEF HandleAssertion
<1>5. CASE f = None
  <2>1. stack' = <<call>> \o (<<rest>> \o Tail(stack))
        /\ UNCHANGED <<obj, tables, conns, serial, posted, fault>>
    BY <1>1, <1>5
  <2>2. call \in Call /\ call.rest \subseteq conns
    BY <1>3, <1>5, MetacallType DEF IInv
  <2>3. rest \in Call /\ rest.rest \subseteq Rests(stack)
    BY <1>2 DEF Call
  <2>4. <<rest>> \o Tail(stack) \in Seq(Call)
        /\ Rests(<<rest>> \o Tail(stack)) \subseteq Rests(stack)
    <3>. HIDE DEF rest
    <3>. QED  BY <1>2, <2>3, Pushed
  <2>5. stack' \in Seq(Call) /\ Rests(stack') \subseteq conns \cup Rests(stack)
    <3>. HIDE DEF rest, call
    <3>. QED  BY <2>1, <2>2, <2>4, Pushed
  <2>6. Shrinks
    BY <2>1, <2>5, PendingIs DEF IInv, TypeOK, Shrinks
  <2>. QED  BY <2>1, <2>6, CallStep DEF HandleAssertion
<1>. QED  BY <1>4, <1>5

LEMMA ProcessEventKeeps ==
    ASSUME IInv, ProcessEvent
    PROVE  Keeps /\ (AllFound /\ HandleAssertion => HandleAssertion')
<1>1. PICK e \in posted :
        LET f == MetacallFault(e.c.receiver, e.c.tid)
        IN IF f # None THEN Abort(f)
           ELSE /\ posted' = posted \ {e}
                /\ Push(Metacall(e.c.receiver, e.c.tid))
                /\ UNCHANGED <<obj, tables, conns, serial, fault>>
  BY DEF ProcessEvent
<1>. DEFINE f == MetacallFault(e.c.receiver, e.c.tid)
            call == Metacall(e.c.receiver, e.c.tid)
<1>2. e.c \in Pending
  BY PendingIs
<1>3. e.c \in Connection /\ e.c.receiver \in Object /\ e.c.tid \in Nat
  BY <1>2, PendingType DEF IInv, Connection
<1>4. CASE f # None
  <2>1. f \in Faults /\ Abort(f)
    BY <1>1, <1>4 DEF MetacallFault, Faults
  <2>2. AllFound => fault' # "handle_signal"
    BY <1>2, <2>1, FoundHandled DEF Abort
  <2>3. Keeps
    <3>. HIDE DEF f
    <3>. QED  BY <2>1, AbortKeeps
  <2>. QED  BY <2>2, <2>3 DEF HandleAssertion
<1>5. CASE f = None
  <2>1. posted' \subseteq posted /\ Push(call)
        /\ UNCHANGED <<obj, tables, conns, serial, fault>>
    BY <1>1, <1>5
  <2>2. call \in Call /\ call.rest \subseteq Pending
    BY <1>3, <1>5, MetacallType, PendingIs DEF IInv
  <2>. HIDE DEF call
  <2>3. Shrinks
    BY <2>1, <2>2, PushShrinks DEF IInv
  <2>. QED  BY <2>1, <2>3, CallStep DEF HandleAssertion
<1>. QED  BY <1>4, <1>5

-----------------------------------------------------------------------------
(* Objects come and go *)

\* A step that changes the state of one object, and perhaps drops its table.
LEMMA ObjectStep ==
    ASSUME IInv, Shrinks, NEW o \in Object, NEW st \in Status \ {"new"},
           obj' = [obj EXCEPT ![o] = st], fault' = fault,
           \/ UNCHANGED tables
           \/ DropTable(o) /\ st \in {"gone", "forgotten"},
           \/ obj[o] = "new"
           \/ st \in {"alive", "rewrapped", "deleting", "dying"} =>
                Speaks(o) \/ (StaleLinks = FALSE => ~Stale(o))
    PROVE  Keeps
<1>1. obj \in [Object -> Status] /\ methodList \in [Object -> Seq(Member)]
  BY DEF IInv, TypeOK, TablesOK
<1>2. TablesSound'
  BY SameTables, DropSound DEF IInv, TypeOK, TablesSound
<1>3. ASSUME NEW p \in Object, p # o
      PROVE  obj'[p] = obj[p] /\ methodList'[p] = methodList[p]
  BY <1>1, <1>3 DEF tables, DropTable, Table
<1>4. obj'[o] = st
  BY <1>1
<1>5. st \notin {"gone", "forgotten"} => methodList' = methodList
  BY DEF tables
<1>6. ASSUME NEW p \in Object, p # o, obj[p] # "new"
      PROVE  /\ obj'[p] # "new" /\ Speaks(p)' = Speaks(p)
             /\ Len(methodList[p]) <= Len(methodList'[p])
  BY <1>3, <1>6, Lengths DEF Speaks
<1>7. ASSUME obj[o] # "new"
      PROVE  /\ obj'[o] # "new"
             /\ \/ Speaks(o)' =>
                      Speaks(o) /\ Len(methodList[o]) <= Len(methodList'[o])
                \/ StaleLinks = FALSE => ~Stale(o)
  BY <1>4, <1>5, <1>7, Lengths DEF Speaks
<1>8. Steady
  BY <1>6, <1>7 DEF Steady
<1>. QED  BY <1>1, <1>2, <1>8 DEF IInv, TypeOK, Keeps, Status

LEMMA CreateKeeps ==
    ASSUME IInv, NEW o \in Object, Create(o) PROVE Keeps
<1>1. Shrinks
  BY StillShrinks DEF Create, IInv
<1>. QED  BY <1>1, ObjectStep DEF Create, Status

LEMMA DestructorPushed ==
    ASSUME IInv, NEW o \in Object, NEW op \in {"destructor", "deleted"},
           Push(Frame(op, o, None, {})), UNCHANGED <<conns, serial, posted>>
    PROVE  Shrinks
<1>1. Frame(op, o, None, {}) \in Call /\ Frame(op, o, None, {}).rest \subseteq Pending
  BY DEF Frame, Call
<1>. QED  BY <1>1, PushShrinks DEF IInv

LEMMA DeleteKeeps ==
    ASSUME IInv, NEW o \in Object, Delete(o) PROVE Keeps
<1>1. Shrinks
  BY DestructorPushed DEF Delete
<1>. QED  BY <1>1, ObjectStep DEF Delete, Status, Speaks

LEMMA QtDeleteKeeps ==
    ASSUME IInv, NEW o \in Object, QtDelete(o) PROVE Keeps
<1>1. Shrinks
  BY DestructorPushed DEF QtDelete
<1>. QED  BY <1>1, ObjectStep DEF QtDelete, Status, Speaks

LEMMA DeletedKeeps ==
    ASSUME IInv, Deleted PROVE Keeps
<1>1. Top.o \in Object
  BY EndingType DEF Deleted, AtTop, IInv, Call
<1>2. Shrinks
  BY EndShrinks DEF Deleted, AtTop, IInv
<1>. QED  BY <1>1, <1>2, ObjectStep DEF Deleted, Status

LEMMA DestructorEndsKeeps ==
    ASSUME IInv, DestructorEnds PROVE Keeps
<1>1. stack # <<>> /\ DropTable(Top.o) /\ UNCHANGED <<serial, fault>>
  BY DEF DestructorEnds, AtTop
<1>2. /\ Top.o \in Object
      /\ Ending("builtin") \in Seq(Call) /\ Rests(Ending("builtin")) \subseteq Rests(stack)
  BY <1>1, EndingType DEF IInv, Call
<1>3. CASE obj' = [obj EXCEPT ![Top.o] = "gone"] /\ Disconnect(Top.o, Ending("builtin"))
  <2>1. Shrinks
    BY <1>1, <1>2, <1>3, DisconnectShrinks DEF IInv
  <2>. QED  BY <1>1, <1>2, <1>3, <2>1, ObjectStep DEF Status
<1>4. CASE /\ obj' = [obj EXCEPT ![Top.o] = "forgotten"]
           /\ stack' = Ending("builtin") /\ UNCHANGED <<conns, posted>>
  <2>1. Shrinks
    BY <1>1, <1>4, EndShrinks DEF IInv
  <2>. QED  BY <1>1, <1>2, <1>4, <2>1, ObjectStep DEF Status
<1>. QED  BY <1>3, <1>4 DEF DestructorEnds

LEMMA QtDeleteSilentlyKeeps ==
    ASSUME IInv, NEW o \in Object, QtDeleteSilently(o) PROVE Keeps
<1>1. Shrinks
  BY DisconnectShrinks DEF QtDeleteSilently, IInv, TypeOK
<1>. QED  BY <1>1, ObjectStep DEF QtDeleteSilently, Status

LEMMA DropOrphanKeeps ==
    ASSUME IInv, NEW o \in Object, DropOrphan(o) PROVE Keeps
<1>1. Shrinks
  BY StillShrinks DEF DropOrphan, IInv
<1>. QED  BY <1>1, ObjectStep DEF DropOrphan, Status

LEMMA RewrapKeeps ==
    ASSUME IInv, NEW o \in Object, Rewrap(o) PROVE Keeps
<1>1. Shrinks
  BY StillShrinks DEF Rewrap, IInv
<1>2. StaleLinks = FALSE => ~Stale(o)
  BY DEF Rewrap
<1>. QED  BY <1>1, <1>2, ObjectStep DEF Rewrap, Status

-----------------------------------------------------------------------------
(* connect() *)

\* connect() may add the slot, and the target it finds is then in the list.
LEMMA TargetInList ==
    ASSUME IInv, NEW p \in Object, NEW target \in Target,
           IF target.kind = "slot" /\ NeedsSlot(p, target.name)
           THEN AddSlot(p, target.name) ELSE UNCHANGED tables
    PROVE  LET id == IF target.kind = "signal" THEN getSignalIndex(p, target.name)
                     ELSE getSlotIndex(p, target.name)
           IN  /\ TablesSound'
               /\ \A q \in Object : Len(methodList[q]) <= Len(methodList'[q])
               /\ id \in Int /\ id < methodCount + Len(methodList'[p])
<1>. DEFINE id == IF target.kind = "signal" THEN getSignalIndex(p, target.name)
                  ELSE getSlotIndex(p, target.name)
            new == target.kind = "slot" /\ NeedsSlot(p, target.name)
<1>1. target.kind \in {"signal", "slot"} /\ target.name \in Name
  BY DEF Target
<1>2. /\ methodCount \in Nat /\ \A q \in Object : Len(methodList[q]) \in Nat
      /\ methodList \in [Object -> Seq(Member)]
  BY IndexType, Lengths DEF IInv, TypeOK, TablesOK
<1>3. getSignalIndex(p, target.name) \in Int
      /\ getSignalIndex(p, target.name) < methodCount + Len(methodList[p])
  BY <1>1, <1>2, SignalIndexType DEF IInv, TypeOK
<1>4. /\ getSlotIndex(p, target.name) \in Int
      /\ getSlotIndex(p, target.name) <= methodCount + Len(methodList[p])
      /\ ~NeedsSlot(p, target.name) =>
           getSlotIndex(p, target.name) < methodCount + Len(methodList[p])
  BY <1>1, <1>2, SlotIndexType DEF IInv, TypeOK
<1>5. CASE new
  <2>1. TablesSound'
    BY <1>1, <1>5, AddSlotSound DEF IInv, TypeOK, TablesSound
  <2>2. methodList' = [methodList EXCEPT ![p] =
                          Append(methodList[p], Method(target.name))]
    BY <1>5 DEF AddSlot, Table
  <2>3. Len(methodList'[p]) = Len(methodList[p]) + 1
        /\ \A q \in Object \ {p} : methodList'[q] = methodList[q]
    BY <1>2, <2>2
  <2>. QED  BY <1>2, <1>4, <1>5, <2>1, <2>3
<1>6. CASE ~new
  BY <1>1, <1>2, <1>3, <1>4, <1>6, SameTables DEF tables
<1>. QED  BY <1>5, <1>6

LEMMA connectKeeps ==
    ASSUME IInv, NEW o \in Object, NEW s \in Name, NEW p \in Object,
           NEW target \in Target, connect(o, s, p, target)
    PROVE  /\ IInv' /\ (HandleAssertion => HandleAssertion')
           /\ AllFound /\ StaleLinks = FALSE => AllFound'
<1>1. CASE Abort("null_qobject") \/ Abort("null_receiver")
  <2>1. Keeps
    BY <1>1, AbortKeeps DEF Faults
  <2>2. fault' # "handle_signal"
    BY <1>1 DEF Abort
  <2>. QED  BY <2>1, <2>2, StepKeeps, StepFinds DEF Keeps, HandleAssertion
<1>. DEFINE id == IF target.kind = "signal" THEN getSignalIndex(p, target.name)
                  ELSE getSlotIndex(p, target.name)
            new == target.kind = "slot" /\ NeedsSlot(p, target.name)
            c == [n |-> serial', sender |-> o, signal |-> Signal(s),
                  sid |-> getSignalIndex(o, s), receiver |-> p,
                  target |-> Asked(p, target), tid |-> id]
<1>2. CASE /\ obj[p] # "new" /\ id >= 0
           /\ IF new THEN AddSlot(p, target.name) ELSE UNCHANGED tables
           /\ IF getSignalIndex(o, s) < 0 THEN UNCHANGED <<conns, serial>>
              ELSE serial' = serial + 1 /\ conns' = conns \cup {c}
           /\ UNCHANGED <<obj, stack, posted, fault>>
  <2>1. /\ TablesSound' /\ \A q \in Object : Len(methodList[q]) <= Len(methodList'[q])
        /\ id \in Int /\ id < methodCount + Len(methodList'[p])
    BY <1>2, TargetInList
  <2>2. /\ methodCount \in Nat
        /\ \A q \in Object : Len(methodList[q]) \in Nat /\ Len(methodList'[q]) \in Nat
    BY <2>1, IndexType, Lengths DEF TablesSound, TablesOK
  <2>3. CASE UNCHANGED <<conns, serial>>
    <3>1. Shrinks
      BY <1>2, <2>3, StillShrinks DEF IInv
    <3>2. Steady
      BY <1>2, <2>1 DEF Steady, Speaks
    <3>3. IInv'
      BY <1>2, <2>1, <3>1, StepKeeps DEF IInv, TypeOK
    <3>. QED  BY <1>2, <3>1, <3>2, <3>3, StepFinds DEF HandleAssertion
  <2>4. CASE getSignalIndex(o, s) >= 0 /\ serial' = serial + 1 /\ conns' = conns \cup {c}
    <3>1. Signal(s) \in Member /\ Asked(p, target) \in Member
      BY DEF Signal, Asked, Method, Member, Target
    <3>2. getSignalIndex(o, s) \in Nat
      BY <2>2, <2>4, SignalIndexType DEF IInv, TypeOK
    <3>3. serial' \in Nat /\ id \in Nat
      BY <1>2, <2>1, <2>4 DEF IInv, TypeOK
    <3>. HIDE DEF id
    <3>4. c \in Connection
      BY <3>1, <3>2, <3>3 DEF Connection
    <3>5. c.receiver = p /\ c.tid = id
      OBVIOUS
    <3>. HIDE DEF c
    <3>6. IInv'
      BY <1>2, <2>1, <2>4, <3>3, <3>4 DEF IInv, TypeOK, TablesSound
    <3>7. ASSUME AllFound PROVE AllFound'
      <4>. SUFFICES ASSUME NEW d \in Pending' PROVE Finds(d)'
        BY DEF AllFound
      <4>1. d \in Pending \cup {c}
        BY <1>2, <2>4 DEF Pending
      <4>2. CASE d = c
        BY <1>2, <2>1, <2>2, <3>3, <3>5, <4>2 DEF Finds
      <4>3. CASE d \in Pending
        <5>1. d.receiver \in Object /\ d.tid \in Nat /\ Finds(d)
          BY <3>7, <4>3, PendingType DEF IInv, Connection, AllFound
        <5>. QED  BY <1>2, <2>1, <2>2, <5>1 DEF Finds, Reacts, Speaks
      <4>. QED  BY <4>1, <4>2, <4>3
    <3>. QED  BY <1>2, <3>6, <3>7 DEF HandleAssertion
  <2>5. getSignalIndex(o, s) \in Int
    BY <2>2, SignalIndexType DEF IInv, TypeOK
  <2>6. getSignalIndex(o, s) < 0 \/ getSignalIndex(o, s) >= 0
    BY <2>5
  <2>. HIDE DEF id, new, c
  <2>. QED  BY <1>2, <2>3, <2>4, <2>6
<1>3. \/ Abort("null_qobject") \/ Abort("null_receiver")
      \/ /\ obj[p] # "new" /\ id >= 0
         /\ IF new THEN AddSlot(p, target.name) ELSE UNCHANGED tables
         /\ IF getSignalIndex(o, s) < 0 THEN UNCHANGED <<conns, serial>>
            ELSE serial' = serial + 1 /\ conns' = conns \cup {c}
         /\ UNCHANGED <<obj, stack, posted, fault>>
  BY DEF connect, connectDynamic
<1>. QED  BY <1>1, <1>2, <1>3

-----------------------------------------------------------------------------
(* Theorems *)

LEMMA InitIInv == Init => IInv /\ AllFound /\ HandleAssertion
<1>. SUFFICES ASSUME Init PROVE IInv /\ AllFound /\ HandleAssertion
  OBVIOUS
<1>1. \A o \in Object : /\ methodList[o] = <<>> /\ signalIndices[o] = NoIndices
                        /\ slotIndices[o] = NoIndices
  BY DEF Init
<1>2. IndicesSound
  BY <1>1, EmptyTable DEF IndicesSound
<1>3. TablesOK
  BY <1>1, EmptyTable DEF Init, TablesOK, Fits
<1>4. TypeOK
  BY <1>3 DEF Init, TypeOK, Status
<1>5. Pending = {}
  BY PendingIs DEF Init, Rests
<1>6. fault # "handle_signal"
  BY NoneAssumption DEF Init, Faults
<1>. QED  BY <1>2, <1>4, <1>5, <1>6 DEF IInv, AllFound, HandleAssertion

\* One step, action by action.
LEMMA NextKeeps ==
    ASSUME IInv, [Next]_vars
    PROVE  /\ IInv'
           /\ AllFound /\ HandleAssertion /\ StaleLinks = FALSE =>
                AllFound' /\ HandleAssertion'
<1>. DEFINE Goal == /\ IInv'
                    /\ AllFound /\ HandleAssertion /\ StaleLinks = FALSE =>
                         AllFound' /\ HandleAssertion'
<1>1. ASSUME Keeps, AllFound /\ HandleAssertion => HandleAssertion' PROVE Goal
  BY <1>1, StepKeeps, StepFinds DEF Keeps
<1>2. ASSUME Keeps, fault' = fault \/ fault' = "null_qobject" PROVE Goal
  BY <1>1, <1>2 DEF HandleAssertion
<1>3. CASE UNCHANGED vars
  <2>1. Shrinks /\ UNCHANGED <<obj, tables, fault>>
    BY <1>3, StillShrinks DEF vars, tables, IInv
  <2>. QED  BY <1>2, <2>1, CallStep
<1>4. CASE Activate \/ ProcessEvent
  BY <1>1, <1>4, ActivateKeeps, ProcessEventKeeps
<1>5. CASE Return
  BY <1>2, <1>5, ReturnKeeps DEF Return
<1>6. CASE Deleted
  BY <1>2, <1>6, DeletedKeeps DEF Deleted
<1>7. CASE DestructorEnds
  BY <1>2, <1>7, DestructorEndsKeeps DEF DestructorEnds
<1>8. ASSUME NEW o \in Object,
             \/ Create(o) \/ Delete(o) \/ QtDelete(o) \/ QtDeleteSilently(o)
             \/ DropOrphan(o) \/ Rewrap(o)
      PROVE  Goal
  <2>1. Keeps
    BY <1>8, CreateKeeps, DeleteKeeps, QtDeleteKeeps, QtDeleteSilentlyKeeps,
       DropOrphanKeeps, RewrapKeeps
  <2>2. fault' = fault
    BY <1>8 DEF Create, Delete, QtDelete, QtDeleteSilently, DropOrphan, Rewrap
  <2>. QED  BY <1>2, <2>1, <2>2
<1>9. ASSUME NEW o \in Object, NEW s \in Name,
             \/ createSignal(o, s) \/ emitSignal(o, s) \/ QtEmit(o, s)
             \/ emitFromThread(o, s)
      PROVE  Goal
  <2>1. Keeps
    BY <1>9, createSignalKeeps, emitSignalKeeps, QtEmitKeeps, emitFromThreadKeeps
  <2>2. fault' = fault \/ fault' = "null_qobject"
    BY <1>9 DEF createSignal, emitSignal, QtEmit, emitFromThread, Abort
  <2>. QED  BY <1>2, <2>1, <2>2
<1>10. ASSUME NEW o \in Object, NEW s \in Name, NEW p \in Object,
              NEW target \in Target, connect(o, s, p, target)
       PROVE  Goal
  BY <1>10, connectKeeps
<1>. QED  BY <1>3, <1>4, <1>5, <1>6, <1>7, <1>8, <1>9, <1>10 DEF Next

LEMMA AlwaysIInv == Spec => []IInv
<1>1. IInv /\ [Next]_vars => IInv'
  BY NextKeeps
<1>. QED  BY <1>1, InitIInv, PTL DEF Spec

\* The variables keep their types in every reachable state.
THEOREM SignalsTyped == Spec => []TypeOK
<1>1. IInv => TypeOK
  BY DEF IInv
<1>. QED  BY <1>1, AlwaysIInv, PTL

\* Whatever is created and connected in whatever order, the list of dynamic
\* methods of an object and its two indices describe each other: the casts of
\* handleSignal() and emitSignal() are right.
THEOREM IndicesAlwaysSound == Spec => []IndicesSound
<1>1. IInv => IndicesSound
  BY DEF IInv
<1>. QED  BY <1>1, AlwaysIInv, PTL

\* The assertion of handleSignal() holds in every program that wraps no object
\* anew while connections lead to the table it had.
THEOREM CallsFound ==
    ASSUME StaleLinks = FALSE PROVE Spec => []HandleAssertion
<1>. DEFINE Inv == IInv /\ AllFound /\ HandleAssertion
<1>1. Init => Inv
  BY InitIInv
<1>2. Inv /\ [Next]_vars => Inv'
  BY NextKeeps
<1>3. Inv => HandleAssertion
  OBVIOUS
<1>. QED  BY <1>1, <1>2, <1>3, PTL DEF Spec

-----------------------------------------------------------------------------
(* What an index of a connection means *)

\* Method id of o is m, and m has no other index.
Leads(o, id, m) ==
    IF id < methodCount THEN id = indexOf(m)
    ELSE /\ m.kind # "slot" /\ indexOf(m) < 0
         /\ id - methodCount = IF m.kind = "signal" THEN signalIndices[o][m.name]
                               ELSE slotIndices[o][m.name]

\* The indices of a connection lead to what the program asked for.
NamedAs(c) ==
    /\ c.signal.kind = "signal" /\ c.n <= serial
    /\ obj[c.sender] # "new" /\ obj[c.receiver] # "new"
    /\ c.sid < methodCount \/ Speaks(c.sender) => Leads(c.sender, c.sid, c.signal)
    /\ c.tid < methodCount \/ Speaks(c.receiver) =>
          Leads(c.receiver, c.tid, c.target)

AllNamed == \A c \in Pending : NamedAs(c)
Numbered == \A c, d \in Pending : c.n = d.n => c = d

\* Only slots that are written in Qore get a place in a table, and never in
\* that of a wrapper of the Qt class.
SlotsWritten ==
    \A o \in Object, s \in Name :
        slotIndices[o][s] >= 0 =>
            s \in Methods[o] /\ obj[o] \notin {"new", "forgotten", "rewrapped"}

\* Only an emission has connections to serve.
GoodCall ==
    {f \in Call : /\ f.op # "activate" => f.rest = {}
                  /\ f.op \in {"deleted", "destructor"} => f.member = None}

NamedInv ==
    /\ IInv /\ AllNamed /\ Numbered /\ SlotsWritten
    /\ stack \in Seq(GoodCall) /\ serial <= MaxConnects

\* Indices that were given stay as they are.
IndicesLast(p) ==
    \A s \in Name :
        /\ signalIndices[p][s] >= 0 => signalIndices'[p][s] = signalIndices[p][s]
        /\ slotIndices[p][s] >= 0 => slotIndices'[p][s] = slotIndices[p][s]

\* Objects that connections may lead to stay, and what still leads to their
\* table leads to the same methods.
Lasting ==
    \A p \in Object :
        \/ obj[p] = "new"
        \/ /\ obj'[p] # "new"
           /\ (Speaks(p)' => Speaks(p) /\ IndicesLast(p)) \/ ~Stale(p)

LEMMA LeadsLasts ==
    ASSUME IInv, NEW o \in Object, NEW id \in Nat, NEW m \in Member,
           Leads(o, id, m), id < methodCount \/ IndicesLast(o)
    PROVE  Leads(o, id, m)'
<1>1. CASE id < methodCount
  BY <1>1 DEF Leads, methodCount, indexOf
<1>2. CASE ~(id < methodCount) /\ IndicesLast(o)
  <2>1. methodCount \in Nat /\ m.name \in Name
    BY IndexType DEF Member
  <2>2. id - methodCount >= 0
    BY <1>2, <2>1
  <2>3. indexOf(m)' = indexOf(m)
    BY DEF indexOf
  <2>. QED  BY <1>2, <2>1, <2>2, <2>3 DEF Leads, IndicesLast, methodCount
<1>. QED  BY <1>1, <1>2

LEMMA StepNamed ==
    ASSUME NamedInv, Shrinks, Lasting
    PROVE  AllNamed' /\ Numbered' /\ serial' <= MaxConnects
<1>1. Pending' \subseteq Pending
  BY DEF Pending, Rests, Shrinks
<1>2. ASSUME NEW c \in Pending' PROVE NamedAs(c)'
  <2>1. c \in Pending /\ NamedAs(c) /\ c \in Connection
    BY <1>1, PendingType DEF NamedInv, IInv, AllNamed
  <2>2. /\ c.sender \in Object /\ c.receiver \in Object /\ c.sid \in Nat /\ c.tid \in Nat
        /\ c.signal \in Member /\ c.target \in Member
    BY <2>1 DEF Connection
  <2>3. obj'[c.sender] # "new" /\ obj'[c.receiver] # "new"
    BY <2>1, <2>2 DEF Lasting, NamedAs
  <2>4. methodCount \in Nat
    BY IndexType
  <2>5. ASSUME c.sid < methodCount \/ Speaks(c.sender)'
        PROVE  Leads(c.sender, c.sid, c.signal)'
    <3>1. c.sid < methodCount \/ (Speaks(c.sender) /\ IndicesLast(c.sender))
      BY <2>1, <2>2, <2>4, <2>5 DEF Lasting, NamedAs, Stale
    <3>. QED  BY <2>1, <2>2, <3>1, LeadsLasts DEF NamedInv, NamedAs
  <2>6. ASSUME c.tid < methodCount \/ Speaks(c.receiver)'
        PROVE  Leads(c.receiver, c.tid, c.target)'
    <3>1. c.tid < methodCount \/ (Speaks(c.receiver) /\ IndicesLast(c.receiver))
      BY <2>1, <2>2, <2>4, <2>6 DEF Lasting, NamedAs, Stale
    <3>. QED  BY <2>1, <2>2, <3>1, LeadsLasts DEF NamedInv, NamedAs
  <2>. QED  BY <2>1, <2>3, <2>5, <2>6 DEF NamedAs, Shrinks, methodCount, Speaks
<1>. QED  BY <1>1, <1>2 DEF NamedInv, AllNamed, Numbered, Shrinks

-----------------------------------------------------------------------------
(* One step keeps the names *)

\* Steps that touch neither objects nor tables.
LEMMA CallLasts ==
    ASSUME NamedInv, UNCHANGED <<obj, tables>>
    PROVE  Lasting /\ SlotsWritten' /\ \A p \in Object : IndicesLast(p)
<1>1. ASSUME NEW p \in Object PROVE IndicesLast(p) /\ obj'[p] = obj[p] /\ Speaks(p)' = Speaks(p)
  BY DEF IndicesLast, tables, Speaks
<1>2. SlotsWritten'
  BY DEF NamedInv, SlotsWritten, tables
<1>. QED  BY <1>1, <1>2 DEF Lasting

LEMMA createSignalLasts ==
    ASSUME NamedInv, NEW o \in Object, NEW s \in Name, createSignal(o, s)
    PROVE  Lasting /\ SlotsWritten'
<1>1. /\ signalIndices[o][s] < 0 /\ obj' = obj
      /\ signalIndices' = [signalIndices EXCEPT ![o] =
                              [signalIndices[o] EXCEPT ![s] = Len(methodList[o])]]
      /\ slotIndices' = [slotIndices EXCEPT ![o] = slotIndices[o]]
  BY DEF createSignal, Table
<1>2. /\ signalIndices \in [Object -> [Name -> Int]]
      /\ slotIndices \in [Object -> [Name -> Int]]
  BY DEF NamedInv, IInv, TypeOK, TablesOK
<1>3. ASSUME NEW p \in Object, NEW t \in Name
      PROVE  /\ slotIndices'[p][t] = slotIndices[p][t]
             /\ p # o \/ t # s => signalIndices'[p][t] = signalIndices[p][t]
  BY <1>1, <1>2
<1>4. ASSUME NEW p \in Object PROVE IndicesLast(p)
  BY <1>1, <1>2, <1>3 DEF IndicesLast
<1>5. SlotsWritten'
  BY <1>1, <1>3 DEF NamedInv, SlotsWritten
<1>. QED  BY <1>1, <1>4, <1>5 DEF Lasting, Speaks

LEMMA AddSlotLasts ==
    ASSUME NamedInv, NEW o \in Object, NEW s \in Name, NeedsSlot(o, s),
           AddSlot(o, s), obj' = obj, obj[o] \notin {"new", "forgotten"}
    PROVE  Lasting /\ SlotsWritten' /\ \A p \in Object : IndicesLast(p)
<1>1. /\ slotIndices[o][s] < 0 /\ s \in Methods[o] /\ obj[o] # "rewrapped"
      /\ slotIndices' = [slotIndices EXCEPT ![o] =
                            [slotIndices[o] EXCEPT ![s] = Len(methodList[o])]]
      /\ signalIndices' = [signalIndices EXCEPT ![o] = signalIndices[o]]
  BY DEF NeedsSlot, AddSlot, Table
<1>2. /\ signalIndices \in [Object -> [Name -> Int]]
      /\ slotIndices \in [Object -> [Name -> Int]]
  BY DEF NamedInv, IInv, TypeOK, TablesOK
<1>3. ASSUME NEW p \in Object, NEW t \in Name
      PROVE  /\ signalIndices'[p][t] = signalIndices[p][t]
             /\ p # o \/ t # s => slotIndices'[p][t] = slotIndices[p][t]
  BY <1>1, <1>2
<1>4. ASSUME NEW p \in Object PROVE IndicesLast(p)
  BY <1>1, <1>2, <1>3 DEF IndicesLast
<1>5. ASSUME NEW p \in Object, NEW t \in Name, slotIndices'[p][t] >= 0
      PROVE  t \in Methods[p] /\ obj[p] \notin {"new", "forgotten", "rewrapped"}
  <2>1. CASE p = o /\ t = s
    BY <1>1, <2>1
  <2>2. CASE ~(p = o /\ t = s)
    BY <1>3, <1>5, <2>2 DEF NamedInv, SlotsWritten
  <2>. QED  BY <2>1, <2>2
<1>. QED  BY <1>4, <1>5 DEF Lasting, Speaks, SlotsWritten

\* Steps that change the state of one object.
LEMMA ObjectLasts ==
    ASSUME NamedInv, NEW o \in Object, NEW st \in Status \ {"new"},
           obj' = [obj EXCEPT ![o] = st],
           \/ UNCHANGED tables /\ st \notin {"forgotten", "rewrapped"}
           \/ UNCHANGED tables /\ obj[o] = "forgotten"
           \/ DropTable(o) /\ st \in {"gone", "forgotten"},
           \/ obj[o] = "new"
           \/ st \in {"alive", "rewrapped", "deleting", "dying"} => Speaks(o) \/ ~Stale(o)
    PROVE  Lasting /\ SlotsWritten'
<1>1. /\ signalIndices \in [Object -> [Name -> Int]]
      /\ slotIndices \in [Object -> [Name -> Int]] /\ obj \in [Object -> Status]
  BY DEF NamedInv, IInv, TypeOK, TablesOK
<1>2. ASSUME NEW p \in Object, p # o
      PROVE  /\ obj'[p] = obj[p] /\ signalIndices'[p] = signalIndices[p]
             /\ slotIndices'[p] = slotIndices[p]
  BY <1>1, <1>2 DEF tables, DropTable, Table
<1>3. obj'[o] = st
  BY <1>1
<1>4. DropTable(o) => slotIndices'[o] = NoIndices
  BY <1>1 DEF DropTable, Table
<1>5. Lasting
  <2>1. ASSUME NEW p \in Object, p # o
        PROVE  obj'[p] = obj[p] /\ Speaks(p)' = Speaks(p) /\ IndicesLast(p)
    BY <1>2, <2>1 DEF Speaks, IndicesLast
  <2>2. UNCHANGED tables => IndicesLast(o)
    BY DEF tables, IndicesLast
  <2>. QED  BY <1>3, <2>1, <2>2 DEF Lasting, Speaks
<1>6. SlotsWritten'
  <2>1. ASSUME NEW p \in Object, NEW t \in Name, slotIndices'[p][t] >= 0
        PROVE  t \in Methods[p] /\ obj'[p] \notin {"new", "forgotten", "rewrapped"}
    <3>1. CASE p # o
      BY <1>2, <2>1, <3>1 DEF NamedInv, SlotsWritten
    <3>2. CASE p = o /\ DropTable(o)
      BY <1>4, <2>1, <3>2 DEF NoIndices
    <3>3. CASE p = o /\ UNCHANGED tables /\ ~DropTable(o)
      BY <1>3, <2>1, <3>3 DEF NamedInv, SlotsWritten, tables
    <3>. QED  BY <3>1, <3>2, <3>3
  <2>. QED  BY <2>1 DEF SlotsWritten
<1>. QED  BY <1>5, <1>6

LEMMA GoodIsCall == GoodCall \subseteq Call
  BY DEF GoodCall

\* Calls that lose connections stay good.
LEMMA TrimmedGood ==
    ASSUME NEW s \in Seq(GoodCall), NEW o PROVE Trim(o, s) \in Seq(GoodCall)
<1>. DEFINE keep(i) == IF s[i].o = o THEN {} ELSE {c \in s[i].rest : c.receiver # o}
            t == [i \in DOMAIN s |-> [s[i] EXCEPT !.rest = keep(i)]]
<1>1. ASSUME NEW i \in DOMAIN s PROVE [s[i] EXCEPT !.rest = keep(i)] \in GoodCall
  <2>1. s[i] \in GoodCall /\ keep(i) \subseteq s[i].rest
    OBVIOUS
  <2>. HIDE DEF keep
  <2>2. /\ [s[i] EXCEPT !.rest = keep(i)] \in Call
        /\ [s[i] EXCEPT !.rest = keep(i)].op = s[i].op
        /\ [s[i] EXCEPT !.rest = keep(i)].member = s[i].member
        /\ [s[i] EXCEPT !.rest = keep(i)].rest = keep(i)
    BY <2>1 DEF GoodCall, Call
  <2>3. s[i].op # "activate" => keep(i) = {}
    BY <2>1 DEF GoodCall
  <2>4. s[i].op \in {"deleted", "destructor"} => s[i].member = None
    BY <2>1 DEF GoodCall
  <2>. QED  BY <2>2, <2>3, <2>4 DEF GoodCall
<1>2. t \in Seq(GoodCall)
  <2>1. Len(s) \in Nat /\ DOMAIN s = 1 .. Len(s)
    OBVIOUS
  <2>. HIDE DEF keep
  <2>2. t \in [1 .. Len(s) -> GoodCall]
    BY <1>1, <2>1
  <2>. HIDE DEF t
  <2>. QED  BY <2>1, <2>2
<1>. QED  BY <1>2 DEF Trim

LEMMA EndingGood ==
    ASSUME NamedInv, stack # <<>>, NEW op \in {"builtin", "destructor"}
    PROVE  Ending(op) \in Seq(GoodCall) /\ Top \in GoodCall
<1>1. Top \in GoodCall /\ Tail(stack) \in Seq(GoodCall)
  BY DEF NamedInv, Top
<1>2. Frame(op, Top.o, None, {}) \in GoodCall
  BY <1>1 DEF GoodCall, Call, Frame
<1>. QED  BY <1>1, <1>2 DEF Ending

\* A step keeps the invariant if it makes no connection.
LEMMA NamedKept ==
    ASSUME NamedInv, Keeps, Lasting, SlotsWritten', stack' \in Seq(GoodCall)
    PROVE  NamedInv'
<1>1. IInv'
  BY StepKeeps DEF Keeps, NamedInv
<1>. QED  BY <1>1, StepNamed DEF Keeps, NamedInv

\* What Qt calls is good.
LEMMA MetacallGood ==
    ASSUME TypeOK, NEW o \in Object, NEW id \in Nat, MetacallFault(o, id) = None
    PROVE  Metacall(o, id) \in GoodCall
<1>1. Metacall(o, id) \in Call
  BY MetacallType
<1>2. \/ Metacall(o, id).op = "activate"
      \/ Metacall(o, id).op \in {"builtin", "slot"} /\ Metacall(o, id).rest = {}
  <2>1. \A i : Activation(o, i).op = "activate"
    BY DEF Activation, Frame
  <2>2. \A op, m : Frame(op, o, m, {}).op = op /\ Frame(op, o, m, {}).rest = {}
    BY DEF Frame
  <2>. QED  BY <2>1, <2>2 DEF Metacall
<1>. QED  BY <1>1, <1>2 DEF GoodCall

LEMMA CallNamed ==
    ASSUME NamedInv, Keeps, UNCHANGED <<obj, tables>>, stack' \in Seq(GoodCall)
    PROVE  NamedInv'
  BY CallLasts, NamedKept

LEMMA AbortNamed ==
    ASSUME NamedInv, NEW STATE f, f \in Faults, Abort(f) PROVE NamedInv'
<1>1. Keeps
  BY AbortKeeps DEF NamedInv
<1>2. UNCHANGED <<obj, tables>> /\ stack' = stack
  BY DEF Abort
<1>. QED  BY <1>1, <1>2, CallNamed DEF NamedInv

\* Of the steps that move calls about.
LEMMA ActivateNamed == ASSUME NamedInv, Activate PROVE NamedInv'
<1>1. PICK c \in Top.rest :
        LET f == MetacallFault(c.receiver, c.tid)
        IN IF f # None THEN Abort(f)
           ELSE /\ stack' = <<Metacall(c.receiver, c.tid)>>
                              \o (<<[Top EXCEPT !.rest = @ \ {c}]>> \o Tail(stack))
                /\ UNCHANGED <<obj, tables, conns, serial, posted, fault>>
  BY DEF Activate
<1>. DEFINE call == Metacall(c.receiver, c.tid)
            rest == [Top EXCEPT !.rest = @ \ {c}]
<1>2. Top \in GoodCall /\ Tail(stack) \in Seq(GoodCall) /\ Top.op = "activate"
  BY DEF Activate, AtTop, NamedInv, Top
<1>3. c \in Connection /\ c.receiver \in Object /\ c.tid \in Nat
  BY <1>2 DEF GoodCall, Call, Connection
<1>4. Keeps
  BY ActivateKeeps DEF NamedInv
<1>5. rest \in GoodCall
  BY <1>2 DEF GoodCall, Call
<1>6. CASE MetacallFault(c.receiver, c.tid) # None
  <2>1. UNCHANGED <<obj, tables>> /\ stack' = stack
    BY <1>1, <1>6 DEF Abort
  <2>. QED  BY <1>4, <2>1, CallNamed DEF NamedInv
<1>7. CASE MetacallFault(c.receiver, c.tid) = None
  <2>1. call \in GoodCall
    BY <1>3, <1>7, MetacallGood DEF NamedInv, IInv
  <2>2. stack' = <<call>> \o (<<rest>> \o Tail(stack)) /\ UNCHANGED <<obj, tables>>
    BY <1>1, <1>7
  <2>3. stack' \in Seq(GoodCall)
    <3>. HIDE DEF call, rest
    <3>. QED  BY <1>2, <1>5, <2>1, <2>2
  <2>. QED  BY <1>4, <2>2, <2>3, CallNamed
<1>. QED  BY <1>6, <1>7

LEMMA ProcessEventNamed == ASSUME NamedInv, ProcessEvent PROVE NamedInv'
<1>1. PICK e \in posted :
        LET f == MetacallFault(e.c.receiver, e.c.tid)
        IN IF f # None THEN Abort(f)
           ELSE /\ posted' = posted \ {e}
                /\ Push(Metacall(e.c.receiver, e.c.tid))
                /\ UNCHANGED <<obj, tables, conns, serial, fault>>
  BY DEF ProcessEvent
<1>. DEFINE call == Metacall(e.c.receiver, e.c.tid)
<1>2. e.c.receiver \in Object /\ e.c.tid \in Nat
  BY DEF NamedInv, IInv, TypeOK, Connection
<1>3. Keeps
  BY ProcessEventKeeps DEF NamedInv
<1>4. CASE MetacallFault(e.c.receiver, e.c.tid) # None
  <2>1. UNCHANGED <<obj, tables>> /\ stack' = stack
    BY <1>1, <1>4 DEF Abort
  <2>. QED  BY <1>3, <2>1, CallNamed DEF NamedInv
<1>5. CASE MetacallFault(e.c.receiver, e.c.tid) = None
  <2>1. call \in GoodCall
    BY <1>2, <1>5, MetacallGood DEF NamedInv, IInv
  <2>2. stack' = <<call>> \o stack /\ UNCHANGED <<obj, tables>>
    BY <1>1, <1>5 DEF Push
  <2>3. stack' \in Seq(GoodCall)
    <3>. HIDE DEF call
    <3>. QED  BY <2>1, <2>2 DEF NamedInv
  <2>. QED  BY <1>3, <2>2, <2>3, CallNamed
<1>. QED  BY <1>4, <1>5

LEMMA ReturnNamed == ASSUME NamedInv, Return PROVE NamedInv'
<1>1. Keeps /\ UNCHANGED <<obj, tables>>
  BY ReturnKeeps DEF NamedInv, Return
<1>2. stack' = Tail(stack) /\ stack # <<>>
  BY DEF Return, AtTop
<1>. QED  BY <1>1, <1>2, CallNamed DEF NamedInv

LEMMA EmissionNamed ==
    ASSUME NamedInv, NEW o \in Object, NEW s \in Name,
           emitSignal(o, s) \/ QtEmit(o, s) \/ emitFromThread(o, s)
    PROVE  NamedInv'
<1>1. Keeps /\ UNCHANGED <<obj, tables>>
  BY emitSignalKeeps, QtEmitKeeps, emitFromThreadKeeps
     DEF NamedInv, emitSignal, QtEmit, emitFromThread, Abort
<1>2. ASSUME NEW id \in Nat, id < methodCount + Len(methodList[o]), Push(Activation(o, id))
      PROVE  stack' \in Seq(GoodCall)
  <2>. DEFINE f == Activation(o, id)
  <2>1. f \in Call /\ f.op = "activate"
    BY <1>2, ActivationType DEF NamedInv, IInv, Activation, Frame
  <2>2. f \in GoodCall
    BY <2>1 DEF GoodCall
  <2>3. stack' = <<f>> \o stack
    BY <1>2 DEF Push
  <2>. HIDE DEF f
  <2>. QED  BY <2>2, <2>3 DEF NamedInv
<1>3. \/ stack' = stack
      \/ \E id \in Nat : id < methodCount + Len(methodList[o]) /\ Push(Activation(o, id))
  <2>1. methodCount \in Nat /\ Len(methodList[o]) \in Nat
        /\ getSignalIndex(o, s) \in -1..(methodCount + Len(methodList[o]) - 1)
        /\ indexOf(Signal(s)) \in -1..(methodCount - 1)
    BY SignalIndexType, IndexType DEF NamedInv, IInv, TypeOK
  <2>2. CASE emitSignal(o, s)
    BY <2>1, <2>2 DEF emitSignal, Abort
  <2>3. CASE QtEmit(o, s)
    BY <2>1, <2>3 DEF QtEmit
  <2>4. CASE emitFromThread(o, s)
    BY <2>4 DEF emitFromThread
  <2>. QED  BY <2>2, <2>3, <2>4
<1>. QED  BY <1>1, <1>2, <1>3, CallNamed DEF NamedInv

\* A call that serves nothing is pushed.
LEMMA PushedGood ==
    ASSUME NamedInv, NEW o \in Object, NEW op \in {"destructor", "deleted"},
           Push(Frame(op, o, None, {}))
    PROVE  stack' \in Seq(GoodCall)
<1>1. Frame(op, o, None, {}) \in GoodCall
  BY DEF Frame, GoodCall, Call
<1>. QED  BY <1>1 DEF Push, NamedInv

\* The steps of objects.
LEMMA ObjectNamed ==
    ASSUME NamedInv, NEW o \in Object,
           \/ Create(o) \/ Delete(o) \/ QtDelete(o) \/ QtDeleteSilently(o)
           \/ DropOrphan(o) \/ (StaleLinks = FALSE /\ Rewrap(o))
    PROVE  NamedInv'
<1>1. Keeps
  BY CreateKeeps, DeleteKeeps, QtDeleteKeeps, QtDeleteSilentlyKeeps,
     DropOrphanKeeps, RewrapKeeps DEF NamedInv
<1>2. CASE Create(o)
  <2>1. Lasting /\ SlotsWritten'
    BY <1>2, ObjectLasts DEF Create, Status
  <2>. QED  BY <1>1, <1>2, <2>1, NamedKept DEF Create, NamedInv
<1>3. CASE Delete(o)
  <2>1. Lasting /\ SlotsWritten'
    BY <1>3, ObjectLasts DEF Delete, Status, Speaks
  <2>2. stack' \in Seq(GoodCall)
    BY <1>3, PushedGood DEF Delete
  <2>. QED  BY <1>1, <2>1, <2>2, NamedKept
<1>4. CASE QtDelete(o)
  <2>1. Lasting /\ SlotsWritten'
    BY <1>4, ObjectLasts DEF QtDelete, Status, Speaks
  <2>2. stack' \in Seq(GoodCall)
    BY <1>4, PushedGood DEF QtDelete
  <2>. QED  BY <1>1, <2>1, <2>2, NamedKept
<1>5. CASE QtDeleteSilently(o)
  <2>1. Lasting /\ SlotsWritten'
    BY <1>5, ObjectLasts DEF QtDeleteSilently, Status
  <2>2. stack' \in Seq(GoodCall)
    BY <1>5, TrimmedGood DEF QtDeleteSilently, Disconnect, NamedInv
  <2>. QED  BY <1>1, <2>1, <2>2, NamedKept
<1>6. CASE DropOrphan(o)
  <2>1. Lasting /\ SlotsWritten'
    BY <1>6, ObjectLasts DEF DropOrphan, Status
  <2>. QED  BY <1>1, <1>6, <2>1, NamedKept DEF DropOrphan, NamedInv
<1>7. CASE StaleLinks = FALSE /\ Rewrap(o)
  <2>1. Lasting /\ SlotsWritten'
    BY <1>7, ObjectLasts DEF Rewrap, Status
  <2>. QED  BY <1>1, <1>7, <2>1, NamedKept DEF Rewrap, NamedInv
<1>. QED  BY <1>2, <1>3, <1>4, <1>5, <1>6, <1>7

LEMMA DeletedNamed == ASSUME NamedInv, Deleted PROVE NamedInv'
<1>1. Keeps /\ stack # <<>>
  BY DeletedKeeps DEF NamedInv, Deleted, AtTop
<1>2. Top.o \in Object /\ stack' \in Seq(GoodCall)
  BY <1>1, EndingGood DEF Deleted, GoodCall, Call
<1>3. Lasting /\ SlotsWritten'
  BY <1>2, ObjectLasts DEF Deleted, Status
<1>. QED  BY <1>1, <1>2, <1>3, NamedKept

LEMMA DestructorEndsNamed == ASSUME NamedInv, DestructorEnds PROVE NamedInv'
<1>1. Keeps /\ stack # <<>> /\ DropTable(Top.o)
  BY DestructorEndsKeeps DEF NamedInv, DestructorEnds, AtTop
<1>2. Top.o \in Object /\ Ending("builtin") \in Seq(GoodCall)
  BY <1>1, EndingGood DEF GoodCall, Call
<1>3. stack' \in Seq(GoodCall)
  BY <1>2, TrimmedGood DEF DestructorEnds, Disconnect
<1>4. \E st \in {"gone", "forgotten"} : obj' = [obj EXCEPT ![Top.o] = st]
  BY DEF DestructorEnds
<1>5. Lasting /\ SlotsWritten'
  BY <1>1, <1>2, <1>4, ObjectLasts DEF Status
<1>. QED  BY <1>1, <1>3, <1>5, NamedKept

LEMMA createSignalNamed ==
    ASSUME NamedInv, NEW o \in Object, NEW s \in Name, createSignal(o, s)
    PROVE  NamedInv'
<1>1. Keeps /\ Lasting /\ SlotsWritten'
  BY createSignalKeeps, createSignalLasts DEF NamedInv
<1>. QED  BY <1>1, NamedKept DEF createSignal, NamedInv

-----------------------------------------------------------------------------
(* connect() makes connections that are named *)

\* The index that a name gets leads to it.
LEMMA SignalLeads ==
    ASSUME IInv, NEW o \in Object, NEW s \in Name, getSignalIndex(o, s) >= 0
    PROVE  Leads(o, getSignalIndex(o, s), Signal(s))
<1>1. methodCount \in Nat /\ indexOf(Signal(s)) \in -1..(methodCount - 1)
  BY IndexType
<1>2. signalIndices[o][s] \in Int
  BY DEF IInv, TypeOK, TablesOK
<1>3. Signal(s).kind = "signal" /\ Signal(s).name = s
  BY DEF Signal
<1>4. CASE indexOf(Signal(s)) >= 0
  BY <1>1, <1>4 DEF getSignalIndex, Leads
<1>5. CASE ~(indexOf(Signal(s)) >= 0)
  <2>1. signalIndices[o][s] >= 0 /\ getSignalIndex(o, s) = signalIndices[o][s] + methodCount
    BY <1>1, <1>2, <1>5 DEF getSignalIndex
  <2>. QED  BY <1>1, <1>2, <1>3, <1>5, <2>1 DEF Leads
<1>. QED  BY <1>4, <1>5

\* A method is none of the Qt class.
LEMMA NoStaticMethod == ASSUME NEW s \in Name PROVE indexOf(Method(s)) < 0
  BY StaticAssumption DEF indexOf, Method

\* So does the index of the slot that is asked for, after connect() added it.
LEMMA SlotLeads ==
    ASSUME NamedInv, NEW p \in Object, NEW target \in Target, target.kind = "slot",
           obj[p] \notin {"new", "forgotten"}, NEW id, id = getSlotIndex(p, target.name),
           id >= 0, NEW asked, asked = Asked(p, target),
           IF NeedsSlot(p, target.name) THEN AddSlot(p, target.name) ELSE UNCHANGED tables
    PROVE  Leads(p, id, asked)'
<1>. DEFINE m == target.name
<1>1. m \in Name /\ target = Slot(m)
  BY DEF Target, Slot
<1>2. methodCount \in Nat /\ indexOf(Slot(m)) \in -1..(methodCount - 1)
      /\ Len(methodList[p]) \in Nat
  BY IndexType, Lengths DEF NamedInv
<1>3. slotIndices[p][m] \in Int
  BY <1>1 DEF NamedInv, IInv, TypeOK, TablesOK
<1>4. Method(m).kind = "method" /\ Method(m).name = m /\ indexOf(Method(m)) < 0
  BY <1>1, NoStaticMethod DEF Method
<1>5. CASE slotIndices[p][m] >= 0
  <2>1. m \in Methods[p] /\ obj[p] # "rewrapped" /\ ~NeedsSlot(p, m)
    BY <1>1, <1>3, <1>5 DEF NamedInv, SlotsWritten, NeedsSlot
  <2>2. asked = Method(m) /\ id = slotIndices[p][m] + methodCount
    BY <1>5, <2>1 DEF Asked, getSlotIndex
  <2>3. UNCHANGED slotIndices
    BY <2>1 DEF tables
  <2>. QED  BY <1>2, <1>3, <1>4, <1>5, <2>2, <2>3 DEF Leads, methodCount, indexOf
<1>6. CASE NeedsSlot(p, m)
  <2>1. m \in Methods[p] /\ obj[p] # "rewrapped" /\ ~(slotIndices[p][m] >= 0)
    BY <1>3, <1>6 DEF NeedsSlot
  <2>2. asked = Method(m) /\ id = Len(methodList[p]) + methodCount
    BY <1>6, <2>1 DEF Asked, getSlotIndex
  <2>3. slotIndices'[p][m] = Len(methodList[p])
    BY <1>1, <1>6 DEF AddSlot, Table, NamedInv, IInv, TypeOK, TablesOK
  <2>. QED  BY <1>2, <1>4, <2>2, <2>3 DEF Leads, methodCount, indexOf
<1>7. CASE ~(slotIndices[p][m] >= 0) /\ ~NeedsSlot(p, m)
  <2>1. ~(m \in Methods[p] /\ obj[p] # "rewrapped")
    BY <1>3, <1>7 DEF NeedsSlot
  <2>2. asked = target /\ id = indexOf(Slot(m))
    BY <1>7, <2>1 DEF Asked, getSlotIndex
  <2>3. id < methodCount /\ id = indexOf(asked)
    BY <1>1, <1>2, <2>2
  <2>. QED  BY <2>3 DEF Leads, methodCount, indexOf
<1>. QED  BY <1>5, <1>6, <1>7

\* Both indices of a new connection lead to what connect() was given.
LEMMA connectNamed ==
    ASSUME NamedInv, NEW o \in Object, NEW s \in Name, NEW p \in Object,
           NEW target \in Target, connect(o, s, p, target)
    PROVE  NamedInv'
<1>1. CASE Abort("null_qobject") \/ Abort("null_receiver")
  BY <1>1, AbortNamed DEF Faults
<1>. DEFINE id == IF target.kind = "signal" THEN getSignalIndex(p, target.name)
                  ELSE getSlotIndex(p, target.name)
            new == target.kind = "slot" /\ NeedsSlot(p, target.name)
            c == [n |-> serial', sender |-> o, signal |-> Signal(s),
                  sid |-> getSignalIndex(o, s), receiver |-> p,
                  target |-> Asked(p, target), tid |-> id]
<1>2. CASE /\ Usable(o) /\ Usable(p) /\ id >= 0
           /\ IF new THEN AddSlot(p, target.name) ELSE UNCHANGED tables
           /\ \/ UNCHANGED <<conns, serial>>
              \/ /\ ~(getSignalIndex(o, s) < 0) /\ serial < MaxConnects
                 /\ serial' = serial + 1 /\ conns' = conns \cup {c}
           /\ UNCHANGED <<obj, stack, posted, fault>>
  <2>1. IInv'
    BY connectKeeps DEF NamedInv
  <2>2. target.name \in Name /\ target.kind \in {"signal", "slot"}
    BY DEF Target
  <2>3. obj[o] \notin {"new", "forgotten"} /\ obj[p] \notin {"new", "forgotten"}
    BY <1>2 DEF Usable
  <2>4. Lasting /\ SlotsWritten' /\ \A q \in Object : IndicesLast(q)
    BY <1>2, <2>2, <2>3, CallLasts, AddSlotLasts
  <2>5. serial \in Nat /\ serial <= MaxConnects /\ MaxConnects \in Nat
    BY LimitsAssumption DEF NamedInv, IInv, TypeOK
  <2>6. CASE UNCHANGED <<conns, serial>>
    <3>1. Shrinks
      BY <1>2, <2>6, StillShrinks DEF NamedInv, IInv
    <3>. QED  BY <1>2, <2>1, <2>4, <3>1, StepNamed DEF NamedInv
  <2>7. CASE /\ ~(getSignalIndex(o, s) < 0) /\ serial < MaxConnects
             /\ serial' = serial + 1 /\ conns' = conns \cup {c}
    <3>. DEFINE sid == getSignalIndex(o, s)
                asked == Asked(p, target)
    <3>1. sid \in Nat /\ Leads(o, sid, Signal(s)) /\ Signal(s) \in Member
          /\ Signal(s).kind = "signal"
      <4>1. sid \in Nat /\ sid >= 0
        BY <2>7, SignalIndexType, IndexType, Lengths DEF NamedInv, IInv, TypeOK
      <4>. QED  BY <4>1, SignalLeads DEF NamedInv, Signal, Member
    <3>2. ASSUME NEW d, d = asked, NEW i, i = id PROVE Leads(p, i, d)'
      <4>1. CASE target.kind = "slot"
        BY <1>2, <2>2, <2>3, <3>2, <4>1, SlotLeads
      <4>2. CASE target.kind = "signal"
        <5>1. target = Signal(target.name) /\ asked = target
          BY <4>2 DEF Target, Signal, Asked
        <5>2. i \in Nat /\ d \in Member /\ Leads(p, i, d)
          BY <1>2, <2>2, <3>2, <4>2, <5>1, SignalLeads, SignalIndexType, IndexType, Lengths
             DEF NamedInv, IInv, TypeOK, Signal, Member
        <5>. QED  BY <2>4, <5>2, LeadsLasts DEF NamedInv
      <4>. QED  BY <2>2, <4>1, <4>2
    <3>3. ASSUME NEW d, d = Signal(s), NEW i, i = sid PROVE Leads(o, i, d)'
      BY <2>4, <3>1, <3>3, LeadsLasts DEF NamedInv
    <3>4. \A q \in Object : obj'[q] = obj[q] /\ Speaks(q)' = Speaks(q)
      BY <1>2 DEF Speaks
    <3>5. /\ c.n = serial' /\ c.sender = o /\ c.signal = Signal(s) /\ c.sid = sid
          /\ c.receiver = p /\ c.target = asked /\ c.tid = id
      OBVIOUS
    <3>. HIDE DEF c, id, sid, asked, new
    <3>6. Pending' = Pending \cup {c}
      BY <1>2, <2>7 DEF Pending
    <3>7. ASSUME NEW d \in Pending
          PROVE  NamedAs(d)' /\ d.n <= serial /\ d.n \in Nat
      <4>1. d \in Connection /\ NamedAs(d)
        BY PendingType DEF NamedInv, IInv, AllNamed
      <4>2. /\ d.sender \in Object /\ d.receiver \in Object
            /\ d.sid \in Nat /\ d.tid \in Nat /\ d.n \in Nat
            /\ d.signal \in Member /\ d.target \in Member
        BY <4>1 DEF Connection
      <4>3. d.n <= serial /\ d.n <= serial'
        BY <2>5, <2>7, <4>1, <4>2 DEF NamedAs
      <4>4. Leads(d.sender, d.sid, d.signal) => Leads(d.sender, d.sid, d.signal)'
        BY <2>4, <4>2, LeadsLasts DEF NamedInv
      <4>5. Leads(d.receiver, d.tid, d.target) => Leads(d.receiver, d.tid, d.target)'
        BY <2>4, <4>2, LeadsLasts DEF NamedInv
      <4>. QED  BY <3>4, <4>1, <4>2, <4>3, <4>4, <4>5 DEF NamedAs, methodCount
    <3>8. ASSUME NEW d, d = c PROVE NamedAs(d)'
      BY <2>3, <2>5, <2>7, <3>1, <3>2, <3>3, <3>4, <3>5, <3>8 DEF NamedAs
    <3>9. AllNamed'
      BY <3>6, <3>7, <3>8 DEF AllNamed
    <3>10. Numbered'
      BY <2>5, <2>7, <3>5, <3>6, <3>7 DEF NamedInv, Numbered
    <3>. QED  BY <1>2, <2>1, <2>4, <2>5, <2>7, <3>9, <3>10 DEF NamedInv
  <2>. QED  BY <1>2, <2>6, <2>7
<1>3. \/ Abort("null_qobject") \/ Abort("null_receiver")
      \/ /\ Usable(o) /\ Usable(p) /\ id >= 0
         /\ IF new THEN AddSlot(p, target.name) ELSE UNCHANGED tables
         /\ \/ UNCHANGED <<conns, serial>>
            \/ /\ ~(getSignalIndex(o, s) < 0) /\ serial < MaxConnects
               /\ serial' = serial + 1 /\ conns' = conns \cup {c}
         /\ UNCHANGED <<obj, stack, posted, fault>>
  BY DEF connect, connectDynamic
<1>. QED  BY <1>1, <1>2, <1>3

\* One step, action by action.
LEMMA NextNamed ==
    ASSUME NamedInv, [Next]_vars, StaleLinks = FALSE PROVE NamedInv'
<1>1. CASE UNCHANGED vars
  <2>1. Shrinks /\ UNCHANGED <<obj, tables, fault>>
    BY <1>1, StillShrinks DEF vars, tables, NamedInv, IInv
  <2>2. Keeps
    BY <2>1, CallStep DEF NamedInv
  <2>. QED  BY <1>1, <2>1, <2>2, CallNamed DEF NamedInv, vars
<1>2. CASE Next
  BY <1>2, ActivateNamed, ProcessEventNamed, ReturnNamed, DeletedNamed,
     DestructorEndsNamed, ObjectNamed, createSignalNamed, EmissionNamed, connectNamed
     DEF Next
<1>. QED  BY <1>1, <1>2

LEMMA InitNamed == Init => NamedInv
<1>. SUFFICES ASSUME Init PROVE NamedInv
  OBVIOUS
<1>1. IInv
  BY InitIInv
<1>2. Pending = {}
  BY PendingIs DEF Init, Rests
<1>3. SlotsWritten
  BY DEF Init, SlotsWritten, NoIndices
<1>. QED  BY <1>1, <1>2, <1>3, LimitsAssumption DEF NamedInv, AllNamed, Numbered, Init

-----------------------------------------------------------------------------
(* What SignalSlots sees of a state *)

ReachedIn == {c \in Connection : Reached(c)}
Shown(f, R) == [who |-> f.o, member |-> f.member, due |-> {Due(c) : c \in f.rest \cap R}]
ShownAll(s, R) == [i \in DOMAIN s |-> Shown(s[i], R)]
Seen == [who : Object, member : Member \cup {None},
         due : SUBSET [n : Nat, to : Object, member : Member]]

LEMMA CallsAre == TypeOK => Calls = ShownAll(stack, ReachedIn)
<1>. SUFFICES ASSUME TypeOK PROVE Calls = ShownAll(stack, ReachedIn)
  OBVIOUS
<1>1. ASSUME NEW i \in DOMAIN stack
      PROVE  {Due(c) : c \in {x \in stack[i].rest : Reached(x)}} =
             {Due(c) : c \in stack[i].rest \cap ReachedIn}
  <2>1. stack[i] \in Call
    BY DEF TypeOK
  <2>2. stack[i].rest \subseteq Connection
    BY <2>1 DEF Call
  <2>3. {x \in stack[i].rest : Reached(x)} = stack[i].rest \cap ReachedIn
    BY <2>2 DEF ReachedIn
  <2>. QED  BY <2>3
<1>. QED  BY <1>1 DEF Calls, ShownAll, Shown

LEMMA CallsWillBe == TypeOK' => Calls' = ShownAll(stack', ReachedIn')
<1>1. TypeOK => Calls = ShownAll(stack, ReachedIn)
  BY CallsAre
<1>2. (TypeOK => Calls = ShownAll(stack, ReachedIn))'
  BY <1>1, PTL
<1>. QED  BY <1>2 DEF ShownAll, Shown, Due

LEMMA ShownType ==
    ASSUME NEW f \in Call, NEW R \in SUBSET Connection PROVE Shown(f, R) \in Seen
<1>1. ASSUME NEW c \in f.rest \cap R PROVE Due(c) \in [n : Nat, to : Object, member : Member]
  BY DEF Due, Connection
<1>. QED  BY <1>1 DEF Shown, Seen, Call

LEMMA ShownAllType ==
    ASSUME NEW s \in Seq(Call), NEW R \in SUBSET Connection
    PROVE  /\ ShownAll(s, R) \in Seq(Seen) /\ Len(ShownAll(s, R)) = Len(s)
           /\ DOMAIN ShownAll(s, R) = DOMAIN s
           /\ \A i \in 1..Len(s) : ShownAll(s, R)[i] = Shown(s[i], R)
<1>1. \A i \in DOMAIN s : Shown(s[i], R) \in Seen
  BY ShownType
<1>. QED  BY <1>1 DEF ShownAll

\* Calls that are pushed and that end.
LEMMA ShownPush ==
    ASSUME NEW s \in Seq(Call), NEW f \in Call, NEW R \in SUBSET Connection
    PROVE  ShownAll(<<f>> \o s, R) = <<Shown(f, R)>> \o ShownAll(s, R)
<1>. DEFINE t == <<f>> \o s
            shown == Shown(f, R)
            before == ShownAll(s, R)
            after == ShownAll(t, R)
<1>1. t \in Seq(Call) /\ Len(t) = Len(s) + 1 /\ Len(s) \in Nat
      /\ \A i \in 1..Len(t) : t[i] = IF i = 1 THEN f ELSE s[i - 1]
  OBVIOUS
<1>2. shown \in Seen
  BY ShownType
<1>3. before \in Seq(Seen) /\ Len(before) = Len(s)
      /\ \A i \in 1..Len(s) : before[i] = Shown(s[i], R)
  BY ShownAllType
<1>4. after \in Seq(Seen) /\ Len(after) = Len(t)
      /\ \A i \in 1..Len(t) : after[i] = Shown(t[i], R)
  <2>. HIDE DEF t
  <2>. QED  BY <1>1, ShownAllType
<1>5. \A i \in 1..Len(t) : after[i] = IF i = 1 THEN shown ELSE before[i - 1]
  <2>. HIDE DEF t, before, after
  <2>. QED  BY <1>1, <1>3, <1>4
<1>. HIDE DEF t, shown, before, after
<1>6. <<shown>> \o before \in Seq(Seen) /\ Len(<<shown>> \o before) = Len(t)
      /\ \A i \in 1..Len(t) : (<<shown>> \o before)[i] = IF i = 1 THEN shown ELSE before[i - 1]
  BY <1>1, <1>2, <1>3
<1>7. after = <<shown>> \o before
  BY <1>4, <1>5, <1>6, SeqEqual
<1>. QED  BY <1>7 DEF t, shown, before, after

LEMMA ShownTop ==
    ASSUME NEW s \in Seq(Call), s # <<>>, NEW R \in SUBSET Connection
    PROVE  /\ ShownAll(s, R) # <<>> /\ Head(ShownAll(s, R)) = Shown(Head(s), R)
           /\ Tail(ShownAll(s, R)) = ShownAll(Tail(s), R)
<1>. DEFINE t == Tail(s)
            all == ShownAll(s, R)
            rest == ShownAll(t, R)
<1>1. t \in Seq(Call) /\ Len(s) \in Nat /\ Len(s) > 0 /\ Len(t) = Len(s) - 1
      /\ \A i \in 1..Len(t) : t[i] = s[i + 1]
  OBVIOUS
<1>2. all \in Seq(Seen) /\ Len(all) = Len(s) /\ \A i \in 1..Len(s) : all[i] = Shown(s[i], R)
  BY ShownAllType
<1>3. rest \in Seq(Seen) /\ Len(rest) = Len(t) /\ \A i \in 1..Len(t) : rest[i] = Shown(t[i], R)
  <2>. HIDE DEF t
  <2>. QED  BY <1>1, ShownAllType
<1>4. all # <<>> /\ Head(all) = Shown(Head(s), R)
  <2>. HIDE DEF all
  <2>. QED  BY <1>1, <1>2
<1>5. Tail(all) \in Seq(Seen) /\ Len(Tail(all)) = Len(t)
      /\ \A i \in 1..Len(t) : Tail(all)[i] = rest[i]
  <2>. HIDE DEF all, rest, t
  <2>. QED  BY <1>1, <1>2, <1>3, <1>4
<1>6. Tail(all) = rest
  <2>. HIDE DEF all, rest, t
  <2>. QED  BY <1>3, <1>5, SeqEqual
<1>. QED  BY <1>4, <1>6

\* Connections that no call has to serve make no difference.
LEMMA ShownSame ==
    ASSUME NEW s \in Seq(Call), NEW R, NEW T, Rests(s) \cap R = Rests(s) \cap T
    PROVE  ShownAll(s, R) = ShownAll(s, T)
<1>1. ASSUME NEW i \in DOMAIN s PROVE Shown(s[i], R) = Shown(s[i], T)
  <2>1. s[i].rest \subseteq Rests(s)
    BY DEF Rests
  <2>2. s[i].rest \cap R = s[i].rest \cap T
    BY <2>1
  <2>. QED  BY <2>2 DEF Shown
<1>. QED  BY <1>1 DEF ShownAll

-----------------------------------------------------------------------------
(* Steps that SignalSlots does not see, and calls that call nobody *)

SameReach ==
    \A c \in Pending : (Reached(c)' <=> Reached(c)) /\ (Linked(c)' <=> Linked(c))

LEMMA SameLinks ==
    ASSUME SameReach, conns' = conns PROVE Links' = Links
<1>1. \A c \in conns : Linked(c)' <=> Linked(c)
  BY DEF SameReach, Pending
<1>2. {x \in conns' : Linked(x)'} = {x \in conns : Linked(x)}
  BY <1>1
<1>. QED  BY <1>2 DEF Links

LEMMA SamePosted ==
    ASSUME SameReach, posted' = posted PROVE PostedCalls' = PostedCalls
<1>1. \A e \in posted : Reached(e.c)' <=> Reached(e.c)
  BY DEF SameReach, Pending
<1>2. {x \in posted' : Reached(x.c)'} = {x \in posted : Reached(x.c)}
  BY <1>1
<1>. QED  BY <1>2 DEF PostedCalls, Due

LEMMA SameShown ==
    ASSUME TypeOK, SameReach PROVE ShownAll(stack, ReachedIn') = Calls
<1>1. Rests(stack) \subseteq Pending /\ Rests(stack) \subseteq Connection
  BY PendingIs, PendingType
<1>2. Rests(stack) \cap ReachedIn' = Rests(stack) \cap ReachedIn
  BY <1>1 DEF SameReach, ReachedIn, Connection
<1>. HIDE DEF ReachedIn
<1>3. ShownAll(stack, ReachedIn') = ShownAll(stack, ReachedIn)
  BY <1>2, ShownSame DEF TypeOK
<1>. QED  BY <1>3, CallsAre

LEMMA SameObjectsReach ==
    ASSUME obj' = obj PROVE SameReach /\ ReachedIn' = ReachedIn
  BY DEF SameReach, Reached, Linked, Reacts, Speaks, methodCount, ReachedIn, Connection

Unseen == UNCHANGED <<Links, Calls, PostedCalls>>

LEMMA StutterStep ==
    ASSUME TypeOK, TypeOK', SameReach, UNCHANGED <<conns, stack, posted>>
    PROVE  Unseen
<1>1. Calls' = ShownAll(stack, ReachedIn')
  BY CallsWillBe
<1>. QED  BY <1>1, SameLinks, SamePosted, SameShown DEF Unseen

LEMMA SilentStep ==
    ASSUME TypeOK, TypeOK', SameReach, conns' = conns, PostedCalls' = PostedCalls,
           NEW o \in Object, NEW op \in {"builtin", "deleted", "destructor"},
           Push(Frame(op, o, None, {}))
    PROVE  ByName!Silent(o)
<1>. DEFINE f == Frame(op, o, None, {})
<1>1. f \in Call /\ \A R : Shown(f, R) = ByName!Call(o, None, {})
  BY DEF Frame, Call, Shown, ByName!Call
<1>2. stack' = <<f>> \o stack /\ stack \in Seq(Call)
  BY DEF Push, TypeOK
<1>. HIDE DEF f
<1>3. ReachedIn' \in SUBSET Connection
  BY DEF ReachedIn, Connection
<1>4. Calls' = <<Shown(f, ReachedIn')>> \o ShownAll(stack, ReachedIn')
  BY <1>1, <1>2, <1>3, CallsWillBe, ShownPush
<1>5. Calls' = <<ByName!Call(o, None, {})>> \o Calls
  BY <1>1, <1>4, SameShown
<1>. QED  BY <1>5, SameLinks DEF ByName!Silent, ByName!Enter

LEMMA AbortUnseen ==
    ASSUME TypeOK, TypeOK', NEW f, Abort(f) PROVE Unseen
  BY SameObjectsReach, StutterStep DEF Abort

\* Objects that start to live, or lose what nobody can reach.
LEMMA CreateUnseen ==
    ASSUME NamedInv, TypeOK', NEW o \in Object, Create(o) PROVE Unseen
<1>1. ASSUME NEW p \in Object, obj[p] # "new" PROVE obj'[p] = obj[p]
  BY <1>1 DEF Create, NamedInv, IInv, TypeOK
<1>2. ASSUME NEW c \in Pending
      PROVE  obj'[c.sender] = obj[c.sender] /\ obj'[c.receiver] = obj[c.receiver]
  <2>1. c \in Connection /\ NamedAs(c)
    BY PendingType DEF NamedInv, IInv, AllNamed
  <2>. QED  BY <1>1, <2>1 DEF Connection, NamedAs
<1>3. SameReach
  BY <1>2 DEF SameReach, Reached, Linked, Reacts, Speaks, methodCount
<1>. QED  BY <1>3, StutterStep DEF Create, NamedInv, IInv

LEMMA DropOrphanUnseen ==
    ASSUME NamedInv, TypeOK', NEW o \in Object, DropOrphan(o) PROVE Unseen
<1>1. ASSUME NEW p \in Object PROVE Speaks(p)' <=> Speaks(p)
  BY DEF DropOrphan, NamedInv, IInv, TypeOK, Speaks
<1>2. ASSUME NEW c \in Pending PROVE c.sender \in Object /\ c.receiver \in Object
  BY PendingType DEF NamedInv, IInv, Connection
<1>3. SameReach
  BY <1>1, <1>2 DEF SameReach, Reached, Linked, Reacts, methodCount
<1>. QED  BY <1>3, StutterStep DEF DropOrphan, NamedInv, IInv

LEMMA RewrapUnseen ==
    ASSUME NamedInv, TypeOK', StaleLinks = FALSE, NEW o \in Object, Rewrap(o)
    PROVE  Unseen
<1>1. ASSUME NEW p \in Object, p # o PROVE Speaks(p)' <=> Speaks(p)
  BY <1>1 DEF Rewrap, NamedInv, IInv, TypeOK, Speaks
<1>2. methodCount \in Nat
  BY IndexType
<1>3. ASSUME NEW c \in Pending
      PROVE  /\ c.sender \in Object /\ c.receiver \in Object
             /\ c.sender = o => c.sid < methodCount
             /\ c.receiver = o => c.tid < methodCount
  <2>1. c \in Connection
    BY PendingType DEF NamedInv, IInv
  <2>2. ~Stale(o)
    BY DEF Rewrap
  <2>. QED  BY <1>2, <2>1, <2>2 DEF Connection, Stale
<1>4. SameReach
  BY <1>1, <1>3 DEF SameReach, Reached, Linked, Reacts, methodCount
<1>. QED  BY <1>4, StutterStep DEF Rewrap, NamedInv, IInv

\* The delete operator and Qt start a destructor.
LEMMA DestructorSilent ==
    ASSUME NamedInv, TypeOK', NEW o \in Object, Delete(o) \/ QtDelete(o)
    PROVE  ByName!Silent(o)
<1>1. ASSUME NEW p \in Object PROVE Speaks(p)' <=> Speaks(p)
  BY DEF Delete, QtDelete, NamedInv, IInv, TypeOK, Speaks
<1>2. ASSUME NEW c \in Pending PROVE c.sender \in Object /\ c.receiver \in Object
  BY PendingType DEF NamedInv, IInv, Connection
<1>3. SameReach
  BY <1>1, <1>2 DEF SameReach, Reached, Linked, Reacts, methodCount
<1>4. conns' = conns /\ PostedCalls' = PostedCalls
  BY <1>3, SamePosted DEF Delete, QtDelete
<1>. QED  BY <1>3, <1>4, SilentStep DEF Delete, QtDelete, NamedInv, IInv

-----------------------------------------------------------------------------
(* Emissions *)

\* The method of an index is the one it leads to, ...
LEMMA LeadsMember ==
    ASSUME IInv, NEW o \in Object, NEW id \in Nat, NEW m \in Member, Leads(o, id, m)
    PROVE  MemberOf(o, id) = m
<1>1. methodCount \in Nat
  BY IndexType
<1>2. m.name \in Name /\ m.kind \in {"signal", "slot", "method"}
      /\ m = [kind |-> m.kind, name |-> m.name]
  BY DEF Member
<1>3. CASE id < methodCount
  BY <1>3, IndexType DEF Leads, MemberOf
<1>4. CASE ~(id < methodCount)
  <2>1. id - methodCount >= 0
    BY <1>1, <1>4
  <2>2. Describe(methodList[o], signalIndices[o], slotIndices[o])
    BY DEF IInv, IndicesSound
  <2>3. CASE m.kind = "signal"
    <3>1. signalIndices[o][m.name] = id - methodCount
      BY <1>4, <2>3 DEF Leads
    <3>. QED  BY <1>2, <1>4, <2>1, <2>2, <2>3, <3>1 DEF Describe, MemberOf, Signal
  <2>4. CASE m.kind # "signal"
    <3>1. slotIndices[o][m.name] = id - methodCount /\ m.kind = "method"
      BY <1>2, <1>4, <2>4 DEF Leads
    <3>. QED  BY <1>2, <1>4, <2>1, <2>2, <3>1 DEF Describe, MemberOf, Method
  <2>. QED  BY <2>3, <2>4
<1>. QED  BY <1>3, <1>4

\* ... a member has one index, ...
LEMMA LeadsOnce ==
    ASSUME NEW o, NEW id \in Nat, NEW jd \in Nat, NEW m, Leads(o, id, m), Leads(o, jd, m)
    PROVE  id = jd
<1>1. methodCount \in Nat
  BY IndexType
<1>. QED  BY <1>1 DEF Leads

\* ... and what Qore added has an index behind those of the Qt class.
LEMMA LeadsOwn ==
    ASSUME NEW o, NEW id \in Nat, NEW m \in Member, Leads(o, id, m)
    PROVE  id < methodCount <=> m \notin Own
<1>1. methodCount \in Nat /\ DOMAIN Static = 1..methodCount
  BY StaticAssumption DEF methodCount
<1>2. CASE id < methodCount
  <2>1. id = indexOf(m) /\ Static[id + 1] = m /\ id + 1 \in DOMAIN Static
    BY <1>1, <1>2, IndexType DEF Leads
  <2>. QED  BY <1>2, <2>1, StaticAssumption DEF Own
<1>3. CASE ~(id < methodCount)
  <2>1. indexOf(m) < 0
    BY <1>3 DEF Leads
  <2>2. ASSUME NEW i \in DOMAIN Static, Static[i] = m PROVE FALSE
    <3>1. indexOf(m) = (CHOOSE j \in DOMAIN Static : Static[j] = m) - 1
      BY <2>2 DEF indexOf
    <3>2. (CHOOSE j \in DOMAIN Static : Static[j] = m) \in 1..methodCount
      BY <1>1, <2>2
    <3>. QED  BY <1>1, <2>1, <3>1, <3>2
  <2>. QED  BY <1>3, <2>2 DEF Own
<1>. QED  BY <1>2, <1>3

\* What the table has to serve is what is linked by name.
LEMMA DueIs ==
    ASSUME NamedInv, NEW o \in Object, NEW id \in Nat, NEW m \in Member,
           m.kind = "signal", Leads(o, id, m), id < methodCount \/ Speaks(o)
    PROVE  {Due(c) : c \in Connected(o, id) \cap ReachedIn} = ByName!Due(o, m)
<1>1. ASSUME NEW c \in conns, c.sender = o, Reached(c)
      PROVE  c.sid = id <=> Linked(c) /\ c.signal = m
  <2>1. c \in Connection /\ NamedAs(c)
    BY PendingType DEF NamedInv, IInv, AllNamed, Pending
  <2>2. c.sid \in Nat /\ c.signal \in Member
    BY <2>1 DEF Connection
  <2>3. ASSUME c.sid = id PROVE Linked(c) /\ c.signal = m
    <3>1. Leads(o, id, c.signal)
      BY <1>1, <2>1, <2>3 DEF NamedAs
    <3>2. c.signal = m
      BY <2>2, <3>1, LeadsMember DEF NamedInv
    <3>. QED  BY <1>1, <2>3, <3>2 DEF Linked
  <2>4. ASSUME Linked(c), c.signal = m PROVE c.sid = id
    <3>1. Leads(o, c.sid, m)
      BY <1>1, <2>1, <2>4 DEF Linked, NamedAs
    <3>. QED  BY <2>2, <3>1, LeadsOnce
  <2>. QED  BY <2>3, <2>4
<1>2. conns \subseteq Connection
  BY DEF NamedInv, IInv, TypeOK
<1>3. Connected(o, id) \cap ReachedIn = {c \in conns : Linked(c) /\ c.sender = o /\ c.signal = m}
  BY <1>1, <1>2 DEF Connected, ReachedIn, Linked
<1>4. ByName!Due(o, m) = {Due(c) : c \in {x \in conns : Linked(x) /\ x.sender = o /\ x.signal = m}}
  <2>. DEFINE C == {x \in conns : Linked(x) /\ x.sender = o /\ x.signal = m}
              link(c) == [n |-> c.n, from |-> c.sender, signal |-> c.signal,
                          to |-> c.receiver, member |-> c.target]
              L == {l \in Links : l.from = o /\ l.signal = m}
  <2>1. L = {link(c) : c \in C}
    BY DEF Links
  <2>2. ByName!Due(o, m) = {[n |-> l.n, to |-> l.to, member |-> l.member] : l \in L}
    BY DEF ByName!Due, ByName!Delivery
  <2>3. \A c : Due(c) = [n |-> link(c).n, to |-> link(c).to, member |-> link(c).member]
    BY DEF Due
  <2>. HIDE DEF L, C, link
  <2>. QED  BY <2>1, <2>2, <2>3 DEF C
<1>. QED  BY <1>3, <1>4

LEMMA EmissionSeen ==
    ASSUME NamedInv, NEW o \in Object, NEW id \in Nat, NEW m \in Member,
           m.kind = "signal", Leads(o, id, m), id < methodCount \/ Speaks(o)
    PROVE  Shown(Activation(o, id), ReachedIn) = ByName!Call(o, m, ByName!Due(o, m))
<1>1. MemberOf(o, id) = m
  BY LeadsMember DEF NamedInv
<1>. QED  BY <1>1, DueIs DEF Shown, Activation, Frame, ByName!Call

LEMMA EmitStep ==
    ASSUME NamedInv, TypeOK', NEW o \in Object, NEW s \in Name, NEW id \in Nat,
           id < methodCount + Len(methodList[o]),
           Leads(o, id, Signal(s)), id < methodCount \/ Speaks(o),
           Push(Activation(o, id)), UNCHANGED <<obj, conns, posted>>
    PROVE  ByName!Emit(o, Signal(s))
<1>. DEFINE f == Activation(o, id)
<1>1. Signal(s) \in Member /\ Signal(s).kind = "signal"
  BY DEF Signal, Member
<1>2. f \in Call
  BY ActivationType DEF NamedInv, IInv
<1>3. Shown(f, ReachedIn) = ByName!Call(o, Signal(s), ByName!Due(o, Signal(s)))
  BY <1>1, EmissionSeen
<1>4. stack' = <<f>> \o stack /\ stack \in Seq(Call) /\ TypeOK
  BY DEF Push, NamedInv, IInv, TypeOK
<1>. HIDE DEF f
<1>5. SameReach /\ ReachedIn' = ReachedIn /\ ReachedIn \in SUBSET Connection
  BY SameObjectsReach DEF ReachedIn
<1>6. Calls' = <<Shown(f, ReachedIn)>> \o Calls
  BY <1>2, <1>4, <1>5, CallsWillBe, CallsAre, ShownPush
<1>. QED  BY <1>3, <1>5, <1>6, SameLinks, SamePosted DEF ByName!Emit, ByName!Enter

LEMMA emitSignalStep ==
    ASSUME NamedInv, TypeOK', NEW o \in Object, NEW s \in Name, emitSignal(o, s)
    PROVE  ByName!Emit(o, Signal(s)) \/ Unseen
<1>1. CASE Abort("null_qobject")
  BY <1>1, AbortUnseen DEF NamedInv, IInv
<1>2. CASE /\ Usable(o) /\ ~NullQObject(o) /\ getSignalIndex(o, s) >= 0
           /\ Push(Activation(o, getSignalIndex(o, s)))
           /\ UNCHANGED <<obj, tables, conns, serial, posted, fault>>
  <2>1. getSignalIndex(o, s) \in Nat
        /\ getSignalIndex(o, s) < methodCount + Len(methodList[o])
    BY <1>2, SignalIndexType, IndexType DEF NamedInv, IInv, TypeOK
  <2>2. Leads(o, getSignalIndex(o, s), Signal(s)) /\ Speaks(o)
    BY <1>2, SignalLeads DEF NamedInv, Usable, NullQObject, Speaks
  <2>. QED  BY <1>2, <2>1, <2>2, EmitStep
<1>. QED  BY <1>1, <1>2 DEF emitSignal

LEMMA QtEmitStep ==
    ASSUME NamedInv, TypeOK', NEW o \in Object, NEW s \in Name, QtEmit(o, s)
    PROVE  ByName!Emit(o, Signal(s))
<1>1. indexOf(Signal(s)) \in Nat /\ indexOf(Signal(s)) < methodCount
      /\ indexOf(Signal(s)) < methodCount + Len(methodList[o])
  BY IndexType, Lengths DEF QtEmit, NamedInv
<1>2. Leads(o, indexOf(Signal(s)), Signal(s))
  BY <1>1 DEF Leads
<1>. QED  BY <1>1, <1>2, EmitStep DEF QtEmit

LEMMA emitFromThreadStep ==
    ASSUME NamedInv, TypeOK', NEW o \in Object, NEW s \in Name, emitFromThread(o, s)
    PROVE  ByName!Post(o, Signal(s))
<1>. DEFINE id == getSignalIndex(o, s)
            due == ByName!Due(o, Signal(s))
<1>1. id \in Nat /\ id >= 0
  BY SignalIndexType, IndexType DEF NamedInv, IInv, TypeOK, emitFromThread
<1>2. Leads(o, id, Signal(s)) /\ Speaks(o) /\ Signal(s) \in Member /\ Signal(s).kind = "signal"
  BY <1>1, SignalLeads DEF NamedInv, emitFromThread, Speaks, Signal, Member
<1>3. {Due(c) : c \in Connected(o, id) \cap ReachedIn} = due
  BY <1>1, <1>2, DueIs
<1>4. PICK k \in 1..MaxPosted :
        /\ \A e \in posted : e.k < k
        /\ posted' = posted \cup {[k |-> k, c |-> c] : c \in Connected(o, id)}
  BY DEF emitFromThread
<1>5. UNCHANGED <<obj, conns, stack>> /\ TypeOK /\ Connected(o, id) \subseteq Connection
  BY DEF emitFromThread, NamedInv, IInv, TypeOK, Connected
<1>6. SameReach
  BY <1>5, SameObjectsReach
<1>7. k \in 1..(MaxConnects + MaxPosted)
  BY LimitsAssumption
<1>8. Calls' = Calls /\ Links' = Links
  BY <1>5, <1>6, SameLinks, CallsWillBe, SameShown
<1>. HIDE DEF id, due
<1>9. \A e \in PostedCalls : e.k < k
  BY <1>4 DEF PostedCalls
<1>10. PostedCalls' = PostedCalls \cup {[k |-> k, d |-> d] : d \in due}
  <2>1. \A c \in Connection : Reached(c)' <=> Reached(c)
    BY <1>5 DEF Reached, Reacts, Speaks, methodCount
  <2>2. posted \subseteq [k : Nat, c : Connection]
    BY <1>5 DEF TypeOK
  <2>3. {x \in posted' : Reached(x.c)'} =
          {x \in posted : Reached(x.c)}
            \cup {[k |-> k, c |-> c] : c \in Connected(o, id) \cap ReachedIn}
    BY <1>4, <1>5, <2>1, <2>2 DEF ReachedIn
  <2>4. {[k |-> k, d |-> d] : d \in due} =
          {[k |-> k, d |-> Due(c)] : c \in Connected(o, id) \cap ReachedIn}
    BY <1>3
  <2>5. PostedCalls' = {[k |-> e.k, d |-> Due(e.c)] : e \in {x \in posted' : Reached(x.c)'}}
    BY DEF PostedCalls, Due
  <2>. DEFINE before == {x \in posted : Reached(x.c)}
              after == {x \in posted' : Reached(x.c)'}
              served == Connected(o, id) \cap ReachedIn
              entry(c) == [k |-> k, c |-> c]
              new == {entry(c) : c \in served}
              view(e) == [k |-> e.k, d |-> Due(e.c)]
  <2>6. {view(e) : e \in new} = {[k |-> k, d |-> d] : d \in due}
    <3>1. \A c : view(entry(c)) = [k |-> k, d |-> Due(c)]
      OBVIOUS
    <3>2. {view(e) : e \in new} = {[k |-> k, d |-> Due(c)] : c \in served}
      <4>. HIDE DEF served, entry, view
      <4>. QED  BY <3>1
    <3>. QED  BY <2>4, <3>2
  <2>7. PostedCalls = {view(e) : e \in before}
    BY DEF PostedCalls
  <2>8. PostedCalls' = {view(e) : e \in after}
    BY <2>5
  <2>9. after = before \cup new
    BY <2>3
  <2>. HIDE DEF before, after, served, entry, new, view
  <2>. QED  BY <2>6, <2>7, <2>8, <2>9
<1>. QED  BY <1>7, <1>8, <1>9, <1>10 DEF ByName!Post, due

-----------------------------------------------------------------------------
(* Calls that Qt makes *)

LEMMA ReturnStep ==
    ASSUME NamedInv, TypeOK', Return PROVE ByName!Return
<1>1. stack # <<>> /\ stack' = Tail(stack) /\ UNCHANGED <<obj, conns, posted>>
  BY DEF Return, AtTop
<1>2. Top \in GoodCall /\ Top = Head(stack) /\ TypeOK /\ stack \in Seq(Call)
  BY <1>1 DEF NamedInv, IInv, TypeOK, Top
<1>3. Top.rest = {}
  BY <1>2 DEF Return, AtTop, GoodCall
<1>4. SameReach /\ ReachedIn' = ReachedIn /\ ReachedIn \in SUBSET Connection
  BY <1>1, SameObjectsReach DEF ReachedIn
<1>5. Calls' = ShownAll(Tail(stack), ReachedIn) /\ Calls = ShownAll(stack, ReachedIn)
  BY <1>1, <1>2, <1>4, CallsWillBe, CallsAre
<1>. HIDE DEF ReachedIn
<1>6. Calls # <<>> /\ Head(Calls) = Shown(Top, ReachedIn) /\ Tail(Calls) = Calls'
  BY <1>1, <1>2, <1>4, <1>5, ShownTop
<1>7. Shown(Top, ReachedIn).due = {}
  BY <1>3 DEF Shown
<1>. QED  BY <1>1, <1>4, <1>6, <1>7, SameLinks, SamePosted DEF ByName!Return

\* A call along a connection starts what the link asks for, or nothing.
LEMMA MetacallSeen ==
    ASSUME NamedInv, NEW c \in Pending, MetacallFault(c.receiver, c.tid) = None
    PROVE  IF Reached(c)
           THEN Shown(Metacall(c.receiver, c.tid), ReachedIn) = ByName!Started(Due(c))
           ELSE Metacall(c.receiver, c.tid) = Frame("builtin", c.receiver, None, {})
<1>. DEFINE o == c.receiver
            id == c.tid
            m == c.target
            call == Metacall(o, id)
<1>1. c \in Connection /\ NamedAs(c)
  BY PendingType DEF NamedInv, IInv, AllNamed
<1>2. o \in Object /\ id \in Nat /\ m \in Member /\ methodCount \in Nat
  BY <1>1, IndexType DEF Connection
<1>3. CASE ~Reached(c)
  BY <1>3 DEF Reached, Metacall
<1>4. CASE Reached(c)
  <2>1. Leads(o, id, m) /\ (id < methodCount \/ Speaks(o))
    BY <1>1, <1>4 DEF Reached, Reacts, NamedAs
  <2>2. MemberOf(o, id) = m
    BY <1>2, <2>1, LeadsMember DEF NamedInv
  <2>3. ByName!Started(Due(c)) =
          ByName!Call(o, m, IF m.kind = "signal" THEN ByName!Due(o, m) ELSE {})
    BY DEF ByName!Started, Due
  <2>4. \A op : Shown(Frame(op, o, m, {}), ReachedIn) = ByName!Call(o, m, {})
    BY DEF Shown, Frame, ByName!Call
  <2>5. m.kind = "signal" => Shown(Activation(o, id), ReachedIn) =
                               ByName!Call(o, m, ByName!Due(o, m))
    BY <1>2, <2>1, EmissionSeen
  <2>6. call \in {IF m.kind = "signal" THEN Activation(o, id) ELSE Frame(op, o, m, {}) :
                    op \in {"builtin", "slot"}}
    <3>1. CASE id < methodCount
      BY <2>2, <3>1 DEF Metacall, MemberOf
    <3>2. CASE ~(id < methodCount)
      <4>1. Reacts(o) /\ methodList[o][TableIndex(id) + 1] = m
        BY <1>4, <2>2, <3>2 DEF Reached, MemberOf, TableIndex
      <4>2. RelayId(TableIndex(id)) = id
        BY <1>2 DEF RelayId, TableIndex
      <4>. QED  BY <3>2, <4>1, <4>2 DEF Metacall
    <3>. QED  BY <3>1, <3>2
  <2>. HIDE DEF call, m, o, id
  <2>7. Shown(call, ReachedIn) = ByName!Started(Due(c))
    BY <2>3, <2>4, <2>5, <2>6
  <2>. QED  BY <1>4, <2>7 DEF call, o, id
<1>. QED  BY <1>3, <1>4

\* A connection that is served is due no more, and no other one.
LEMMA ServedOnce ==
    ASSUME NamedInv, NEW C \in SUBSET Pending, NEW c \in C
    PROVE  {Due(x) : x \in C \ {c}} = {Due(x) : x \in C} \ {Due(c)}
<1>1. ASSUME NEW x \in C, Due(x) = Due(c) PROVE x = c
  <2>1. x.n = c.n
    BY <1>1 DEF Due
  <2>. QED  BY <2>1 DEF NamedInv, Numbered
<1>. QED  BY <1>1

LEMMA PushAt ==
    ASSUME NEW S, NEW a \in S, NEW t \in Seq(S)
    PROVE  /\ <<a>> \o t \in Seq(S) /\ Len(<<a>> \o t) = Len(t) + 1
           /\ \A i \in 1..(Len(t) + 1) : (<<a>> \o t)[i] = IF i = 1 THEN a ELSE t[i - 1]
  OBVIOUS

LEMMA PushTwo ==
    ASSUME NEW S, NEW a \in S, NEW b \in S, NEW s \in Seq(S)
    PROVE  <<a>> \o (<<b>> \o s) = <<a, b>> \o s
<1>. DEFINE t == <<b>> \o s
            l == <<a>> \o t
            r == <<a, b>> \o s
            at(i) == IF i = 1 THEN a ELSE IF i = 2 THEN b ELSE s[i - 2]
<1>1. t \in Seq(S) /\ Len(t) = Len(s) + 1 /\ Len(s) \in Nat
      /\ \A i \in 1..(Len(s) + 1) : t[i] = IF i = 1 THEN b ELSE s[i - 1]
  BY PushAt
<1>2. r \in Seq(S) /\ Len(r) = Len(s) + 2 /\ \A i \in 1..(Len(s) + 2) : r[i] = at(i)
  OBVIOUS
<1>. HIDE DEF t
<1>3. l \in Seq(S) /\ Len(l) = Len(s) + 2
      /\ \A i \in 1..(Len(s) + 2) : l[i] = IF i = 1 THEN a ELSE t[i - 1]
  BY <1>1, PushAt
<1>. HIDE DEF l, r
<1>4. \A i \in 1..(Len(s) + 2) : l[i] = at(i)
  BY <1>1, <1>3
<1>5. l = r
  <2>. HIDE DEF at
  <2>. QED  BY <1>2, <1>3, <1>4, SeqEqual
<1>. QED  BY <1>5 DEF l, r, t

LEMMA TopAndRest ==
    ASSUME NEW S, NEW s \in Seq(S), s # <<>> PROVE s = <<Head(s)>> \o Tail(s)
<1>1. /\ <<Head(s)>> \o Tail(s) \in Seq(S) /\ Len(<<Head(s)>> \o Tail(s)) = Len(s)
      /\ \A i \in 1..Len(s) : s[i] = (<<Head(s)>> \o Tail(s))[i]
  OBVIOUS
<1>. QED  BY <1>1, SeqEqual

LEMMA ActivateStep ==
    ASSUME NamedInv, TypeOK', Activate
    PROVE  Unseen \/ ByName!Deliver \/ \E o \in Object : ByName!Silent(o)
<1>1. PICK c \in Top.rest :
        /\ \A y \in Top.rest : c.n <= y.n
        /\ LET f == MetacallFault(c.receiver, c.tid)
           IN IF f # None THEN Abort(f)
              ELSE /\ stack' = <<Metacall(c.receiver, c.tid)>>
                                 \o (<<[Top EXCEPT !.rest = @ \ {c}]>> \o Tail(stack))
                   /\ UNCHANGED <<obj, tables, conns, serial, posted, fault>>
  BY DEF Activate
<1>. DEFINE call == Metacall(c.receiver, c.tid)
            rest == [Top EXCEPT !.rest = @ \ {c}]
            R == ReachedIn
            below == ShownAll(Tail(stack), R)
<1>2. /\ stack # <<>> /\ Top \in Call /\ Top.rest \subseteq Rests(stack)
      /\ Tail(stack) \in Seq(Call) /\ stack \in Seq(Call) /\ Top = Head(stack) /\ TypeOK
  BY Popped DEF Activate, AtTop, NamedInv, IInv, TypeOK, Top
<1>3. /\ c \in Pending /\ c \in Connection /\ c.receiver \in Object /\ c.tid \in Nat
      /\ Top.rest \subseteq Pending
  BY <1>1, <1>2, PendingIs, PendingType DEF Connection
<1>4. CASE MetacallFault(c.receiver, c.tid) # None
  BY <1>1, <1>2, <1>4, AbortUnseen
<1>5. CASE MetacallFault(c.receiver, c.tid) = None
  <2>1. stack' = <<call>> \o (<<rest>> \o Tail(stack)) /\ UNCHANGED <<obj, conns, posted>>
    BY <1>1, <1>5
  <2>2. call \in Call
    BY <1>2, <1>3, <1>5, MetacallType
  <2>3. rest \in Call /\ rest.o = Top.o /\ rest.member = Top.member
        /\ rest.rest = Top.rest \ {c}
    BY <1>2 DEF Call
  <2>4. SameReach /\ R' = R /\ R \in SUBSET Connection
    BY <2>1, SameObjectsReach DEF ReachedIn
  <2>5. IF Reached(c) THEN Shown(call, R) = ByName!Started(Due(c))
        ELSE call = Frame("builtin", c.receiver, None, {})
    BY <1>3, <1>5, MetacallSeen
  <2>6. c \in R <=> Reached(c)
    BY <1>3 DEF ReachedIn
  <2>. HIDE DEF call, rest, R
  <2>7. /\ <<rest>> \o Tail(stack) \in Seq(Call)
        /\ Calls' = ShownAll(stack', R) /\ Calls = ShownAll(stack, R)
    BY <1>2, <2>3, <2>4, CallsWillBe, CallsAre DEF R
  <2>8. Calls' = <<Shown(call, R)>> \o (<<Shown(rest, R)>> \o below)
    <3>1. ShownAll(<<rest>> \o Tail(stack), R) = <<Shown(rest, R)>> \o below
      BY <1>2, <2>3, <2>4, ShownPush
    <3>2. ShownAll(stack', R) = <<Shown(call, R)>> \o ShownAll(<<rest>> \o Tail(stack), R)
      BY <2>1, <2>2, <2>4, <2>7, ShownPush
    <3>. QED  BY <2>7, <3>1, <3>2
  <2>9. Calls # <<>> /\ Head(Calls) = Shown(Top, R) /\ Tail(Calls) = below
    BY <1>2, <2>4, <2>7, ShownTop
  <2>10. /\ Shown(call, R) \in Seen /\ Shown(rest, R) \in Seen /\ Shown(Top, R) \in Seen
         /\ below \in Seq(Seen) /\ Calls \in Seq(Seen)
    BY <1>2, <2>2, <2>3, <2>4, <2>7, ShownType, ShownAllType
  <2>11. Links' = Links /\ PostedCalls' = PostedCalls
    BY <2>1, <2>4, SameLinks, SamePosted
  <2>12. CASE Reached(c)
    <3>. DEFINE due == Head(Calls).due
                d == Due(c)
    <3>1. due = {Due(x) : x \in Top.rest \cap R} /\ c \in Top.rest \cap R
      BY <1>1, <2>6, <2>9, <2>12 DEF Shown
    <3>2. d \in due /\ ByName!First(due, d)
      <4>1. \A x \in Top.rest : Due(c).n <= Due(x).n
        BY <1>1 DEF Due
      <4>. QED  BY <3>1, <4>1 DEF ByName!First
    <3>3. {Due(x) : x \in (Top.rest \cap R) \ {c}} = due \ {d}
      BY <1>3, <3>1, ServedOnce
    <3>4. (Top.rest \cap R) \ {c} = rest.rest \cap R
      BY <2>3
    <3>5. Shown(rest, R) = ByName!Serve(Head(Calls), due \ {d})
      <4>1. Shown(rest, R) = [who |-> Top.o, member |-> Top.member, due |-> due \ {d}]
        BY <2>3, <3>3, <3>4 DEF Shown
      <4>2. Head(Calls) = [who |-> Top.o, member |-> Top.member, due |-> due]
        BY <2>9 DEF Shown
      <4>. QED  BY <4>1, <4>2 DEF ByName!Serve
    <3>6. Calls' = <<ByName!Started(d), ByName!Serve(Head(Calls), due \ {d})>> \o Tail(Calls)
      <4>1. Calls' = <<Shown(call, R), Shown(rest, R)>> \o below
        BY <2>8, <2>10, PushTwo
      <4>. QED  BY <2>5, <2>9, <2>12, <3>5, <4>1
    <3>. HIDE DEF due, d
    <3>. QED  BY <2>9, <2>11, <3>2, <3>6 DEF ByName!Deliver, due, d
  <2>13. CASE ~Reached(c)
    <3>1. Shown(rest, R) = Shown(Top, R)
      <4>1. rest.rest \cap R = Top.rest \cap R
        BY <2>3, <2>6, <2>13
      <4>. QED  BY <2>3, <4>1 DEF Shown
    <3>2. Calls = <<Shown(Top, R)>> \o below
      BY <2>9, <2>10, TopAndRest
    <3>3. Shown(call, R) = ByName!Call(c.receiver, None, {})
      BY <2>5, <2>13 DEF Shown, Frame, ByName!Call
    <3>4. ByName!Silent(c.receiver)
      BY <2>8, <2>11, <3>1, <3>2, <3>3 DEF ByName!Silent, ByName!Enter
    <3>. QED  BY <1>3, <3>4
  <2>. QED  BY <2>12, <2>13
<1>. QED  BY <1>4, <1>5

LEMMA ProcessEventStep ==
    ASSUME NamedInv, TypeOK', ProcessEvent
    PROVE  Unseen \/ ByName!Take \/ \E o \in Object : ByName!Silent(o)
<1>1. PICK e \in posted :
        /\ \A y \in posted : e.k < y.k \/ (e.k = y.k /\ e.c.n <= y.c.n)
        /\ LET f == MetacallFault(e.c.receiver, e.c.tid)
           IN IF f # None THEN Abort(f)
              ELSE /\ posted' = posted \ {e}
                   /\ Push(Metacall(e.c.receiver, e.c.tid))
                   /\ UNCHANGED <<obj, tables, conns, serial, fault>>
  BY DEF ProcessEvent
<1>. DEFINE c == e.c
            call == Metacall(c.receiver, c.tid)
            R == ReachedIn
<1>2. TypeOK /\ stack \in Seq(Call) /\ posted \subseteq [k : Nat, c : Connection]
  BY DEF NamedInv, IInv, TypeOK
<1>3. /\ c \in Pending /\ c \in Connection /\ c.receiver \in Object /\ c.tid \in Nat
  BY <1>2, PendingIs DEF Connection
<1>4. CASE MetacallFault(c.receiver, c.tid) # None
  BY <1>1, <1>2, <1>4, AbortUnseen
<1>5. CASE MetacallFault(c.receiver, c.tid) = None
  <2>1. /\ posted' = posted \ {e} /\ stack' = <<call>> \o stack
        /\ Push(call) /\ UNCHANGED <<obj, conns>>
    BY <1>1, <1>5 DEF Push
  <2>2. call \in Call
    BY <1>2, <1>3, <1>5, MetacallType
  <2>3. SameReach /\ R' = R /\ R \in SUBSET Connection
    BY <2>1, SameObjectsReach DEF ReachedIn
  <2>4. IF Reached(c) THEN Shown(call, R) = ByName!Started(Due(c))
        ELSE call = Frame("builtin", c.receiver, None, {})
    BY <1>3, <1>5, MetacallSeen
  <2>5. Calls' = <<Shown(call, R)>> \o Calls
    <3>. HIDE DEF call, R
    <3>1. Calls' = ShownAll(stack', R) /\ Calls = ShownAll(stack, R)
      BY <1>2, <2>3, CallsWillBe, CallsAre DEF R
    <3>. QED  BY <1>2, <2>1, <2>2, <2>3, <3>1, ShownPush
  <2>6. Links' = Links
    BY <2>1, <2>3, SameLinks
  <2>. DEFINE view(x) == [k |-> x.k, d |-> Due(x.c)]
              before == {x \in posted : Reached(x.c)}
              after == {x \in posted' : Reached(x.c)'}
  <2>7. PostedCalls = {view(x) : x \in before}
    BY DEF PostedCalls
  <2>8. PostedCalls' = {view(x) : x \in after}
    BY DEF PostedCalls, Due
  <2>9. after = before \ {e}
    <3>1. \A x \in posted : Reached(x.c)' <=> Reached(x.c)
      BY <2>3 DEF SameReach, Pending
    <3>. QED  BY <2>1, <3>1
  <2>10. CASE Reached(c)
    <3>1. ASSUME NEW x \in before, view(x) = view(e) PROVE x = e
      <4>1. x.k = e.k /\ Due(x.c) = Due(e.c)
        BY <3>1
      <4>2. x.c.n = e.c.n /\ x.c \in Pending /\ e.c \in Pending
        BY <1>3, <4>1 DEF Due, Pending
      <4>3. x.c = e.c
        BY <4>2 DEF NamedInv, Numbered
      <4>. QED  BY <1>2, <4>1, <4>3
    <3>2. e \in before
      BY <2>10
    <3>3. \A f \in PostedCalls : e.k < f.k \/ (e.k = f.k /\ Due(c).n <= f.d.n)
      BY <1>1, <2>7 DEF Due
    <3>. HIDE DEF view, before, after
    <3>4. PostedCalls' = PostedCalls \ {view(e)} /\ view(e) \in PostedCalls
      BY <2>7, <2>8, <2>9, <3>1, <3>2
    <3>5. view(e).k = e.k /\ view(e).d = Due(c)
      BY DEF view
    <3>. DEFINE v == view(e)
    <3>. HIDE DEF v, c, call, R
    <3>6. /\ v \in PostedCalls /\ PostedCalls' = PostedCalls \ {v}
          /\ \A f \in PostedCalls : v.k < f.k \/ (v.k = f.k /\ v.d.n <= f.d.n)
          /\ Calls' = <<ByName!Started(v.d)>> \o Calls
      BY <2>4, <2>5, <2>10, <3>3, <3>4, <3>5 DEF v
    <3>. QED  BY <2>6, <3>6 DEF ByName!Take
  <2>11. CASE ~Reached(c)
    <3>1. PostedCalls' = PostedCalls
      BY <2>7, <2>8, <2>9, <2>11
    <3>2. Shown(call, R) = ByName!Call(c.receiver, None, {})
      BY <2>4, <2>11 DEF Shown, Frame, ByName!Call
    <3>3. ByName!Silent(c.receiver)
      BY <2>5, <2>6, <3>1, <3>2 DEF ByName!Silent, ByName!Enter
    <3>. QED  BY <1>3, <3>3
  <2>. QED  BY <2>10, <2>11
<1>. QED  BY <1>4, <1>5

-----------------------------------------------------------------------------
(* Objects that go *)

\* The same calls, as far as SignalSlots sees them.
SameFrames(frames) ==
    /\ DOMAIN frames = DOMAIN stack
    /\ \A i \in DOMAIN stack : /\ frames[i].o = stack[i].o
                               /\ frames[i].member = stack[i].member
                               /\ frames[i].rest = stack[i].rest

LEMMA EndingFrames ==
    ASSUME NamedInv, stack # <<>>, Top.op \in {"deleted", "destructor"}, NEW op
    PROVE  SameFrames(Ending(op))
<1>. DEFINE f == Frame(op, Top.o, None, {})
            frames == Ending(op)
<1>1. Top \in GoodCall /\ stack \in Seq(GoodCall) /\ Top = stack[1] /\ Len(stack) > 0
  BY DEF NamedInv, Top
<1>2. f.o = Top.o /\ f.member = Top.member /\ f.rest = Top.rest
  BY <1>1 DEF Frame, GoodCall
<1>. DEFINE S == GoodCall \cup {f}
<1>3. frames = <<f>> \o Tail(stack) /\ f \in S
      /\ Tail(stack) \in Seq(S) /\ Len(Tail(stack)) = Len(stack) - 1
      /\ \A i \in 1..Len(Tail(stack)) : Tail(stack)[i] = stack[i + 1]
  <2>1. Tail(stack) \in Seq(GoodCall) /\ GoodCall \subseteq S
    BY <1>1
  <2>2. Tail(stack) \in Seq(S)
    BY <2>1, SeqMonotonic
  <2>. QED  BY <1>1, <2>2 DEF Ending
<1>. HIDE DEF f, frames, S
<1>4. frames \in Seq(S) /\ Len(frames) = Len(stack)
      /\ \A i \in 1..Len(stack) : frames[i] = IF i = 1 THEN f ELSE stack[i]
  BY <1>1, <1>3, PushAt
<1>5. DOMAIN frames = DOMAIN stack /\ DOMAIN stack = 1..Len(stack)
  BY <1>1, <1>4
<1>6. SameFrames(frames)
  BY <1>1, <1>2, <1>4, <1>5 DEF SameFrames
<1>. QED  BY <1>6 DEF frames

\* The Qt object remains: Forget.
LEMMA ForgetStep ==
    ASSUME NamedInv, TypeOK', NEW o \in Object, NEW st \in {"clearing", "forgotten"},
           obj' = [obj EXCEPT ![o] = st], UNCHANGED <<conns, posted>>, SameFrames(stack')
    PROVE  ByName!Forget(o)
<1>1. \A p \in Object : Speaks(p)' <=> p # o /\ Speaks(p)
  BY DEF NamedInv, IInv, TypeOK, Speaks
<1>. DEFINE gone(c) == c.receiver = o /\ c.target \in Own
            mute(c) == c.sender = o /\ c.signal \in Own
<1>2. ASSUME NEW c \in Pending
      PROVE  /\ Reached(c)' <=> Reached(c) /\ ~gone(c)
             /\ Linked(c)' <=> Linked(c) /\ ~gone(c) /\ ~mute(c)
  <2>1. c \in Connection /\ NamedAs(c)
    BY PendingType DEF NamedInv, IInv, AllNamed
  <2>2. /\ c.sender \in Object /\ c.receiver \in Object /\ c.sid \in Nat /\ c.tid \in Nat
        /\ c.signal \in Member /\ c.target \in Member
    BY <2>1 DEF Connection
  <2>3. c.tid < methodCount \/ Speaks(c.receiver) =>
          (c.tid < methodCount <=> c.target \notin Own)
    BY <2>1, <2>2, LeadsOwn DEF NamedAs
  <2>4. c.sid < methodCount \/ Speaks(c.sender) =>
          (c.sid < methodCount <=> c.signal \notin Own)
    BY <2>1, <2>2, LeadsOwn DEF NamedAs
  <2>5. Reacts(c.receiver)' <=> c.receiver # o /\ Reacts(c.receiver)
    BY <1>1, <2>2 DEF Reacts
  <2>6. Reached(c)' <=> c.tid < methodCount \/ Reacts(c.receiver)'
    BY DEF Reached, methodCount
  <2>7. Linked(c)' <=> Reached(c)' /\ (c.sid < methodCount \/ Speaks(c.sender)')
    BY DEF Linked, methodCount
  <2>8. Reached(c)' <=> Reached(c) /\ ~gone(c)
    BY <2>3, <2>5, <2>6 DEF Reached, Reacts
  <2>. QED  BY <1>1, <2>2, <2>4, <2>7, <2>8 DEF Linked
<1>. HIDE DEF gone, mute
<1>3. Links' = {l \in Links : ~(l.to = o /\ l.member \in Own) /\ ~(l.from = o /\ l.signal \in Own)}
  <2>. DEFINE link(c) == [n |-> c.n, from |-> c.sender, signal |-> c.signal,
                          to |-> c.receiver, member |-> c.target]
              old == {c \in conns : Linked(c)}
              new == {c \in conns : Linked(c) /\ ~gone(c) /\ ~mute(c)}
  <2>1. {c \in conns' : Linked(c)'} = new
    BY <1>2 DEF Pending
  <2>2. Links' = {link(c) : c \in new}
    BY <2>1 DEF Links
  <2>3. Links = {link(c) : c \in old}
    BY DEF Links
  <2>4. \A c : /\ gone(c) <=> link(c).to = o /\ link(c).member \in Own
               /\ mute(c) <=> link(c).from = o /\ link(c).signal \in Own
    BY DEF gone, mute
  <2>5. new = {c \in old : ~gone(c) /\ ~mute(c)}
    OBVIOUS
  <2>. HIDE DEF link, old, new
  <2>. QED  BY <2>2, <2>3, <2>4, <2>5
<1>4. PostedCalls' = {e \in PostedCalls : ~(e.d.to = o /\ e.d.member \in Own)}
  <2>. DEFINE view(x) == [k |-> x.k, d |-> Due(x.c)]
              old == {x \in posted : Reached(x.c)}
              new == {x \in old : ~gone(x.c)}
  <2>1. {x \in posted' : Reached(x.c)'} = new
    BY <1>2 DEF Pending
  <2>2. PostedCalls' = {view(x) : x \in {y \in posted' : Reached(y.c)'}}
    BY DEF PostedCalls, Due
  <2>3. PostedCalls = {view(x) : x \in old}
    BY DEF PostedCalls
  <2>4. \A x : gone(x.c) <=> view(x).d.to = o /\ view(x).d.member \in Own
    BY DEF gone, Due
  <2>5. new = {x \in old : ~gone(x.c)}
    OBVIOUS
  <2>. HIDE DEF view, old, new
  <2>. QED  BY <2>1, <2>2, <2>3, <2>4, <2>5
<1>5. ASSUME NEW i \in DOMAIN stack
      PROVE  Shown(stack'[i], ReachedIn') =
             ByName!Serve(Shown(stack[i], ReachedIn),
                 {d \in Shown(stack[i], ReachedIn).due : ~(d.to = o /\ d.member \in Own)})
  <2>. DEFINE rest == stack[i].rest
  <2>1. rest \subseteq Pending /\ rest \subseteq Connection
    <3>1. rest \subseteq Pending
      BY DEF Pending
    <3>. QED  BY <3>1, PendingType DEF NamedInv, IInv
  <2>2. stack'[i].o = stack[i].o /\ stack'[i].member = stack[i].member /\ stack'[i].rest = rest
    BY DEF SameFrames
  <2>3. ReachedIn' = {c \in Connection : Reached(c)'}
    BY DEF ReachedIn, Connection
  <2>4. rest \cap ReachedIn' = {c \in rest \cap ReachedIn : ~gone(c)}
    BY <1>2, <2>1, <2>3 DEF ReachedIn
  <2>5. \A c : gone(c) <=> Due(c).to = o /\ Due(c).member \in Own
    BY DEF gone, Due
  <2>. DEFINE due == {Due(c) : c \in rest \cap ReachedIn}
              left == {d \in due : ~(d.to = o /\ d.member \in Own)}
  <2>6. {Due(c) : c \in rest \cap ReachedIn'} = left
    <3>. HIDE DEF rest, ReachedIn
    <3>. QED  BY <2>4, <2>5
  <2>7. Shown(stack'[i], ReachedIn') = [who |-> stack[i].o, member |-> stack[i].member, due |-> left]
    BY <2>2, <2>6 DEF Shown
  <2>8. Shown(stack[i], ReachedIn) = [who |-> stack[i].o, member |-> stack[i].member, due |-> due]
    BY DEF Shown
  <2>. HIDE DEF due, rest
  <2>. QED  BY <2>7, <2>8 DEF ByName!Serve
<1>6. Calls' = [i \in DOMAIN Calls |->
                  ByName!Serve(Calls[i], {d \in Calls[i].due : ~(d.to = o /\ d.member \in Own)})]
  <2>1. /\ Calls = [i \in DOMAIN stack |-> Shown(stack[i], ReachedIn)]
        /\ Calls' = [i \in DOMAIN stack' |-> Shown(stack'[i], ReachedIn')]
    BY CallsAre, CallsWillBe DEF NamedInv, IInv, ShownAll
  <2>2. DOMAIN stack' = DOMAIN stack /\ DOMAIN Calls = DOMAIN stack
        /\ \A i \in DOMAIN stack : Calls[i] = Shown(stack[i], ReachedIn)
    BY <2>1 DEF SameFrames
  <2>. HIDE DEF ReachedIn
  <2>. QED  BY <1>5, <2>1, <2>2
<1>. QED  BY <1>3, <1>4, <1>6 DEF ByName!Forget

\* Both go: Destroy.
LEMMA DestroyStep ==
    ASSUME NamedInv, TypeOK', NEW o \in Object, NEW st \in {"orphan", "gone"},
           obj' = [obj EXCEPT ![o] = st], NEW STATE frames, SameFrames(frames),
           Disconnect(o, frames)
    PROVE  ByName!Destroy(o)
<1>1. ASSUME NEW c \in Pending, c.receiver # o
      PROVE  /\ Reached(c)' <=> Reached(c)
             /\ c.sender # o => (Linked(c)' <=> Linked(c))
  <2>1. c \in Connection
    BY PendingType DEF NamedInv, IInv
  <2>2. \A p \in Object : p # o => obj'[p] = obj[p]
    BY DEF NamedInv, IInv, TypeOK
  <2>3. Reached(c)' <=> Reached(c)
    BY <1>1, <2>1, <2>2 DEF Reached, Reacts, Speaks, methodCount, Connection
  <2>4. ASSUME c.sender # o PROVE Speaks(c.sender)' <=> Speaks(c.sender)
    BY <2>1, <2>2, <2>4 DEF Speaks, Connection
  <2>. QED  BY <2>3, <2>4 DEF Linked, methodCount
<1>2. Links' = {l \in Links : l.to # o /\ l.from # o}
  <2>. DEFINE link(c) == [n |-> c.n, from |-> c.sender, signal |-> c.signal,
                          to |-> c.receiver, member |-> c.target]
              old == {c \in conns : Linked(c)}
              new == {c \in old : c.receiver # o /\ c.sender # o}
  <2>1. {c \in conns' : Linked(c)'} = new
    BY <1>1 DEF Pending, Disconnect
  <2>2. Links' = {link(c) : c \in new}
    BY <2>1 DEF Links
  <2>3. Links = {link(c) : c \in old}
    BY DEF Links
  <2>4. \A c : link(c).to = c.receiver /\ link(c).from = c.sender
    OBVIOUS
  <2>5. new = {c \in old : c.receiver # o /\ c.sender # o}
    OBVIOUS
  <2>. HIDE DEF link, old, new
  <2>. QED  BY <2>2, <2>3, <2>4, <2>5
<1>3. PostedCalls' = {e \in PostedCalls : e.d.to # o}
  <2>. DEFINE view(x) == [k |-> x.k, d |-> Due(x.c)]
              old == {x \in posted : Reached(x.c)}
              new == {x \in old : x.c.receiver # o}
  <2>1. {x \in posted' : Reached(x.c)'} = new
    BY <1>1 DEF Pending, Disconnect
  <2>2. PostedCalls' = {view(x) : x \in {y \in posted' : Reached(y.c)'}}
    BY DEF PostedCalls, Due
  <2>3. PostedCalls = {view(x) : x \in old}
    BY DEF PostedCalls
  <2>4. \A x : view(x).d.to = x.c.receiver
    BY DEF Due
  <2>5. new = {x \in old : x.c.receiver # o}
    OBVIOUS
  <2>. HIDE DEF view, old, new
  <2>. QED  BY <2>1, <2>2, <2>3, <2>4, <2>5
<1>4. DOMAIN stack' = DOMAIN stack
      /\ \A i \in DOMAIN stack :
            stack'[i] = [frames[i] EXCEPT !.rest =
                IF stack[i].o = o THEN {} ELSE {c \in @ : c.receiver # o}]
  BY DEF Disconnect, Trim, SameFrames
<1>5. \A i \in DOMAIN stack : stack'[i] \in Call
  BY <1>4 DEF TypeOK
<1>6. ASSUME NEW i \in DOMAIN stack
      PROVE  Shown(stack'[i], ReachedIn') =
             LET before == Shown(stack[i], ReachedIn)
             IN  ByName!Serve(before,
                     IF before.who = o THEN {} ELSE {d \in before.due : d.to # o})
  <2>. DEFINE rest == stack[i].rest
              kept == IF stack[i].o = o THEN {} ELSE {c \in rest : c.receiver # o}
              due == {Due(c) : c \in rest \cap ReachedIn}
              left == IF stack[i].o = o THEN {} ELSE {d \in due : d.to # o}
  <2>1. rest \subseteq Pending /\ rest \subseteq Connection
    <3>1. rest \subseteq Pending
      BY DEF Pending
    <3>. QED  BY <3>1, PendingType DEF NamedInv, IInv
  <2>2. /\ stack'[i].o = stack[i].o /\ stack'[i].member = stack[i].member
        /\ stack'[i].rest = kept
    <3>1. /\ frames[i].o = stack[i].o /\ frames[i].member = stack[i].member
          /\ frames[i].rest = rest
      BY DEF SameFrames
    <3>2. stack'[i] \in Call
      BY <1>5
    <3>. QED  BY <1>4, <3>1, <3>2 DEF Call
  <2>3. ReachedIn' = {c \in Connection : Reached(c)'}
    BY DEF ReachedIn, Connection
  <2>4. kept \cap ReachedIn' =
          IF stack[i].o = o THEN {} ELSE {c \in rest \cap ReachedIn : c.receiver # o}
    BY <1>1, <2>1, <2>3 DEF ReachedIn
  <2>5. \A c : Due(c).to = c.receiver
    BY DEF Due
  <2>6. {Due(c) : c \in kept \cap ReachedIn'} = left
    <3>. HIDE DEF rest, kept, ReachedIn
    <3>. QED  BY <2>4, <2>5
  <2>7. Shown(stack'[i], ReachedIn') = [who |-> stack[i].o, member |-> stack[i].member, due |-> left]
    BY <2>2, <2>6 DEF Shown
  <2>8. Shown(stack[i], ReachedIn) = [who |-> stack[i].o, member |-> stack[i].member, due |-> due]
    BY DEF Shown
  <2>9. Shown(stack[i], ReachedIn).who = stack[i].o /\ Shown(stack[i], ReachedIn).due = due
    <3>. HIDE DEF due
    <3>. QED  BY <2>8
  <2>10. Shown(stack'[i], ReachedIn') = ByName!Serve(Shown(stack[i], ReachedIn), left)
    <3>. HIDE DEF due, left
    <3>. QED  BY <2>7, <2>8 DEF ByName!Serve
  <2>. HIDE DEF due
  <2>. QED  BY <2>9, <2>10
<1>7. Calls' = [i \in DOMAIN Calls |->
                  ByName!Serve(Calls[i], IF Calls[i].who = o THEN {}
                                         ELSE {d \in Calls[i].due : d.to # o})]
  <2>1. /\ Calls = [i \in DOMAIN stack |-> Shown(stack[i], ReachedIn)]
        /\ Calls' = [i \in DOMAIN stack' |-> Shown(stack'[i], ReachedIn')]
    BY CallsAre, CallsWillBe DEF NamedInv, IInv, ShownAll
  <2>2. DOMAIN Calls = DOMAIN stack /\ \A i \in DOMAIN stack : Calls[i] = Shown(stack[i], ReachedIn)
    BY <2>1
  <2>. HIDE DEF ReachedIn
  <2>. QED  BY <1>4, <1>6, <2>1, <2>2
<1>. QED  BY <1>2, <1>3, <1>7 DEF ByName!Destroy

LEMMA DeletedStep ==
    ASSUME NamedInv, TypeOK', Deleted PROVE \E o \in Object : ByName!Forget(o)
<1>1. /\ stack # <<>> /\ Top.op = "deleted" /\ stack' = Ending("destructor")
      /\ obj' = [obj EXCEPT ![Top.o] = "clearing"] /\ UNCHANGED <<conns, posted>>
  BY DEF Deleted, AtTop
<1>2. Top.o \in Object
  BY <1>1, EndingGood DEF GoodCall, Call
<1>3. SameFrames(stack')
  BY <1>1, EndingFrames
<1>. QED  BY <1>1, <1>2, <1>3, ForgetStep

LEMMA DestructorEndsStep ==
    ASSUME NamedInv, TypeOK', DestructorEnds
    PROVE  \E o \in Object : ByName!Forget(o) \/ ByName!Destroy(o)
<1>1. stack # <<>> /\ Top.op = "destructor"
  BY DEF DestructorEnds, AtTop
<1>2. Top.o \in Object
  BY <1>1, EndingGood DEF GoodCall, Call
<1>3. SameFrames(Ending("builtin"))
  BY <1>1, EndingFrames
<1>4. CASE obj' = [obj EXCEPT ![Top.o] = "gone"] /\ Disconnect(Top.o, Ending("builtin"))
  <2>1. ByName!Destroy(Top.o)
    BY <1>2, <1>3, <1>4, DestroyStep
  <2>. QED  BY <1>2, <2>1
<1>5. CASE /\ obj' = [obj EXCEPT ![Top.o] = "forgotten"] /\ stack' = Ending("builtin")
           /\ UNCHANGED <<conns, posted>>
  <2>1. ByName!Forget(Top.o)
    BY <1>2, <1>3, <1>5, ForgetStep
  <2>. QED  BY <1>2, <2>1
<1>. QED  BY <1>4, <1>5 DEF DestructorEnds

LEMMA QtDeleteSilentlyStep ==
    ASSUME NamedInv, TypeOK', NEW o \in Object, QtDeleteSilently(o)
    PROVE  ByName!Destroy(o)
<1>1. SameFrames(stack) /\ Disconnect(o, stack)
  BY DEF SameFrames, QtDeleteSilently
<1>2. \E st \in {"orphan", "gone"} : obj' = [obj EXCEPT ![o] = st]
  BY DEF QtDeleteSilently
<1>. QED  BY <1>1, <1>2, DestroyStep

LEMMA connectStep ==
    ASSUME NamedInv, TypeOK', NEW o \in Object, NEW s \in Name, NEW p \in Object,
           NEW target \in Target, connect(o, s, p, target)
    PROVE  Unseen \/ \E m \in Member : ByName!Connect(o, Signal(s), p, m)
<1>1. CASE Abort("null_qobject") \/ Abort("null_receiver")
  BY <1>1, AbortUnseen DEF NamedInv, IInv
<1>. DEFINE asked == Asked(p, target)
            id == IF target.kind = "signal" THEN getSignalIndex(p, target.name)
                  ELSE getSlotIndex(p, target.name)
            c == [n |-> serial', sender |-> o, signal |-> Signal(s),
                  sid |-> getSignalIndex(o, s), receiver |-> p, target |-> asked, tid |-> id]
<1>2. CASE UNCHANGED <<obj, conns, stack, posted>>
  BY <1>2, SameObjectsReach, StutterStep DEF NamedInv, IInv
<1>3. CASE /\ serial < MaxConnects /\ serial' = serial + 1 /\ conns' = conns \cup {c}
           /\ UNCHANGED <<obj, stack, posted>>
  <2>1. SameReach /\ ReachedIn' = ReachedIn
    BY <1>3, SameObjectsReach
  <2>2. Calls' = Calls /\ PostedCalls' = PostedCalls
    BY <1>3, <2>1, CallsWillBe, SameShown, SamePosted DEF NamedInv, IInv
  <2>3. serial' \in 1..(MaxConnects + MaxPosted) /\ serial \in Nat
    BY <1>3, LimitsAssumption DEF NamedInv, IInv, TypeOK
  <2>4. asked \in Member
    BY DEF Asked, Method, Member, Target
  <2>. DEFINE link(x) == [n |-> x.n, from |-> x.sender, signal |-> x.signal,
                          to |-> x.receiver, member |-> x.target]
              old == {x \in conns : Linked(x)}
  <2>5. Links = {link(x) : x \in old}
    BY DEF Links
  <2>6. \A l \in Links : l.n < serial'
    <3>1. ASSUME NEW x \in conns PROVE x.n \in Nat /\ x.n <= serial
      <4>1. x \in Connection /\ NamedAs(x)
        BY PendingType DEF NamedInv, IInv, AllNamed, Pending
      <4>. QED  BY <4>1 DEF Connection, NamedAs
    <3>. QED  BY <1>3, <2>3, <2>5, <3>1
  <2>7. \A x : Linked(x)' <=> Linked(x)
    BY <1>3 DEF Linked, Reached, Reacts, Speaks, methodCount
  <2>8. Links' = {link(x) : x \in {y \in conns' : Linked(y)}}
    BY <2>7 DEF Links
  <2>9. link(c) = [n |-> serial', from |-> o, signal |-> Signal(s), to |-> p, member |-> asked]
    OBVIOUS
  <2>. HIDE DEF c, asked, link
  <2>10. CASE Linked(c)
    <3>1. Links' = Links \cup {link(c)}
      BY <1>3, <2>5, <2>8, <2>10
    <3>2. ByName!Connect(o, Signal(s), p, asked)
      BY <2>2, <2>3, <2>6, <2>9, <3>1 DEF ByName!Connect
    <3>. QED  BY <2>4, <3>2
  <2>11. CASE ~Linked(c)
    <3>1. Links' = Links
      BY <1>3, <2>5, <2>8, <2>11
    <3>. QED  BY <2>2, <3>1 DEF Unseen
  <2>. QED  BY <2>10, <2>11
<1>. QED  BY <1>1, <1>2, <1>3 DEF connect, connectDynamic

LEMMA createSignalUnseen ==
    ASSUME NamedInv, TypeOK', NEW o \in Object, NEW s \in Name, createSignal(o, s)
    PROVE  Unseen
  BY SameObjectsReach, StutterStep DEF createSignal, NamedInv, IInv

\* Each step is one of SignalSlots or none.
LEMMA NextByName ==
    ASSUME NamedInv, NamedInv', [Next]_vars, StaleLinks = FALSE
    PROVE  ByName!Next \/ Unseen
<1>1. TypeOK' /\ TypeOK
  BY DEF NamedInv, IInv
<1>2. CASE UNCHANGED vars
  BY <1>1, <1>2, SameObjectsReach, StutterStep DEF vars
<1>3. CASE Activate
  BY <1>1, <1>3, ActivateStep DEF ByName!Next
<1>4. CASE ProcessEvent
  BY <1>1, <1>4, ProcessEventStep DEF ByName!Next
<1>5. CASE Return
  BY <1>1, <1>5, ReturnStep DEF ByName!Next
<1>6. CASE Deleted
  BY <1>1, <1>6, DeletedStep DEF ByName!Next
<1>7. CASE DestructorEnds
  BY <1>1, <1>7, DestructorEndsStep DEF ByName!Next
<1>8. ASSUME NEW o \in Object,
             \/ Create(o) \/ Delete(o) \/ QtDelete(o) \/ QtDeleteSilently(o)
             \/ DropOrphan(o) \/ Rewrap(o)
      PROVE  ByName!Next \/ Unseen
  <2>1. ByName!Silent(o) \/ ByName!Destroy(o) \/ Unseen
    BY <1>1, <1>8, CreateUnseen, DestructorSilent, QtDeleteSilentlyStep,
       DropOrphanUnseen, RewrapUnseen
  <2>. QED  BY <2>1 DEF ByName!Next
<1>9. ASSUME NEW o \in Object, NEW s \in Name,
             \/ createSignal(o, s) \/ emitSignal(o, s) \/ QtEmit(o, s)
             \/ emitFromThread(o, s)
      PROVE  ByName!Next \/ Unseen
  <2>1. ByName!Emit(o, Signal(s)) \/ ByName!Post(o, Signal(s)) \/ Unseen
    BY <1>1, <1>9, createSignalUnseen, emitSignalStep, QtEmitStep, emitFromThreadStep
  <2>2. Signal(s) \in Member
    BY DEF Signal, Member
  <2>. QED  BY <2>1, <2>2 DEF ByName!Next
<1>10. ASSUME NEW o \in Object, NEW s \in Name, NEW p \in Object,
              NEW target \in Target, connect(o, s, p, target)
       PROVE  ByName!Next \/ Unseen
  <2>1. Unseen \/ \E m \in Member : ByName!Connect(o, Signal(s), p, m)
    BY <1>1, <1>10, connectStep
  <2>2. Signal(s) \in Member
    BY DEF Signal, Member
  <2>. QED  BY <2>1, <2>2 DEF ByName!Next
<1>. QED  BY <1>2, <1>3, <1>4, <1>5, <1>6, <1>7, <1>8, <1>9, <1>10 DEF Next

LEMMA InitByName == Init => ByName!Init
<1>. SUFFICES ASSUME Init PROVE ByName!Init
  OBVIOUS
<1>1. Links = {} /\ PostedCalls = {}
  BY DEF Init, Links, PostedCalls
<1>2. Calls = <<>>
  BY DEF Init, Calls
<1>. QED  BY <1>1, <1>2 DEF ByName!Init

\* The table of indices implements links by name in every program that wraps
\* no object anew while connections lead to the table it had: an emission
\* calls exactly what is connected with the signal of that name, in order.
THEOREM LinksImplemented ==
    ASSUME StaleLinks = FALSE PROVE Spec => ImplementsLinks
<1>1. NamedInv /\ [Next]_vars => NamedInv'
  BY NextNamed
<1>2. NamedInv /\ NamedInv' /\ [Next]_vars => [ByName!Next]_(ByName!svars)
  BY NextByName DEF Unseen, ByName!svars
<1>. QED  BY <1>1, <1>2, InitNamed, InitByName, PTL DEF Spec, ImplementsLinks, ByName!Spec
=============================================================================
