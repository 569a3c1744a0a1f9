----------------------------- MODULE UiDomProofs -----------------------------
(***************************************************************************)
(* Proofs about UiDom, for every class of the tables, every number of      *)
(* elements and every order of reads, setters, clear and write calls.      *)
(*                                                                         *)
(* What a list or a choice shows after a document is defined by folds and  *)
(* by FlattenSeq, so the module starts with what they are: induction over  *)
(* the natural numbers, stated of a set of numbers and drawn from the      *)
(* well-foundedness of finite sets, gives the values of a recursive        *)
(* function and of FlattenSeq for an empty sequence and for one with one   *)
(* more element.  From that follow, element by element, what read() and    *)
(* write() make of a document, and who owns which node; the invariant      *)
(* DomInd relates the object, the nodes that exist and the document.       *)
(***************************************************************************)
EXTENDS UiDom, Integers, FiniteSetTheorems, SequenceTheorems, TLAPS

-----------------------------------------------------------------------------
(* Induction, recursive functions and FlattenSeq *)

\* Induction over the natural numbers, stated of a set: the finite sets 0 .. k are well-founded.
LEMMA Induction ==
    ASSUME NEW S, 0 \in S, \A n \in Nat \ {0} : n - 1 \in S => n \in S
    PROVE  Nat \subseteq S
<1>. DEFINE T == {0 .. k : k \in Nat \ S}
<1>1. SUFFICES ASSUME T # {} PROVE FALSE
  OBVIOUS
<1>2. T \subseteq FiniteSubsetsOf(Nat)
  <2>. SUFFICES ASSUME NEW k \in Nat PROVE 0 .. k \in FiniteSubsetsOf(Nat)
    OBVIOUS
  <2>1. IsFiniteSet(0 .. k)
    BY FS_Interval
  <2>. QED
    BY <2>1 DEF FiniteSubsetsOf
<1>3. PICK x \in T : \A y \in T : ~(<<y, x>> \in StrictSubsetOrdering(Nat))
  BY <1>1, <1>2, WFMin, FS_StrictSubsetOrderingWellFounded, Zenon
<1>4. PICK k \in Nat \ S : x = 0 .. k
  BY <1>3
<1>5. k \in Nat \ {0} /\ k - 1 \in Nat
  BY <1>4
<1>6. k - 1 \notin S
  BY <1>4, <1>5
<1>7. 0 .. k - 1 \in T
  BY <1>5, <1>6
<1>8. <<0 .. k - 1, x>> \in StrictSubsetOrdering(Nat)
  <2>1. 0 .. k - 1 \subseteq Nat /\ x \subseteq Nat /\ 0 .. k - 1 \subseteq x /\ 0 .. k - 1 # x
    BY <1>4, <1>5
  <2>. QED
    BY <2>1 DEF StrictSubsetOrdering
<1>. QED
  BY <1>3, <1>7, <1>8

\* A function that is defined by recursion on 0 .. n exists: g says how each value follows from
\* the one before.
Follows(f, b, g, n) == f[0] = b /\ \A i \in 1 .. n : f[i] = g[<<i, f[i - 1]>>]
LEMMA Recursion ==
    ASSUME NEW V, NEW b \in V, NEW g \in [Nat \X V -> V], NEW n \in Nat
    PROVE  \E f \in [0 .. n -> V] : Follows(f, b, g, n)
<1>. DEFINE S == {k \in Nat : \E f \in [0 .. k -> V] : Follows(f, b, g, k)}
<1>1. 0 \in S
  <2>. DEFINE h == [i \in 0 .. 0 |-> b]
  <2>1. h \in [0 .. 0 -> V] /\ h[0] = b /\ 1 .. 0 = {}
    OBVIOUS
  <2>2. Follows(h, b, g, 0)
    BY <2>1 DEF Follows
  <2>. QED
    BY <2>1, <2>2
<1>2. ASSUME NEW k \in Nat \ {0}, k - 1 \in S PROVE k \in S
  <2>1. k - 1 \in Nat
    BY <1>2
  <2>2. PICK f \in [0 .. k - 1 -> V] : Follows(f, b, g, k - 1)
    BY <1>2
  <2>. DEFINE h == [i \in 0 .. k |-> IF i <= k - 1 THEN f[i] ELSE g[<<k, f[k - 1]>>]]
  <2>3. g[<<k, f[k - 1]>>] \in V
    BY <2>1
  <2>4. h \in [0 .. k -> V]
    BY <2>1, <2>3
  <2>5. h[0] = b
    BY <2>1, <2>2 DEF Follows
  <2>6. ASSUME NEW i \in 1 .. k PROVE h[i] = g[<<i, h[i - 1]>>]
    <3>1. i - 1 \in 0 .. k - 1 /\ h[i - 1] = f[i - 1]
      BY <2>1
    <3>2. CASE i = k
      <4>1. h[k] = g[<<k, f[k - 1]>>]
        BY <2>1
      <4>. QED
        BY <3>1, <3>2, <4>1
    <3>3. CASE i # k
      <4>1. i \in 1 .. k - 1 /\ h[i] = f[i]
        BY <3>3
      <4>. QED
        BY <4>1, <3>1, <2>2 DEF Follows
    <3>. QED
      BY <3>2, <3>3
  <2>. QED
    BY <2>4, <2>5, <2>6 DEF Follows
<1>. QED
  BY <1>1, <1>2, Induction

\* f[i] is what the first i of the sequences ss become.
Flattens(f, ss) == f[0] = <<>> /\ \A i \in 1 .. Len(ss) : f[i] = f[i - 1] \o ss[i]
LEMMA FlattensEqual ==
    ASSUME NEW f, NEW h, NEW ss, NEW tt, Flattens(f, ss), Flattens(h, tt), NEW n \in Nat,
           Len(ss) \in Nat, Len(tt) \in Nat, n <= Len(ss), n <= Len(tt),
           \A i \in 1 .. n : ss[i] = tt[i]
    PROVE  f[n] = h[n]
<1>. DEFINE S == {k \in Nat : k <= n => f[k] = h[k]}
<1>1. 0 \in S
  BY DEF Flattens
<1>2. ASSUME NEW k \in Nat \ {0}, k - 1 \in S PROVE k \in S
  <2>. SUFFICES ASSUME k <= n PROVE f[k] = h[k]
    OBVIOUS
  <2>1. f[k - 1] = h[k - 1] /\ k \in 1 .. n /\ k \in 1 .. Len(ss) /\ k \in 1 .. Len(tt)
    BY <1>2
  <2>2. f[k] = f[k - 1] \o ss[k] /\ h[k] = h[k - 1] \o tt[k]
    BY <2>1 DEF Flattens
  <2>. QED
    BY <2>1, <2>2
<1>3. Nat \subseteq S
  <2>. HIDE DEF S
  <2>. QED
    BY <1>1, <1>2, Induction
<1>. QED
  BY <1>3

LEMMA FlattenParts ==
    ASSUME NEW S, NEW ss \in Seq(Seq(S))
    PROVE  \E f \in [0 .. Len(ss) -> Seq(S)] : Flattens(f, ss) /\ FlattenSeq(ss) = f[Len(ss)]
<1>. DEFINE n == Len(ss)
            g == [p \in Nat \X Seq(S) |-> IF p[1] \in 1 .. n THEN p[2] \o ss[p[1]] ELSE <<>>]
<1>1. n \in Nat /\ \A i \in 1 .. n : ss[i] \in Seq(S)
  OBVIOUS
<1>2. g \in [Nat \X Seq(S) -> Seq(S)]
  <2>. SUFFICES ASSUME NEW i \in Nat, NEW s \in Seq(S)
                PROVE  (IF i \in 1 .. n THEN s \o ss[i] ELSE <<>>) \in Seq(S)
    OBVIOUS
  <2>1. <<>> \in Seq(S)
    OBVIOUS
  <2>. QED
    BY <2>1, <1>1, ConcatProperties
<1>6. ASSUME NEW i \in 1 .. n, NEW s \in Seq(S) PROVE g[<<i, s>>] = s \o ss[i]
  <2>1. <<i, s>> \in Nat \X Seq(S)
    BY <1>1
  <2>. QED
    BY <2>1
<1>3. PICK f \in [0 .. n -> Seq(S)] : Follows(f, <<>>, g, n)
  <2>1. <<>> \in Seq(S)
    OBVIOUS
  <2>. HIDE DEF g, n
  <2>2. n \in Nat
    BY <1>1
  <2>. QED
    BY <2>1, <2>2, <1>2, Recursion, Zenon
<1>4. Flattens(f, ss)
  <2>1. ASSUME NEW i \in 1 .. n PROVE f[i] = f[i - 1] \o ss[i]
    <3>1. i - 1 \in 0 .. n /\ i \in Nat
      BY <1>1
    <3>. HIDE DEF n
    <3>3. f[i - 1] \in Seq(S)
      BY <3>1, <1>3
    <3>2. f[i] = g[<<i, f[i - 1]>>]
      BY <1>3 DEF Follows
    <3>. HIDE DEF g
    <3>. QED
      BY <3>2, <3>3, <1>6
  <2>. QED
    BY <1>3, <2>1 DEF Flattens, Follows
<1>5. FlattenSeq(ss) = f[n]
  <2>1. CASE n = 0
    <3>1. ss = <<>>
      BY <2>1
    <3>. QED
      BY <2>1, <3>1, <1>4 DEF FlattenSeq, Flattens
  <2>2. CASE n # 0
    <3>. DEFINE Is(h) == h = [i \in 1 .. n |-> IF i = 1 THEN ss[i] ELSE h[i - 1] \o ss[i]]
                h0 == [i \in 1 .. n |-> f[i]]
                h1 == CHOOSE h : Is(h)
    <3>1. Is(h0)
      <4>1. ASSUME NEW i \in 1 .. n PROVE f[i] = IF i = 1 THEN ss[i] ELSE h0[i - 1] \o ss[i]
        <5>1. f[i] = f[i - 1] \o ss[i]
          BY <1>4 DEF Flattens
        <5>2. CASE i = 1
          <6>1. f[i - 1] = <<>> /\ ss[i] \in Seq(S)
            BY <5>2, <1>1, <1>4 DEF Flattens
          <6>. QED
            BY <5>1, <5>2, <6>1, ConcatEmptySeq
        <5>3. CASE i # 1
          <6>1. i - 1 \in 1 .. n
            BY <5>3, <1>1
          <6>. QED
            BY <5>1, <5>3, <6>1
        <5>. QED
          BY <5>2, <5>3
      <4>. QED
        BY <4>1
    <3>2. Is(h1)
      BY <3>1
    <3>3. FlattenSeq(ss) = h1[n]
      BY <2>2, <3>2 DEF FlattenSeq
    <3>4. \A i \in 1 .. n : h1[i] = IF i = 1 THEN ss[i] ELSE h1[i - 1] \o ss[i]
      BY <3>2
    <3>. HIDE DEF h1
    <3>. DEFINE T == {k \in Nat : k \in 1 .. n => h1[k] = f[k]}
    <3>5. 0 \in T
      OBVIOUS
    <3>6. ASSUME NEW k \in Nat \ {0}, k - 1 \in T PROVE k \in T
      <4>. SUFFICES ASSUME k \in 1 .. n PROVE h1[k] = f[k]
        OBVIOUS
      <4>1. f[k] = f[k - 1] \o ss[k]
        BY <1>4 DEF Flattens
      <4>2. CASE k = 1
        <5>1. f[k - 1] = <<>> /\ ss[k] \in Seq(S) /\ h1[k] = ss[k]
          BY <4>2, <1>1, <1>4, <3>4 DEF Flattens
        <5>. QED
          BY <4>1, <5>1, ConcatEmptySeq
      <4>3. CASE k # 1
        <5>1. k - 1 \in 1 .. n
          BY <4>3, <1>1
        <5>. QED
          BY <4>1, <4>3, <5>1, <3>4, <3>6
      <4>. QED
        BY <4>2, <4>3
    <3>7. n \in T
      BY <3>5, <3>6, <1>1, Induction
    <3>. QED
      BY <3>3, <3>7, <2>2, <1>1
  <2>. QED
    BY <2>1, <2>2
<1>. QED
  BY <1>4, <1>5
LEMMA FlattenType ==
    ASSUME NEW S, NEW ss \in Seq(Seq(S)) PROVE FlattenSeq(ss) \in Seq(S)
<1>1. PICK f \in [0 .. Len(ss) -> Seq(S)] : Flattens(f, ss) /\ FlattenSeq(ss) = f[Len(ss)]
  BY FlattenParts
<1>2. Len(ss) \in 0 .. Len(ss)
  OBVIOUS
<1>. QED
  BY <1>1, <1>2

LEMMA FlattenAppend ==
    ASSUME NEW S, NEW ss \in Seq(Seq(S)), NEW s \in Seq(S)
    PROVE  FlattenSeq(Append(ss, s)) = FlattenSeq(ss) \o s
<1>. DEFINE tt == Append(ss, s)
            n == Len(ss)
<1>1. tt \in Seq(Seq(S)) /\ Len(tt) = n + 1 /\ n \in Nat /\ n + 1 \in Nat
  OBVIOUS
<1>2. (\A i \in 1 .. n : ss[i] = tt[i]) /\ tt[n + 1] = s
  OBVIOUS
<1>3. PICK f \in [0 .. n -> Seq(S)] : Flattens(f, ss) /\ FlattenSeq(ss) = f[n]
  BY FlattenParts
<1>4. PICK h \in [0 .. Len(tt) -> Seq(S)] : Flattens(h, tt) /\ FlattenSeq(tt) = h[Len(tt)]
  <2>. HIDE DEF tt
  <2>. QED
    BY <1>1, FlattenParts
<1>. HIDE DEF tt, n
<1>5. f[n] = h[n]
  <2>1. n <= Len(ss) /\ n <= Len(tt) /\ Len(ss) \in Nat /\ Len(tt) \in Nat
    BY <1>1 DEF n
  <2>3. n \in Nat /\ Flattens(f, ss) /\ Flattens(h, tt) /\ \A i \in 1 .. n : ss[i] = tt[i]
    BY <1>1, <1>2, <1>3, <1>4
  <2>. QED
    BY <2>1, <2>3, FlattensEqual, ZenonT(40)
<1>6. h[n + 1] = h[n] \o s
  <2>1. PICK m \in Nat : m = n + 1
    BY <1>1
  <2>2. m \in 1 .. Len(tt) /\ m - 1 = n
    BY <1>1, <2>1
  <2>3. h[m] = h[m - 1] \o tt[m]
    BY <2>2, <1>4 DEF Flattens
  <2>. QED
    BY <2>1, <2>2, <2>3, <1>2
<1>7. FlattenSeq(tt) = FlattenSeq(ss) \o s
  BY <1>1, <1>3, <1>4, <1>5, <1>6
<1>. QED
  BY <1>7 DEF tt
-----------------------------------------------------------------------------
(* The elements with one of some tags *)

LEMMA AFunctionIsASeq ==
    ASSUME NEW S, NEW n \in Nat, NEW f \in [1 .. n -> S]
    PROVE  f \in Seq(S) /\ Len(f) = n
<1>1. f \in Seq(S)
  BY SeqDef
<1>2. DOMAIN f = 1 .. n /\ DOMAIN f = 1 .. Len(f) /\ Len(f) \in Nat
  BY <1>1
<1>. QED
  BY <1>1, <1>2

Part(x, tags) == IF Lower(x.tag) \in tags THEN <<Lowered(x)>> ELSE <<>>
Parted(items, tags) == [i \in DOMAIN items |-> Part(items[i], tags)]
LowerCase(I) == {Lowered(x) : x \in I}

LEMMA PartType ==
    ASSUME NEW I, NEW x \in I, NEW tags
    PROVE  Part(x, tags) \in Seq(LowerCase(I))
<1>1. Lowered(x) \in LowerCase(I)
  BY DEF LowerCase
<1>. QED
  BY <1>1 DEF Part

LEMMA PartedType ==
    ASSUME NEW I, NEW items \in Seq(I), NEW tags
    PROVE  /\ Parted(items, tags) \in Seq(Seq(LowerCase(I)))
           /\ Len(Parted(items, tags)) = Len(items)
           /\ Tagged(items, tags) = FlattenSeq(Parted(items, tags))
<1>. DEFINE P == Parted(items, tags)
<1>1. Len(items) \in Nat /\ DOMAIN items = 1 .. Len(items)
  OBVIOUS
<1>2. ASSUME NEW i \in 1 .. Len(items) PROVE Part(items[i], tags) \in Seq(LowerCase(I))
  <2>1. items[i] \in I
    OBVIOUS
  <2>. QED
    BY <2>1, PartType
<1>3. P \in [1 .. Len(items) -> Seq(LowerCase(I))]
  BY <1>1, <1>2 DEF Parted
<1>4. Tagged(items, tags) = FlattenSeq(P)
  BY DEF Tagged, Parted, Part
<1>. HIDE DEF P
<1>5. P \in Seq(Seq(LowerCase(I))) /\ Len(P) = Len(items)
  BY <1>1, <1>3, AFunctionIsASeq
<1>. QED
  BY <1>4, <1>5 DEF P

LEMMA TaggedType ==
    ASSUME NEW I, NEW items \in Seq(I), NEW tags
    PROVE  Tagged(items, tags) \in Seq(LowerCase(I))
BY PartedType, FlattenType

LEMMA TaggedEmpty ==
    ASSUME NEW tags PROVE Tagged(<<>>, tags) = <<>>
<1>1. <<>> \in Seq({})
  OBVIOUS
<1>2. Parted(<<>>, tags) \in Seq(Seq(LowerCase({}))) /\ Len(Parted(<<>>, tags)) = 0
  BY <1>1, PartedType
<1>3. Parted(<<>>, tags) = <<>>
  BY <1>2
<1>4. Tagged(<<>>, tags) = FlattenSeq(<<>>)
  BY <1>1, <1>3, PartedType
<1>. QED
  BY <1>4 DEF FlattenSeq

LEMMA TaggedAppend ==
    ASSUME NEW I, NEW items \in Seq(I), NEW x \in I, NEW tags
    PROVE  Tagged(Append(items, x), tags) = Tagged(items, tags) \o Part(x, tags)
<1>. DEFINE more == Append(items, x)
            J == LowerCase(I)
            P == Parted(items, tags)
            Q == Parted(more, tags)
<1>1. more \in Seq(I) /\ Len(more) = Len(items) + 1 /\ Len(items) \in Nat
  OBVIOUS
<1>2. P \in Seq(Seq(J)) /\ Len(P) = Len(items)
  BY PartedType
<1>3. Q \in Seq(Seq(J)) /\ Len(Q) = Len(items) + 1
  BY <1>1, PartedType
<1>4. Part(x, tags) \in Seq(J)
  BY PartType
<1>5. ASSUME NEW i \in 1 .. Len(items) + 1 PROVE Q[i] = Append(P, Part(x, tags))[i]
  <2>1. Q[i] = Part(more[i], tags)
    BY <1>1 DEF Parted
  <2>2. CASE i = Len(items) + 1
    BY <2>1, <2>2, <1>2, <1>4
  <2>3. CASE i # Len(items) + 1
    <3>1. i \in 1 .. Len(items) /\ more[i] = items[i]
      BY <2>3, <1>1
    <3>2. P[i] = Part(items[i], tags)
      BY <3>1 DEF Parted
    <3>3. Append(P, Part(x, tags))[i] = P[i]
      BY <3>1, <1>2, <1>4
    <3>. QED
      BY <2>1, <3>1, <3>2, <3>3
  <2>. QED
    BY <2>2, <2>3
<1>. HIDE DEF P, Q, J, more
<1>6. Append(P, Part(x, tags)) \in Seq(Seq(J)) /\ Len(Append(P, Part(x, tags))) = Len(items) + 1
  BY <1>2, <1>4
<1>7. Q = Append(P, Part(x, tags))
  BY <1>1, <1>3, <1>5, <1>6, SeqEqual
<1>8. FlattenSeq(Q) = FlattenSeq(P) \o Part(x, tags)
  BY <1>2, <1>4, <1>7, FlattenAppend
<1>. QED
  BY <1>1, <1>8, PartedType DEF P, Q, more

-----------------------------------------------------------------------------
(* What an object of a class may be, and what reading an element makes of it *)

Vals == {"exact", "fine", "true", "false", "rounded"}
Tags(c) == DOMAIN Elements(c)
Single(c) == {t \in Tags(c) : ~Elements(c)[t].many}
AnyItem(c) == [tag : Range(Writes(c)) \cup {"other"}, id : Nat, val : Vals]
Kept(c) == [tag : Tags(c), id : Nat, val : Vals]
AttrType(c) == UNION {[D -> Vals] : D \in SUBSET DOMAIN Header(c).attributes}
ObjectType(c) == [attr : AttrType(c), text : BOOLEAN, bits : SUBSET Single(c),
                  kind : Single(c) \cup {"unknown"}, elem : [Tags(c) -> Seq(Kept(c))]]
MembersOk(c, o) == \A t \in Tags(c) : \A i \in 1 .. Len(o.elem[t]) : o.elem[t][i].tag = t
ChoiceOk(c, o) == Header(c).choice /\ o.kind # "unknown" => Len(o.elem[o.kind]) = 1
SinglesOk(c, o) == ~Header(c).choice =>
    \A t \in Single(c) : IF t \in o.bits THEN Len(o.elem[t]) = 1 ELSE o.elem[t] = <<>>
ObjectOk(c, o) == o \in ObjectType(c) /\ MembersOk(c, o) /\ ChoiceOk(c, o) /\ SinglesOk(c, o)

LEMMA Tables ==
    ASSUME NEW c \in ClassNames
    PROVE  /\ Reads(c) = Tags(c) /\ Deletes(c) \subseteq Tags(c)
           /\ Header(c).choice => Single(c) = Tags(c)
BY TablesAgree, TablesSimple DEF Tags, Single

LEMMA LoweredItem ==
    ASSUME NEW c \in ClassNames, NEW x \in AnyItem(c)
    PROVE  /\ Lowered(x) = [tag |-> Lower(x.tag), id |-> x.id, val |-> x.val]
           /\ Lower(x.tag) \in Tags(c) => Lowered(x) \in Kept(c)
BY DEF Lowered, AnyItem, Kept

LEMMA SetOneOk ==
    ASSUME NEW c \in ClassNames, NEW o, ObjectOk(c, o), ~Header(c).choice,
           NEW y \in Kept(c), y.tag \in Single(c)
    PROVE  /\ ObjectOk(c, SetOne(o, y))
           /\ SetOne(o, y).elem = [o.elem EXCEPT ![y.tag] = <<y>>]
           /\ SetOne(o, y).bits = o.bits \cup {y.tag}
<1>. DEFINE p == SetOne(o, y)
<1>1. o \in ObjectType(c) /\ MembersOk(c, o) /\ SinglesOk(c, o)
  BY DEF ObjectOk
<1>2. y.tag \in Tags(c) /\ <<y>> \in Seq(Kept(c)) /\ Len(<<y>>) = 1
  BY DEF Single
<1>3. p = [o EXCEPT !.bits = o.bits \cup {y.tag}, !.elem = [o.elem EXCEPT ![y.tag] = <<y>>]]
  BY <1>1 DEF SetOne, ObjectType
<1>4. p.elem = [o.elem EXCEPT ![y.tag] = <<y>>] /\ p.bits = o.bits \cup {y.tag}
  BY <1>1, <1>3 DEF ObjectType
<1>5. p \in ObjectType(c)
  <2>1. [o.elem EXCEPT ![y.tag] = <<y>>] \in [Tags(c) -> Seq(Kept(c))]
    BY <1>1, <1>2 DEF ObjectType
  <2>2. o.bits \cup {y.tag} \in SUBSET Single(c)
    BY <1>1 DEF ObjectType
  <2>. QED
    BY <1>1, <1>3, <2>1, <2>2 DEF ObjectType
<1>6. \A t \in Tags(c) : p.elem[t] = IF t = y.tag THEN <<y>> ELSE o.elem[t]
  BY <1>1, <1>4 DEF ObjectType
<1>. HIDE DEF p
<1>7. MembersOk(c, p)
  BY <1>1, <1>2, <1>6 DEF MembersOk
<1>8. SinglesOk(c, p)
  BY <1>1, <1>2, <1>4, <1>6 DEF SinglesOk, Single
<1>9. ChoiceOk(c, p)
  BY DEF ChoiceOk
<1>. QED
  BY <1>4, <1>5, <1>7, <1>8, <1>9 DEF ObjectOk, p

LEMMA SetChoiceOk ==
    ASSUME NEW c \in ClassNames, NEW o, ObjectOk(c, o), Header(c).choice,
           NEW y \in Kept(c)
    PROVE  /\ ObjectOk(c, SetChoice(c, o, y))
           /\ SetChoice(c, o, y).kind = y.tag
           /\ \A t \in Tags(c) : SetChoice(c, o, y).elem[t] =
                 IF t = y.tag THEN <<y>> ELSE IF t \in Deletes(c) THEN <<>> ELSE o.elem[t]
<1>. DEFINE p == SetChoice(c, o, y)
            rest == Cleared(c, o)
<1>1. o \in ObjectType(c) /\ MembersOk(c, o) /\ Single(c) = Tags(c)
  BY Tables DEF ObjectOk
<1>2. y.tag \in Tags(c) /\ <<y>> \in Seq(Kept(c)) /\ <<>> \in Seq(Kept(c)) /\ Len(<<y>>) = 1
  BY DEF Kept
<1>3. rest = [t \in Tags(c) |-> IF t \in Deletes(c) THEN <<>> ELSE o.elem[t]]
  BY <1>1 DEF Cleared, ObjectType
<1>4. rest \in [Tags(c) -> Seq(Kept(c))]
  BY <1>1, <1>2, <1>3 DEF ObjectType
<1>5. p = [o EXCEPT !.kind = y.tag, !.elem = [rest EXCEPT ![y.tag] = <<y>>]]
  BY DEF SetChoice
<1>. HIDE DEF rest
<1>6. p.kind = y.tag /\ p.elem = [rest EXCEPT ![y.tag] = <<y>>] /\ p \in ObjectType(c)
  <2>. DEFINE e == [rest EXCEPT ![y.tag] = <<y>>]
  <2>1. e \in [Tags(c) -> Seq(Kept(c))]
    BY <1>2, <1>4
  <2>2. p = [o EXCEPT !.kind = y.tag, !.elem = e]
    BY <1>5
  <2>. HIDE DEF e, p
  <2>. QED
    BY <1>1, <1>2, <2>1, <2>2 DEF ObjectType, e
<1>7. \A t \in Tags(c) : p.elem[t] =
          IF t = y.tag THEN <<y>> ELSE IF t \in Deletes(c) THEN <<>> ELSE o.elem[t]
  BY <1>3, <1>4, <1>6
<1>. HIDE DEF p
<1>8. MembersOk(c, p)
  BY <1>1, <1>2, <1>7 DEF MembersOk
<1>9. ChoiceOk(c, p) /\ SinglesOk(c, p)
  BY <1>2, <1>6, <1>7 DEF ChoiceOk, SinglesOk
<1>. QED
  BY <1>6, <1>7, <1>8, <1>9 DEF ObjectOk, p

LEMMA AppendOk ==
    ASSUME NEW c \in ClassNames, NEW o, ObjectOk(c, o),
           NEW y \in Kept(c), Elements(c)[y.tag].many
    PROVE  /\ ObjectOk(c, Append1(o, y))
           /\ Append1(o, y).elem = [o.elem EXCEPT ![y.tag] = Append(o.elem[y.tag], y)]
           /\ Append1(o, y).bits = o.bits /\ Append1(o, y).kind = o.kind
<1>. DEFINE p == Append1(o, y)
            more == Append(o.elem[y.tag], y)
<1>1. o \in ObjectType(c) /\ MembersOk(c, o) /\ SinglesOk(c, o) /\ ChoiceOk(c, o)
  BY DEF ObjectOk
<1>2. y.tag \in Tags(c) /\ y.tag \notin Single(c) /\ ~Header(c).choice
  BY Tables DEF Kept, Single
<1>3. o.elem[y.tag] \in Seq(Kept(c))
  BY <1>1, <1>2 DEF ObjectType
<1>4. /\ more \in Seq(Kept(c)) /\ Len(more) = Len(o.elem[y.tag]) + 1
      /\ \A i \in 1 .. Len(more) : more[i] = IF i = Len(more) THEN y ELSE o.elem[y.tag][i]
  BY <1>3
<1>5. p = [o EXCEPT !.elem = [o.elem EXCEPT ![y.tag] = more]]
  BY <1>1 DEF Append1, ObjectType
<1>. HIDE DEF more
<1>6. /\ p.elem = [o.elem EXCEPT ![y.tag] = more] /\ p.bits = o.bits /\ p.kind = o.kind
      /\ p \in ObjectType(c)
  <2>1. [o.elem EXCEPT ![y.tag] = more] \in [Tags(c) -> Seq(Kept(c))]
    BY <1>1, <1>2, <1>4 DEF ObjectType
  <2>. QED
    BY <1>1, <1>5, <2>1 DEF ObjectType
<1>7. \A t \in Tags(c) : p.elem[t] = IF t = y.tag THEN more ELSE o.elem[t]
  BY <1>1, <1>6 DEF ObjectType
<1>. HIDE DEF p
<1>8. MembersOk(c, p)
  <2>. SUFFICES ASSUME NEW t \in Tags(c), NEW i \in 1 .. Len(p.elem[t])
                PROVE  p.elem[t][i].tag = t
    BY DEF MembersOk
  <2>1. CASE t = y.tag
    <3>1. i \in 1 .. Len(more) /\ p.elem[t] = more
      BY <2>1, <1>7
    <3>2. CASE i = Len(more)
      <4>1. p.elem[t][i] = y
        BY <3>1, <3>2, <1>4
      <4>. QED
        BY <4>1, <2>1
    <3>3. CASE i # Len(more)
      <4>1. Len(o.elem[y.tag]) \in Nat
        BY <1>3
      <4>2. i \in 1 .. Len(o.elem[t]) /\ p.elem[t][i] = o.elem[t][i]
        BY <4>1, <3>1, <3>3, <1>4, <2>1
      <4>. QED
        BY <4>2, <1>1 DEF MembersOk
    <3>. QED
      BY <3>2, <3>3
  <2>2. CASE t # y.tag
    BY <2>2, <1>1, <1>7 DEF MembersOk
  <2>. QED
    BY <2>1, <2>2
<1>9. SinglesOk(c, p) /\ ChoiceOk(c, p)
  BY <1>1, <1>2, <1>6, <1>7 DEF SinglesOk, ChoiceOk, Single
<1>. QED
  BY <1>6, <1>8, <1>9 DEF ObjectOk, p, more

LEMMA ReadElementOk ==
    ASSUME NEW c \in ClassNames, NEW o, ObjectOk(c, o), NEW x \in AnyItem(c)
    PROVE  ObjectOk(c, ReadElement(c, o, x))
<1>. DEFINE y == Lowered(x)
<1>1. y.tag = Lower(x.tag) /\ Reads(c) = Tags(c)
  BY LoweredItem, Tables
<1>2. CASE y.tag \notin Reads(c)
  BY <1>2 DEF ReadElement
<1>3. CASE y.tag \in Reads(c)
  <2>1. y \in Kept(c)
    BY <1>1, <1>3, LoweredItem
  <2>. HIDE DEF y
  <2>2. CASE Elements(c)[y.tag].many
    <3>1. ReadElement(c, o, x) = Append1(o, y)
      BY <1>3, <2>2 DEF ReadElement, y
    <3>2. ObjectOk(c, Append1(o, y))
      BY <2>1, <2>2, AppendOk
    <3>. QED
      BY <3>1, <3>2, Zenon
  <2>3. CASE ~Elements(c)[y.tag].many
    <3>1. ReadElement(c, o, x) = Set(c, o, y)
      BY <1>3, <2>3 DEF ReadElement, y
    <3>2. y.tag \in Single(c)
      BY <1>1, <1>3, <2>3 DEF Single
    <3>3. CASE Header(c).choice
      <4>1. ObjectOk(c, SetChoice(c, o, y))
        BY <2>1, <3>3, SetChoiceOk
      <4>. QED
        BY <3>1, <3>3, <4>1, Zenon DEF Set
    <3>4. CASE ~Header(c).choice
      <4>1. ObjectOk(c, SetOne(o, y))
        BY <2>1, <3>2, <3>4, SetOneOk
      <4>. QED
        BY <3>1, <3>4, <4>1, Zenon DEF Set
    <3>. QED
      BY <3>3, <3>4
  <2>. QED
    BY <2>2, <2>3
<1>. QED
  BY <1>2, <1>3

\* What the properties say of an object after some elements were read.
ShowsAll(c, o, items) == \A t \in Tags(c) : Shown(c, o)[t] = Expected(c, items, t)

LEMMA ShownMember ==
    ASSUME NEW c, NEW o, NEW t \in Tags(c)
    PROVE  Shown(c, o)[t] = IF HasElement(c, o, t) THEN o.elem[t] ELSE <<>>
BY DEF Shown, Tags

LEMMA LastAppend ==
    ASSUME NEW S, NEW s \in Seq(S), NEW y \in S
    PROVE  LastOf(s \o <<y>>) = <<y>> /\ LastOf(s \o <<>>) = LastOf(s)
<1>1. s \o <<y>> # <<>> /\ Len(s \o <<y>>) = Len(s) + 1 /\ (s \o <<y>>)[Len(s) + 1] = y
  OBVIOUS
<1>2. s \o <<>> = s
  BY ConcatEmptySeq
<1>. QED
  BY <1>1, <1>2 DEF LastOf

LEMMA ReadElementShows ==
    ASSUME NEW c \in ClassNames, NEW o, ObjectOk(c, o), NEW items \in Seq(AnyItem(c)),
           NEW x \in AnyItem(c), ShowsAll(c, o, items)
    PROVE  ShowsAll(c, ReadElement(c, o, x), Append(items, x))
<1>. DEFINE y == Lowered(x)
            r == ReadElement(c, o, x)
            more == Append(items, x)
            I == LowerCase(AnyItem(c))
<1>1. y.tag = Lower(x.tag) /\ Reads(c) = Tags(c) /\ y \in I
  BY LoweredItem, Tables DEF LowerCase
<1>2. ASSUME NEW tags
      PROVE  /\ Tagged(more, tags) = Tagged(items, tags) \o (IF y.tag \in tags THEN <<y>> ELSE <<>>)
             /\ Tagged(items, tags) \in Seq(I)
  BY <1>1, TaggedAppend, TaggedType DEF Part
<1>. SUFFICES ASSUME NEW t \in Tags(c) PROVE Shown(c, r)[t] = Expected(c, more, t)
  BY DEF ShowsAll
<1>3. Shown(c, o)[t] = Expected(c, items, t)
  BY DEF ShowsAll
<1>. HIDE DEF y, r, more, I
<1>4. CASE y.tag \notin Tags(c)
  <2>1. r = o
    BY <1>1, <1>4 DEF ReadElement, r, y
  <2>2. Tagged(more, {t}) = Tagged(items, {t}) /\ Tagged(more, Reads(c)) = Tagged(items, Reads(c))
    BY <1>1, <1>2, <1>4, ConcatEmptySeq
  <2>. QED
    BY <1>3, <2>1, <2>2 DEF Expected
<1>5. CASE y.tag \in Tags(c) /\ Elements(c)[y.tag].many
  <2>1. r = Append1(o, y) /\ y \in Kept(c)
    BY <1>1, <1>5, LoweredItem DEF ReadElement, r, y
  <2>2. r.elem = [o.elem EXCEPT ![y.tag] = Append(o.elem[y.tag], y)] /\ r.bits = o.bits
        /\ r.kind = o.kind /\ ~Header(c).choice
    BY <1>5, <2>1, AppendOk, TablesSimple DEF Tags
  <2>3. o.elem \in [Tags(c) -> Seq(Kept(c))]
    BY DEF ObjectOk, ObjectType
  <2>4. CASE t = y.tag
    <3>1. Shown(c, o)[t] = o.elem[t] /\ Shown(c, r)[t] = Append(o.elem[t], y)
      BY <1>5, <2>2, <2>3, <2>4, ShownMember DEF HasElement
    <3>2. Expected(c, more, t) = Tagged(items, {t}) \o <<y>>
      BY <1>2, <1>5, <2>4 DEF Expected
    <3>3. Expected(c, items, t) = Tagged(items, {t})
      BY <1>5, <2>4 DEF Expected
    <3>4. Append(o.elem[t], y) = o.elem[t] \o <<y>>
      BY <2>1, <2>3, AppendIsConcat
    <3>. QED
      BY <1>3, <3>1, <3>2, <3>3, <3>4
  <2>5. CASE t # y.tag
    <3>1. Shown(c, r)[t] = Shown(c, o)[t]
      BY <2>2, <2>3, <2>5, ShownMember DEF HasElement
    <3>2. Tagged(more, {t}) = Tagged(items, {t})
      BY <1>2, <2>5, ConcatEmptySeq
    <3>. QED
      BY <1>3, <2>2, <3>1, <3>2 DEF Expected
  <2>. QED
    BY <2>4, <2>5
<1>6. CASE y.tag \in Tags(c) /\ ~Elements(c)[y.tag].many
  <2>1. r = Set(c, o, y) /\ y \in Kept(c) /\ y.tag \in Single(c)
    BY <1>1, <1>6, LoweredItem DEF ReadElement, Single, r, y
  <2>2. CASE Header(c).choice
    <3>. DEFINE p == SetChoice(c, o, y)
    <3>5. p.kind = y.tag /\ \A u \in Tags(c) : p.elem[u] =
             IF u = y.tag THEN <<y>> ELSE IF u \in Deletes(c) THEN <<>> ELSE o.elem[u]
      BY <2>1, <2>2, SetChoiceOk
    <3>6. p.kind = y.tag /\ (t = y.tag => p.elem[t] = <<y>>)
      BY <3>5, Zenon
    <3>7. r = p
      BY <2>1, <2>2 DEF Set
    <3>. HIDE DEF p
    <3>1. r.kind = y.tag /\ (t = y.tag => r.elem[t] = <<y>>)
      BY <3>6, <3>7
    <3>2. Shown(c, r)[t] = IF t = y.tag THEN <<y>> ELSE <<>>
      BY <2>2, <3>1, ShownMember DEF HasElement
    <3>3. LastOf(Tagged(more, Reads(c))) = <<y>>
      <4>1. Tagged(more, Reads(c)) = Tagged(items, Reads(c)) \o <<y>>
        BY <1>1, <1>2, <1>6
      <4>2. Tagged(items, Reads(c)) \in Seq(I) /\ y \in I
        BY <1>1, <1>2
      <4>. QED
        BY <4>1, <4>2, LastAppend
    <3>4. ~Elements(c)[t].many
      BY <2>2, TablesSimple DEF Tags
    <3>8. Expected(c, more, t) = IF y.tag = t THEN <<y>> ELSE <<>>
      BY <2>2, <3>3, <3>4 DEF Expected
    <3>. QED
      BY <3>2, <3>8
  <2>3. CASE ~Header(c).choice
    <3>1. /\ r.elem = [o.elem EXCEPT ![y.tag] = <<y>>] /\ r.bits = o.bits \cup {y.tag}
          /\ o.elem \in [Tags(c) -> Seq(Kept(c))]
      <4>. DEFINE p == SetOne(o, y)
      <4>1. p.elem = [o.elem EXCEPT ![y.tag] = <<y>>] /\ p.bits = o.bits \cup {y.tag}
        BY <2>1, <2>3, SetOneOk
      <4>2. r = p
        BY <2>1, <2>3 DEF Set
      <4>. HIDE DEF p
      <4>. QED
        BY <4>1, <4>2 DEF ObjectOk, ObjectType
    <3>2. CASE t = y.tag
      <4>1. Shown(c, r)[t] = <<y>>
        BY <2>3, <3>1, <3>2, ShownMember, ZenonT(60) DEF HasElement
      <4>2. LastOf(Tagged(more, {t})) = <<y>>
        <5>1. Tagged(more, {t}) = Tagged(items, {t}) \o <<y>>
          <6>1. y.tag \in {t}
            BY <3>2
          <6>. QED
            BY <1>2, <6>1, Zenon
        <5>2. Tagged(items, {t}) \in Seq(I) /\ y \in I
          BY <1>1, <1>2
        <5>3. LastOf(Tagged(items, {t}) \o <<y>>) = <<y>>
          BY <5>2, LastAppend
        <5>. QED
          BY <5>1, <5>3, Zenon
      <4>. QED
        BY <1>6, <2>3, <3>2, <4>1, <4>2 DEF Expected
    <3>3. CASE t # y.tag
      <4>1. Shown(c, r)[t] = Shown(c, o)[t]
        <5>1. r.elem[t] = o.elem[t] /\ (t \in r.bits <=> t \in o.bits)
          BY <3>1, <3>3
        <5>. QED
          BY <2>3, <5>1, ShownMember DEF HasElement
      <4>2. Tagged(more, {t}) = Tagged(items, {t})
        BY <1>2, <3>3, ConcatEmptySeq
      <4>. QED
        BY <1>3, <2>3, <4>1, <4>2 DEF Expected
    <3>. QED
      BY <3>2, <3>3
  <2>. QED
    BY <2>2, <2>3
<1>. QED
  BY <1>4, <1>5, <1>6 DEF r, more

LEMMA ReadElementKeeps ==
    ASSUME NEW c \in ClassNames, NEW o, ObjectOk(c, o), NEW x \in AnyItem(c)
    PROVE  ReadElement(c, o, x).attr = o.attr /\ ReadElement(c, o, x).text = o.text
<1>. DEFINE r == ReadElement(c, o, x)
            y == Lowered(x)
<1>1. o \in ObjectType(c)
  BY DEF ObjectOk
<1>2. r = o \/ r = Append1(o, y) \/ r = SetOne(o, y) \/ r = SetChoice(c, o, y)
  BY DEF ReadElement, Set
<1>. HIDE DEF r, y
<1>3. CASE r = Append1(o, y)
  BY <1>1, <1>3 DEF Append1, ObjectType, r
<1>4. CASE r = SetOne(o, y)
  BY <1>1, <1>4 DEF SetOne, ObjectType, r
<1>5. CASE r = SetChoice(c, o, y)
  BY <1>1, <1>5 DEF SetChoice, ObjectType, r
<1>. QED
  BY <1>2, <1>3, <1>4, <1>5 DEF r

LEMMA BeginOk ==
    ASSUME NEW c \in ClassNames, NEW e, ReadAttributes(c, e.attr) \in AttrType(c)
    PROVE  /\ ObjectOk(c, Begin(c, e)) /\ ShowsAll(c, Begin(c, e), <<>>)
           /\ Begin(c, e).attr = ReadAttributes(c, e.attr) /\ Begin(c, e).text = FALSE
<1>. DEFINE b == Begin(c, e)
            a == ReadAttributes(c, e.attr)
            z == [t \in Tags(c) |-> <<>>]
<1>1. z \in [Tags(c) -> Seq(Kept(c))] /\ {} \in SUBSET Single(c)
  OBVIOUS
<1>2. b = [Empty(c) EXCEPT !.attr = a] /\ a \in AttrType(c)
  BY DEF Begin
<1>3. \A t \in Tags(c) : z[t] = <<>> /\ Len(z[t]) = 0
  OBVIOUS
<1>. HIDE DEF z, a, b
<1>4. b \in ObjectType(c) /\ b.kind = "unknown" /\ b.elem = z /\ b.bits = {}
      /\ b.attr = a /\ b.text = FALSE
  <2>. DEFINE m == Empty(c)
  <2>1. m = [attr |-> <<>>, text |-> FALSE, bits |-> {}, kind |-> "unknown", elem |-> z]
    BY DEF Empty, Tags, z
  <2>2. /\ m \in [attr : {<<>>}, text : BOOLEAN, bits : SUBSET Single(c),
                   kind : Single(c) \cup {"unknown"}, elem : [Tags(c) -> Seq(Kept(c))]]
        /\ m.kind = "unknown" /\ m.elem = z /\ m.bits = {} /\ m.text = FALSE
    BY <1>1, <2>1
  <2>. HIDE DEF m
  <2>3. b = [m EXCEPT !.attr = a]
    BY <1>2 DEF m
  <2>. QED
    BY <1>2, <2>2, <2>3 DEF ObjectType
<1>5. MembersOk(c, b) /\ ChoiceOk(c, b)
  BY <1>3, <1>4 DEF MembersOk, ChoiceOk
<1>6. SinglesOk(c, b)
  BY <1>3, <1>4 DEF SinglesOk, Single
<1>7. ASSUME NEW t \in Tags(c) PROVE Shown(c, b)[t] = Expected(c, <<>>, t)
  <2>1. Shown(c, b)[t] = <<>>
    BY <1>3, <1>4, ShownMember
  <2>2. Expected(c, <<>>, t) = <<>>
    BY TaggedEmpty DEF Expected, LastOf
  <2>. QED
    BY <2>1, <2>2
<1>. QED
  BY <1>4, <1>5, <1>6, <1>7 DEF ObjectOk, ShowsAll, a, b

LEMMA PrefixStep ==
    ASSUME NEW S, NEW s \in Seq(S), NEW k \in 1 .. Len(s)
    PROVE  /\ SubSeq(s, 1, k) = Append(SubSeq(s, 1, k - 1), s[k])
           /\ SubSeq(s, 1, k - 1) \in Seq(S) /\ s[k] \in S
<1>1. SubSeq(s, 1, k - 1) \in Seq(S) /\ s[k] \in S
  OBVIOUS
<1>2. Len(SubSeq(s, 1, k - 1)) = k - 1
  OBVIOUS
<1>3. SubSeq(s, 1, k) \in Seq(S) /\ Len(SubSeq(s, 1, k)) = k
  OBVIOUS
<1>4. ASSUME NEW i \in 1 .. k
      PROVE  SubSeq(s, 1, k)[i] = Append(SubSeq(s, 1, k - 1), s[k])[i]
  BY <1>1, <1>2
<1>. QED
  BY <1>1, <1>2, <1>3, <1>4, SeqEqual

\* read() of a whole element.
LEMMA ReadAllOk ==
    ASSUME NEW c \in ClassNames, NEW e, e.items \in Seq(AnyItem(c)), e.text \in BOOLEAN,
           ReadAttributes(c, e.attr) \in AttrType(c)
    PROVE  /\ ObjectOk(c, ReadAll(c, e)) /\ ShowsAll(c, ReadAll(c, e), e.items)
           /\ ReadAll(c, e).text = e.text /\ ReadAll(c, e).attr = ReadAttributes(c, e.attr)
<1>. DEFINE items == e.items
            n == Len(items)
            b == Begin(c, e)
            V == {o \in ObjectType(c) : ObjectOk(c, o)}
            g == [p \in Nat \X V |-> IF p[1] \in 1 .. n THEN ReadElement(c, p[2], items[p[1]])
                                     ELSE p[2]]
            Is(f) == f = [i \in 0 .. n |-> IF i = 0 THEN b ELSE ReadElement(c, f[i - 1], items[i])]
            after == CHOOSE f : Is(f)
<1>1. n \in Nat /\ \A i \in 1 .. n : items[i] \in AnyItem(c)
  OBVIOUS
<1>2. b \in V /\ ShowsAll(c, b, <<>>) /\ b.attr = ReadAttributes(c, e.attr) /\ b.text = FALSE
  BY BeginOk DEF ObjectOk
<1>3. ASSUME NEW o \in V, NEW i \in 1 .. n PROVE ReadElement(c, o, items[i]) \in V
  BY <1>1, ReadElementOk DEF ObjectOk
<1>. HIDE DEF b
<1>4. g \in [Nat \X V -> V]
  <2>. SUFFICES ASSUME NEW i \in Nat, NEW o \in V
                PROVE  (IF i \in 1 .. n THEN ReadElement(c, o, items[i]) ELSE o) \in V
    <3>. HIDE DEF V
    <3>. QED
      OBVIOUS
  <2>. HIDE DEF V
  <2>. QED
    BY <1>3
<1>5. ASSUME NEW i \in 1 .. n, NEW o \in V PROVE g[<<i, o>>] = ReadElement(c, o, items[i])
  <2>1. <<i, o>> \in Nat \X V
    BY <1>1
  <2>. HIDE DEF V
  <2>. QED
    BY <2>1
<1>. HIDE DEF V
<1>6. PICK f \in [0 .. n -> V] : Follows(f, b, g, n)
  <2>. HIDE DEF g, n
  <2>. QED
    BY <1>1, <1>2, <1>4, Recursion, Zenon
<1>7. Is(f)
  <2>1. ASSUME NEW i \in 0 .. n
        PROVE  f[i] = IF i = 0 THEN b ELSE ReadElement(c, f[i - 1], items[i])
    <3>1. CASE i = 0
      BY <3>1, <1>6 DEF Follows
    <3>2. CASE i # 0
      <4>1. i \in 1 .. n /\ i - 1 \in 0 .. n
        BY <1>1, <3>2
      <4>2. f[i - 1] \in V
        BY <4>1, <1>6
      <4>3. f[i] = g[<<i, f[i - 1]>>]
        BY <4>1, <1>6 DEF Follows
      <4>. HIDE DEF g
      <4>. QED
        BY <3>2, <4>1, <4>2, <4>3, <1>5
    <3>. QED
      BY <3>1, <3>2
  <2>. QED
    BY <2>1, <1>6
<1>8. Is(after)
  BY <1>7
<1>9. /\ after[0] = b
      /\ \A i \in 1 .. n : after[i] = ReadElement(c, after[i - 1], items[i])
  <2>1. \A i \in 0 .. n : after[i] = IF i = 0 THEN b ELSE ReadElement(c, after[i - 1], items[i])
    BY <1>8
  <2>. HIDE DEF after
  <2>. QED
    BY <1>1, <2>1
<1>10. ReadAll(c, e) = [after[n] EXCEPT !.text = e.text]
  BY DEF ReadAll, b
<1>. HIDE DEF after, g
<1>. DEFINE T == {k \in Nat : k \in 0 .. n =>
                    /\ after[k] \in V /\ ShowsAll(c, after[k], SubSeq(items, 1, k))
                    /\ after[k].attr = b.attr}
<1>11. 0 \in T
  <2>1. SubSeq(items, 1, 0) = <<>>
    OBVIOUS
  <2>. QED
    BY <2>1, <1>2, <1>9
<1>12. ASSUME NEW k \in Nat \ {0}, k - 1 \in T PROVE k \in T
  <2>. SUFFICES ASSUME k \in 0 .. n
                PROVE  /\ after[k] \in V /\ ShowsAll(c, after[k], SubSeq(items, 1, k))
                       /\ after[k].attr = b.attr
    OBVIOUS
  <2>. DEFINE o == after[k - 1]
              before == SubSeq(items, 1, k - 1)
  <2>1. k \in 1 .. n /\ k - 1 \in 0 .. n
    BY <1>1
  <2>2. o \in V /\ ShowsAll(c, o, before) /\ o.attr = b.attr
    BY <2>1, <1>12
  <2>3. after[k] = ReadElement(c, o, items[k])
    BY <2>1, <1>9
  <2>4. SubSeq(items, 1, k) = Append(before, items[k]) /\ before \in Seq(AnyItem(c))
        /\ items[k] \in AnyItem(c)
    BY <2>1, PrefixStep
  <2>. HIDE DEF o, before
  <2>5. ObjectOk(c, o)
    BY <2>2 DEF V
  <2>6. ShowsAll(c, ReadElement(c, o, items[k]), Append(before, items[k]))
    BY <2>2, <2>4, <2>5, ReadElementShows
  <2>7. ReadElement(c, o, items[k]).attr = o.attr
    BY <2>4, <2>5, ReadElementKeeps
  <2>8. ReadElement(c, o, items[k]) \in V
    BY <2>1, <2>2, <1>3
  <2>. QED
    BY <2>2, <2>3, <2>4, <2>6, <2>7, <2>8
<1>13. n \in T
  <2>. HIDE DEF T
  <2>. QED
    BY <1>1, <1>11, <1>12, Induction
<1>. DEFINE o == after[n]
            p == [o EXCEPT !.text = e.text]
<1>14. SubSeq(items, 1, n) = items
  OBVIOUS
<1>15. ObjectOk(c, o) /\ ShowsAll(c, o, items) /\ o.attr = b.attr
  <2>1. n \in 0 .. n
    BY <1>1
  <2>2. after[n] \in V /\ ShowsAll(c, after[n], SubSeq(items, 1, n)) /\ after[n].attr = b.attr
    BY <1>13, <2>1, Zenon
  <2>3. o \in V /\ ShowsAll(c, o, items) /\ o.attr = b.attr
    BY <2>2, <1>14, Zenon
  <2>. QED
    BY <2>3 DEF V
<1>. HIDE DEF o
<1>16. o \in ObjectType(c)
  BY <1>15 DEF ObjectOk
<1>17. p \in ObjectType(c) /\ p.text = e.text /\ p.attr = o.attr /\ p.elem = o.elem
       /\ p.bits = o.bits /\ p.kind = o.kind
  BY <1>16 DEF ObjectType
<1>. HIDE DEF p
<1>18. ObjectOk(c, p)
  BY <1>15, <1>17 DEF ObjectOk, MembersOk, ChoiceOk, SinglesOk
<1>19. ShowsAll(c, p, items)
  <2>. SUFFICES ASSUME NEW t \in Tags(c) PROVE Shown(c, p)[t] = Shown(c, o)[t]
    BY <1>15, Zenon DEF ShowsAll
  <2>. QED
    BY <1>17, ShownMember DEF HasElement
<1>. QED
  BY <1>2, <1>10, <1>15, <1>17, <1>18, <1>19 DEF p, o

-----------------------------------------------------------------------------
(* What an object writes *)

LEMMA TaggedConcat ==
    ASSUME NEW I, NEW a \in Seq(I), NEW b \in Seq(I), NEW tags
    PROVE  Tagged(a \o b, tags) = Tagged(a, tags) \o Tagged(b, tags)
<1>. DEFINE n == Len(b)
            J == LowerCase(I)
            pre(k) == SubSeq(b, 1, k)
            T == {k \in Nat : k <= n =>
                    Tagged(a \o pre(k), tags) = Tagged(a, tags) \o Tagged(pre(k), tags)}
<1>0. n \in Nat /\ pre(n) = b /\ pre(0) = <<>> /\ Tagged(a, tags) \in Seq(J)
  BY TaggedType
<1>4. ASSUME NEW u \in Seq(J), NEW v \in Seq(J), NEW w \in Seq(J)
      PROVE  (u \o v) \o w = u \o (v \o w)
  <2>. HIDE DEF J
  <2>. QED
    BY ConcatAssociative
<1>1. 0 \in T
  <2>1. a \o pre(0) = a /\ Tagged(pre(0), tags) = <<>>
    <3>. HIDE DEF pre
    <3>1. a \o pre(0) = a
      BY <1>0, ConcatEmptySeq
    <3>. QED
      BY <3>1, <1>0, TaggedEmpty, Zenon
  <2>2. Tagged(a, tags) \o <<>> = Tagged(a, tags)
    BY <1>0, ConcatEmptySeq
  <2>. QED
    BY <2>1, <2>2
<1>2. ASSUME NEW k \in Nat \ {0}, k - 1 \in T PROVE k \in T
  <2>. SUFFICES ASSUME k <= n
                PROVE  Tagged(a \o pre(k), tags) = Tagged(a, tags) \o Tagged(pre(k), tags)
    OBVIOUS
  <2>. DEFINE s == pre(k - 1)
              x == b[k]
              u == Part(x, tags)
  <2>1. k \in 1 .. n /\ k - 1 \in Nat
    BY <1>0
  <2>2. pre(k) = Append(s, x) /\ s \in Seq(I) /\ x \in I
    BY <2>1, PrefixStep
  <2>3. Tagged(a \o s, tags) = Tagged(a, tags) \o Tagged(s, tags)
    BY <2>1, <1>2
  <2>. HIDE DEF s, x, pre
  <2>4. a \o s \in Seq(I) /\ a \o Append(s, x) = Append(a \o s, x)
    BY <2>2
  <2>5. /\ Tagged(Append(a \o s, x), tags) = Tagged(a \o s, tags) \o u
        /\ Tagged(Append(s, x), tags) = Tagged(s, tags) \o u
    BY <2>2, <2>4, TaggedAppend
  <2>6. u \in Seq(J) /\ Tagged(s, tags) \in Seq(J)
    BY <2>2, PartType, TaggedType
  <2>. HIDE DEF u
  <2>7. (Tagged(a, tags) \o Tagged(s, tags)) \o u = Tagged(a, tags) \o (Tagged(s, tags) \o u)
    BY <1>0, <1>4, <2>6, Zenon
  <2>. QED
    BY <2>2, <2>3, <2>4, <2>5, <2>7, Zenon
<1>3. n \in T
  <2>. HIDE DEF T
  <2>. QED
    BY <1>0, <1>1, <1>2, Induction
<1>. QED
  <2>1. Tagged(a \o pre(n), tags) = Tagged(a, tags) \o Tagged(pre(n), tags)
    BY <1>0, <1>3
  <2>. QED
    BY <2>1, <1>0, Zenon

\* All of one part, nothing of the others.
LEMMA TaggedFlatten ==
    ASSUME NEW I, NEW ss \in Seq(Seq(I)), NEW tags, NEW p, NEW k \in Nat,
           \A i \in 1 .. Len(ss) : Tagged(ss[i], tags) = IF i = k THEN p ELSE <<>>
    PROVE  Tagged(FlattenSeq(ss), tags) = IF k \in 1 .. Len(ss) THEN p ELSE <<>>
<1>. DEFINE n == Len(ss)
            J == LowerCase(I)
<1>1. n \in Nat /\ \A i \in 1 .. n : ss[i] \in Seq(I)
  OBVIOUS
<1>2. PICK f \in [0 .. n -> Seq(I)] : Flattens(f, ss) /\ FlattenSeq(ss) = f[n]
  BY FlattenParts
<1>3. \A i \in 1 .. n : Tagged(ss[i], tags) = IF i = k THEN p ELSE <<>>
  OBVIOUS
<1>7. ASSUME NEW a \in Seq(I), NEW b \in Seq(I)
      PROVE  Tagged(a \o b, tags) = Tagged(a, tags) \o Tagged(b, tags)
  BY TaggedConcat
<1>. DEFINE T == {j \in Nat : j <= n => Tagged(f[j], tags) = IF k \in 1 .. j THEN p ELSE <<>>}
<1>4. 0 \in T
  BY <1>2, TaggedEmpty DEF Flattens
<1>5. ASSUME NEW j \in Nat \ {0}, j - 1 \in T PROVE j \in T
  <2>. SUFFICES ASSUME j <= n
                PROVE  Tagged(f[j], tags) = IF k \in 1 .. j THEN p ELSE <<>>
    OBVIOUS
  <2>1. j \in 1 .. n /\ j - 1 \in 0 .. n
    BY <1>1
  <2>2. Tagged(f[j - 1], tags) = IF k \in 1 .. j - 1 THEN p ELSE <<>>
    BY <1>5, <2>1
  <2>3. f[j] = f[j - 1] \o ss[j]
    BY <2>1, <1>2 DEF Flattens
  <2>4. f[j - 1] \in Seq(I) /\ ss[j] \in Seq(I)
    BY <2>1, <1>1, <1>2
  <2>5. Tagged(f[j], tags) = Tagged(f[j - 1], tags) \o Tagged(ss[j], tags)
    <3>1. Tagged(f[j - 1] \o ss[j], tags) = Tagged(f[j - 1], tags) \o Tagged(ss[j], tags)
      BY <2>4, <1>7, Zenon
    <3>. QED
      BY <2>3, <3>1, Zenon
  <2>6. Tagged(f[j - 1], tags) \in Seq(J) /\ Tagged(ss[j], tags) \in Seq(J)
    BY <2>4, TaggedType
  <2>7. Tagged(ss[j], tags) = IF j = k THEN p ELSE <<>>
    BY <2>1, <1>3
  <2>. HIDE DEF J, n
  <2>8. CASE j = k
    <3>1. k \notin 1 .. j - 1 /\ k \in 1 .. j
      BY <2>8
    <3>3. p \in Seq(J)
      BY <2>6, <2>7, <2>8
    <3>2. <<>> \o p = p
      BY <3>3, ConcatEmptySeq
    <3>. QED
      BY <2>2, <2>5, <2>7, <2>8, <3>1, <3>2
  <2>9. CASE j # k
    <3>1. k \in 1 .. j - 1 <=> k \in 1 .. j
      BY <2>9
    <3>2. Tagged(f[j - 1], tags) \o <<>> = Tagged(f[j - 1], tags)
      BY <2>6, ConcatEmptySeq
    <3>. QED
      BY <2>2, <2>5, <2>7, <2>9, <3>1, <3>2
  <2>. QED
    BY <2>8, <2>9
<1>6. n \in T
  <2>. HIDE DEF T
  <2>. QED
    BY <1>1, <1>4, <1>5, Induction
<1>. QED
  BY <1>1, <1>2, <1>6

LEMMA TaggedAll ==
    ASSUME NEW I, NEW s \in Seq(I), NEW tags,
           \A i \in 1 .. Len(s) : Lower(s[i].tag) \in tags
    PROVE  Tagged(s, tags) = [i \in 1 .. Len(s) |-> Lowered(s[i])]
<1>. DEFINE n == Len(s)
            J == LowerCase(I)
            L(k) == [i \in 1 .. k |-> Lowered(s[i])]
            pre(k) == SubSeq(s, 1, k)
            T == {k \in Nat : k <= n => Tagged(pre(k), tags) = L(k)}
<1>0. /\ n \in Nat /\ pre(n) = s /\ pre(0) = <<>> /\ L(0) = <<>>
      /\ \A i \in 1 .. n : Lowered(s[i]) \in J
  BY DEF LowerCase
<1>1. 0 \in T
  BY <1>0, TaggedEmpty
<1>2. ASSUME NEW k \in Nat \ {0}, k - 1 \in T PROVE k \in T
  <2>. SUFFICES ASSUME k <= n PROVE Tagged(pre(k), tags) = L(k)
    OBVIOUS
  <2>1. k \in 1 .. n /\ k - 1 \in Nat
    BY <1>0
  <2>2. pre(k) = Append(pre(k - 1), s[k]) /\ pre(k - 1) \in Seq(I) /\ s[k] \in I
    BY <2>1, PrefixStep
  <2>3. Tagged(pre(k - 1), tags) = L(k - 1)
    BY <2>1, <1>2
  <2>4. Part(s[k], tags) = <<Lowered(s[k])>>
    BY <2>1 DEF Part
  <2>5. Tagged(Append(pre(k - 1), s[k]), tags) = L(k - 1) \o <<Lowered(s[k])>>
    <3>. HIDE DEF pre, L
    <3>1. Tagged(Append(pre(k - 1), s[k]), tags) = Tagged(pre(k - 1), tags) \o Part(s[k], tags)
      BY <2>2, TaggedAppend, Zenon
    <3>. QED
      BY <2>3, <2>4, <3>1, Zenon
  <2>6. L(k - 1) \o <<Lowered(s[k])>> = L(k)
    <3>. DEFINE M == L(k - 1)
                x == Lowered(s[k])
    <3>1. M \in [1 .. k - 1 -> J] /\ x \in J /\ L(k) \in [1 .. k -> J]
      BY <1>0, <2>1
    <3>2. M \in Seq(J) /\ Len(M) = k - 1 /\ L(k) \in Seq(J) /\ Len(L(k)) = k
      <4>. HIDE DEF L, J
      <4>. QED
        BY <2>1, <3>1, AFunctionIsASeq
    <3>3. \A i \in 1 .. k : L(k)[i] = IF i = k THEN x ELSE M[i]
      BY <2>1
    <3>. HIDE DEF M, x, L, J
    <3>4. M \o <<x>> \in Seq(J) /\ Len(M \o <<x>>) = k
          /\ \A i \in 1 .. k : (M \o <<x>>)[i] = IF i = k THEN x ELSE M[i]
      BY <3>1, <3>2
    <3>. QED
      BY <3>2, <3>3, <3>4, SeqEqual DEF M, x
  <2>. HIDE DEF pre, L
  <2>. QED
    BY <2>2, <2>5, <2>6, Zenon
<1>3. n \in T
  <2>. HIDE DEF T
  <2>. QED
    BY <1>0, <1>1, <1>2, Induction
<1>. QED
  <2>1. Tagged(pre(n), tags) = L(n)
    BY <1>0, <1>3
  <2>. QED
    BY <2>1, <1>0

LEMMA TaggedNone ==
    ASSUME NEW I, NEW s \in Seq(I), NEW tags,
           \A i \in 1 .. Len(s) : Lower(s[i].tag) \notin tags
    PROVE  Tagged(s, tags) = <<>>
<1>. DEFINE n == Len(s)
            pre(k) == SubSeq(s, 1, k)
            T == {k \in Nat : k <= n => Tagged(pre(k), tags) = <<>>}
<1>0. n \in Nat /\ pre(n) = s /\ pre(0) = <<>>
  OBVIOUS
<1>1. 0 \in T
  BY <1>0, TaggedEmpty
<1>2. ASSUME NEW k \in Nat \ {0}, k - 1 \in T PROVE k \in T
  <2>. SUFFICES ASSUME k <= n PROVE Tagged(pre(k), tags) = <<>>
    OBVIOUS
  <2>1. k \in 1 .. n /\ k - 1 \in Nat
    BY <1>0
  <2>2. pre(k) = Append(pre(k - 1), s[k]) /\ pre(k - 1) \in Seq(I) /\ s[k] \in I
    BY <2>1, PrefixStep
  <2>3. Tagged(pre(k - 1), tags) = <<>>
    BY <2>1, <1>2
  <2>4. Part(s[k], tags) = <<>>
    BY <2>1 DEF Part
  <2>5. Tagged(Append(pre(k - 1), s[k]), tags) = <<>> \o <<>>
    <3>. HIDE DEF pre
    <3>1. Tagged(Append(pre(k - 1), s[k]), tags) = Tagged(pre(k - 1), tags) \o Part(s[k], tags)
      BY <2>2, TaggedAppend, Zenon
    <3>. QED
      BY <2>3, <2>4, <3>1, Zenon
  <2>. HIDE DEF pre
  <2>. QED
    BY <2>2, <2>5
<1>3. n \in T
  <2>. HIDE DEF T
  <2>. QED
    BY <1>0, <1>1, <1>2, Induction
<1>. QED
  <2>1. Tagged(pre(n), tags) = <<>>
    BY <1>0, <1>3
  <2>. QED
    BY <2>1, <1>0

Rounded(s) == [i \in DOMAIN s |-> WriteValue(s[i])]

LEMMA StaleOk ==
    ASSUME NEW c \in ClassNames, NEW o, ObjectOk(c, o), NEW tag \in Range(Writes(c))
    PROVE  /\ Lower(tag) \in Tags(c)
           /\ WriteStale(c, o, tag) \in Seq(AnyItem(c))
           /\ Len(WriteStale(c, o, tag)) = Len(o.elem[Lower(tag)])
           /\ \A i \in 1 .. Len(o.elem[Lower(tag)]) :
                 /\ WriteStale(c, o, tag)[i].tag = tag
                 /\ Lowered(WriteStale(c, o, tag)[i]) = WriteValue(o.elem[Lower(tag)][i])
<1>. DEFINE t == Lower(tag)
            s == o.elem[t]
            w == WriteStale(c, o, tag)
            v(i) == [tag |-> tag, id |-> s[i].id,
                     val |-> IF s[i].val = "fine" THEN "rounded" ELSE s[i].val]
<1>1. t \in Tags(c)
  BY TablesAgree DEF Tags
<1>. HIDE DEF t
<1>2. s \in Seq(Kept(c)) /\ MembersOk(c, o)
  BY <1>1 DEF ObjectOk, ObjectType
<1>3. \A i \in 1 .. Len(s) : s[i] \in Kept(c) /\ s[i].tag = t
  BY <1>1, <1>2 DEF MembersOk
<1>4. Len(s) \in Nat /\ DOMAIN s = 1 .. Len(s)
  BY <1>2
<1>5. w = [i \in DOMAIN s |-> [WriteValue(s[i]) EXCEPT !.tag = tag]]
  BY DEF WriteStale, t
<1>. HIDE DEF s
<1>6. ASSUME NEW i \in 1 .. Len(s)
      PROVE  /\ [WriteValue(s[i]) EXCEPT !.tag = tag] = v(i)
             /\ WriteValue(s[i]) = [v(i) EXCEPT !.tag = t]
             /\ v(i) \in AnyItem(c)
  <2>. DEFINE x == s[i]
              q == IF x.val = "fine" THEN "rounded" ELSE x.val
  <2>1. x \in Kept(c) /\ x.tag = t
    BY <1>3
  <2>. HIDE DEF x
  <2>2. x = [tag |-> t, id |-> x.id, val |-> x.val] /\ x.id \in Nat /\ x.val \in Vals
    BY <2>1 DEF Kept
  <2>3. q \in Vals
    BY <2>2 DEF Vals
  <2>4. WriteValue(x) = [x EXCEPT !.val = q]
    BY DEF WriteValue
  <2>. HIDE DEF q
  <2>5. WriteValue(x) = [tag |-> t, id |-> x.id, val |-> q]
    BY <2>1, <2>2, <2>3, <2>4 DEF Kept
  <2>6. [WriteValue(x) EXCEPT !.tag = tag] = [tag |-> tag, id |-> x.id, val |-> q]
    BY <2>5
  <2>7. [[tag |-> tag, id |-> x.id, val |-> q] EXCEPT !.tag = t] = [tag |-> t, id |-> x.id, val |-> q]
    OBVIOUS
  <2>8. [tag |-> tag, id |-> x.id, val |-> q] \in AnyItem(c)
    BY <2>2, <2>3 DEF AnyItem
  <2>. QED
    BY <2>5, <2>6, <2>7, <2>8 DEF x, q
<1>7. w \in [1 .. Len(s) -> AnyItem(c)] /\ \A i \in 1 .. Len(s) : w[i] = v(i)
  <2>. HIDE DEF v
  <2>. QED
    BY <1>4, <1>5, <1>6
<1>. HIDE DEF w
<1>8. w \in Seq(AnyItem(c)) /\ Len(w) = Len(s)
  BY <1>4, <1>7, AFunctionIsASeq
<1>9. ASSUME NEW i \in 1 .. Len(s) PROVE w[i].tag = tag /\ Lowered(w[i]) = WriteValue(s[i])
  <2>1. w[i] = v(i) /\ Lower(tag) = t /\ WriteValue(s[i]) = [v(i) EXCEPT !.tag = t]
    BY <1>6, <1>7 DEF t
  <2>2. v(i).tag = tag /\ Lowered(v(i)) = [v(i) EXCEPT !.tag = t]
    BY <2>1 DEF Lowered
  <2>. QED
    BY <2>1, <2>2
<1>. QED
  BY <1>1, <1>8, <1>9 DEF t, s, w

\* One element as it is written, and what is found of it.
LEMMA WriteElementOk ==
    ASSUME NEW c \in ClassNames, NEW o, ObjectOk(c, o), NEW tag \in Range(Writes(c)), NEW tags
    PROVE  /\ WriteElement(c, o, tag) \in Seq(AnyItem(c))
           /\ Tagged(WriteElement(c, o, tag), tags) =
                 IF Lower(tag) \in tags THEN Rounded(Shown(c, o)[Lower(tag)]) ELSE <<>>
<1>. DEFINE t == Lower(tag)
            s == o.elem[t]
            w == WriteStale(c, o, tag)
            I == AnyItem(c)
<1>1. /\ t \in Tags(c) /\ w \in Seq(I) /\ Len(w) = Len(s)
      /\ \A i \in 1 .. Len(s) : w[i].tag = tag /\ Lowered(w[i]) = WriteValue(s[i])
  BY StaleOk
<1>2. s \in Seq(Kept(c)) /\ Len(s) \in Nat /\ DOMAIN s = 1 .. Len(s)
  BY <1>1 DEF ObjectOk, ObjectType
<1>3. WriteElement(c, o, tag) = IF HasElement(c, o, t) THEN w ELSE <<>>
  BY DEF WriteElement
<1>4. Shown(c, o)[t] = IF HasElement(c, o, t) THEN s ELSE <<>>
  BY <1>1, ShownMember
<1>. HIDE DEF s, w, I
<1>5. CASE ~HasElement(c, o, t)
  <2>1. Rounded(<<>>) = <<>> /\ <<>> \in Seq(I)
    BY DEF Rounded
  <2>. HIDE DEF t
  <2>. QED
    BY <2>1, <1>3, <1>4, <1>5, TaggedEmpty DEF t, I
<1>6. CASE HasElement(c, o, t) /\ t \in tags
  <2>1. \A i \in 1 .. Len(w) : Lower(w[i].tag) \in tags
    BY <1>1, <1>6
  <2>2. Tagged(w, tags) = [i \in 1 .. Len(w) |-> Lowered(w[i])]
    BY <1>1, <2>1, TaggedAll
  <2>3. Rounded(s) = [i \in 1 .. Len(w) |-> Lowered(w[i])]
    BY <1>1, <1>2 DEF Rounded
  <2>. QED
    BY <1>1, <1>3, <1>4, <1>6, <2>2, <2>3 DEF I
<1>7. CASE HasElement(c, o, t) /\ t \notin tags
  <2>1. \A i \in 1 .. Len(w) : Lower(w[i].tag) \notin tags
    BY <1>1, <1>7
  <2>2. Tagged(w, tags) = <<>>
    BY <1>1, <2>1, TaggedNone
  <2>. QED
    BY <1>1, <1>3, <1>7, <2>2 DEF I
<1>. QED
  BY <1>5, <1>6, <1>7

LEMMA WrittenItems ==
    ASSUME NEW c \in ClassNames, NEW o, ObjectOk(c, o)
    PROVE  /\ Written(c, o).items \in Seq(AnyItem(c))
           /\ \A t \in Tags(c) : Tagged(Written(c, o).items, {t}) = Rounded(Shown(c, o)[t])
           /\ Header(c).choice => Tagged(Written(c, o).items, Reads(c)) =
                 IF o.kind = "unknown" THEN <<>> ELSE Rounded(o.elem[o.kind])
<1>. DEFINE W == Writes(c)
            n == Len(W)
            I == AnyItem(c)
            ss == [i \in DOMAIN W |-> WriteElement(c, o, W[i])]
<1>1. n \in Nat /\ DOMAIN W = 1 .. n /\ \A i \in 1 .. n : W[i] \in Range(W)
  BY TablesSimple DEF Range
<1>2. \A i, j \in 1 .. n : Lower(W[i]) = Lower(W[j]) => i = j
  BY <1>1, TablesSimple
<1>3. \A t \in Tags(c) : \E k \in 1 .. n : Lower(W[k]) = t
  BY <1>1, TablesAgree DEF Range, Tags
<1>4. Written(c, o).items = FlattenSeq(ss)
  BY DEF Written
<1>. HIDE DEF W, n
<1>5. ASSUME NEW i \in 1 .. n, NEW tags
      PROVE  /\ WriteElement(c, o, W[i]) \in Seq(I)
             /\ Tagged(WriteElement(c, o, W[i]), tags) =
                   IF Lower(W[i]) \in tags THEN Rounded(Shown(c, o)[Lower(W[i])]) ELSE <<>>
  BY <1>1, WriteElementOk DEF W
<1>6. ss \in [1 .. n -> Seq(I)] /\ \A i \in 1 .. n : ss[i] = WriteElement(c, o, W[i])
  <2>1. \A i \in 1 .. n : WriteElement(c, o, W[i]) \in Seq(I)
    BY <1>5
  <2>. HIDE DEF I
  <2>. QED
    BY <1>1, <2>1
<1>. HIDE DEF ss, I
<1>7. ss \in Seq(Seq(I)) /\ Len(ss) = n
  BY <1>1, <1>6, AFunctionIsASeq
<1>8. ASSUME NEW tags, NEW k \in Nat, NEW p,
             \A i \in 1 .. n : Tagged(ss[i], tags) = IF i = k THEN p ELSE <<>>
      PROVE  Tagged(FlattenSeq(ss), tags) = IF k \in 1 .. n THEN p ELSE <<>>
  BY <1>7, <1>8, TaggedFlatten
<1>9. ASSUME NEW t \in Tags(c) PROVE Tagged(FlattenSeq(ss), {t}) = Rounded(Shown(c, o)[t])
  <2>1. PICK k \in 1 .. n : Lower(W[k]) = t
    BY <1>3
  <2>. DEFINE p == Rounded(Shown(c, o)[t])
  <2>2. ASSUME NEW i \in 1 .. n PROVE Tagged(ss[i], {t}) = IF i = k THEN p ELSE <<>>
    <3>1. Lower(W[i]) \in {t} <=> i = k
      BY <2>1, <1>2
    <3>2. Tagged(ss[i], {t}) = IF Lower(W[i]) \in {t} THEN Rounded(Shown(c, o)[Lower(W[i])]) ELSE <<>>
      BY <1>5, <1>6
    <3>. QED
      BY <2>1, <3>1, <3>2
  <2>. HIDE DEF p
  <2>3. k \in Nat
    BY <1>1
  <2>4. Tagged(FlattenSeq(ss), {t}) = IF k \in 1 .. n THEN p ELSE <<>>
    BY <2>2, <2>3, <1>8
  <2>. QED
    BY <2>1, <2>4 DEF p
<1>10. ASSUME Header(c).choice
       PROVE  Tagged(FlattenSeq(ss), Reads(c)) =
                 IF o.kind = "unknown" THEN <<>> ELSE Rounded(o.elem[o.kind])
  <2>. DEFINE p == Rounded(o.elem[o.kind])
  <2>0. Reads(c) = Tags(c) /\ "unknown" \notin Tags(c) /\ o.kind \in Tags(c) \cup {"unknown"}
    BY <1>10, Tables, TablesSimple DEF ObjectOk, ObjectType
  <2>1. ASSUME NEW i \in 1 .. n
        PROVE  Tagged(ss[i], Reads(c)) = IF Lower(W[i]) = o.kind THEN p ELSE <<>>
    <3>1. Lower(W[i]) \in Tags(c)
      BY <1>1, TablesAgree DEF Tags, W
    <3>2. Tagged(ss[i], Reads(c)) = Rounded(Shown(c, o)[Lower(W[i])])
      BY <3>1, <2>0, <1>5, <1>6
    <3>3. Shown(c, o)[Lower(W[i])] = IF Lower(W[i]) = o.kind THEN o.elem[o.kind] ELSE <<>>
      BY <1>10, <3>1, ShownMember DEF HasElement
    <3>4. Rounded(<<>>) = <<>>
      BY DEF Rounded
    <3>. QED
      BY <3>2, <3>3, <3>4
  <2>. HIDE DEF p
  <2>2. CASE o.kind = "unknown"
    <3>1. \A i \in 1 .. n : Tagged(ss[i], Reads(c)) = IF i = 0 THEN <<>> ELSE <<>>
      <4>1. \A i \in 1 .. n : Lower(W[i]) \in Tags(c)
        BY <1>1, TablesAgree DEF Tags, W
      <4>. QED
        BY <2>0, <2>1, <2>2, <4>1
    <3>2. Tagged(FlattenSeq(ss), Reads(c)) = IF 0 \in 1 .. n THEN <<>> ELSE <<>>
      BY <3>1, <1>8
    <3>. QED
      BY <2>2, <3>2
  <2>3. CASE o.kind # "unknown"
    <3>1. PICK k \in 1 .. n : Lower(W[k]) = o.kind
      BY <2>0, <2>3, <1>3
    <3>2. \A i \in 1 .. n : Tagged(ss[i], Reads(c)) = IF i = k THEN p ELSE <<>>
      BY <3>1, <2>1, <1>2
    <3>3. k \in Nat
      BY <1>1
    <3>4. Tagged(FlattenSeq(ss), Reads(c)) = IF k \in 1 .. n THEN p ELSE <<>>
      BY <3>2, <3>3, <1>8
    <3>. QED
      BY <2>3, <3>1, <3>4 DEF p
  <2>. QED
    BY <2>2, <2>3
<1>11. FlattenSeq(ss) \in Seq(I)
  BY <1>7, FlattenType
<1>. QED
  BY <1>4, <1>9, <1>10, <1>11 DEF I

LEMMA ExpectedWritten ==
    ASSUME NEW c \in ClassNames, NEW o, ObjectOk(c, o), NEW t \in Tags(c)
    PROVE  Expected(c, Written(c, o).items, t) = Rounded(Shown(c, o)[t])
<1>. DEFINE items == Written(c, o).items
            p == Rounded(Shown(c, o)[t])
<1>1. Tagged(items, {t}) = p
  BY WrittenItems
<1>2. /\ Shown(c, o)[t] = IF HasElement(c, o, t) THEN o.elem[t] ELSE <<>>
      /\ Rounded(<<>>) = <<>> /\ LastOf(<<>>) = <<>>
  BY ShownMember DEF Rounded, LastOf
<1>3. /\ o \in ObjectType(c) /\ MembersOk(c, o) /\ ChoiceOk(c, o) /\ SinglesOk(c, o)
      /\ o.elem \in [Tags(c) -> Seq(Kept(c))]
  BY DEF ObjectOk, ObjectType
<1>4. ASSUME NEW u \in Tags(c), Len(o.elem[u]) = 1
      PROVE  /\ LastOf(Rounded(o.elem[u])) = Rounded(o.elem[u])
             /\ Rounded(o.elem[u]) # <<>> /\ Rounded(o.elem[u])[1].tag = u
  <2>. DEFINE s == o.elem[u]
              q == Rounded(s)
  <2>1. s \in Seq(Kept(c)) /\ DOMAIN s = 1 .. 1 /\ s[1] \in Kept(c) /\ s[1].tag = u
    BY <1>3, <1>4 DEF MembersOk
  <2>. HIDE DEF s
  <2>2. q \in [1 .. 1 -> {WriteValue(s[1])}] /\ q[1] = WriteValue(s[1])
    BY <2>1 DEF Rounded
  <2>. HIDE DEF q
  <2>3. q \in Seq({WriteValue(s[1])}) /\ Len(q) = 1
    BY <2>2, AFunctionIsASeq
  <2>4. q # <<>> /\ q = <<q[1]>>
    BY <2>3
  <2>5. WriteValue(s[1]).tag = u
    BY <2>1 DEF WriteValue, Kept
  <2>. QED
    BY <2>2, <2>3, <2>4, <2>5 DEF LastOf, q, s
<1>. HIDE DEF items
<1>5. CASE Elements(c)[t].many
  BY <1>1, <1>5 DEF Expected, items
<1>6. CASE ~Elements(c)[t].many /\ ~Header(c).choice
  <2>1. t \in Single(c) /\ (HasElement(c, o, t) <=> t \in o.bits)
    BY <1>6 DEF Single, HasElement
  <2>2. LastOf(p) = p
    <3>1. CASE HasElement(c, o, t)
      BY <3>1, <2>1, <1>2, <1>3, <1>4, <1>6 DEF SinglesOk
    <3>2. CASE ~HasElement(c, o, t)
      BY <3>2, <1>2
    <3>. QED
      BY <3>1, <3>2
  <2>. QED
    BY <1>1, <1>6, <2>2 DEF Expected, items
<1>7. CASE Header(c).choice
  <2>. DEFINE last == LastOf(Tagged(items, Reads(c)))
  <2>1. ~Elements(c)[t].many /\ (HasElement(c, o, t) <=> o.kind = t) /\ t # "unknown"
        /\ o.kind \in Tags(c) \cup {"unknown"}
    BY <1>3, <1>7, Tables, TablesSimple DEF HasElement, Tags, ObjectType
  <2>2. Tagged(items, Reads(c)) = IF o.kind = "unknown" THEN <<>> ELSE Rounded(o.elem[o.kind])
    BY <1>7, WrittenItems DEF items
  <2>3. Expected(c, items, t) = IF last # <<>> /\ last[1].tag = t THEN last ELSE <<>>
    BY <1>7, <2>1 DEF Expected
  <2>. HIDE DEF last
  <2>4. CASE o.kind = "unknown"
    <3>1. last = <<>>
      BY <2>2, <2>4, <1>2 DEF last
    <3>. QED
      BY <3>1, <2>1, <2>3, <2>4, <1>2 DEF items
  <2>5. CASE o.kind # "unknown"
    <3>1. o.kind \in Tags(c) /\ Len(o.elem[o.kind]) = 1
      BY <1>3, <1>7, <2>1, <2>5 DEF ChoiceOk
    <3>2. last = Rounded(o.elem[o.kind]) /\ last # <<>> /\ last[1].tag = o.kind
      BY <2>2, <2>5, <3>1, <1>4 DEF last
    <3>. QED
      BY <3>2, <2>1, <2>3, <1>2 DEF items
  <2>. QED
    BY <2>4, <2>5
<1>. QED
  BY <1>5, <1>6, <1>7

LEMMA AttributesAgain ==
    ASSUME NEW c \in ClassNames, NEW a \in AttrType(c)
    PROVE  LET w == [b \in DOMAIN a |-> WriteAttribute(Header(c).attributes[b], a[b])]
               r == ReadAttributes(c, w)
           IN  /\ r \in AttrType(c) /\ DOMAIN r = DOMAIN a
               /\ \A b \in DOMAIN r : r[b] = IF Header(c).attributes[b] = "bool" THEN "false"
                                             ELSE WriteAttribute("", a[b])
<1>. DEFINE w == [b \in DOMAIN a |-> WriteAttribute(Header(c).attributes[b], a[b])]
            r == ReadAttributes(c, w)
            v(b) == IF Header(c).attributes[b] = "bool" THEN "false" ELSE WriteAttribute("", a[b])
<1>1. DOMAIN a \subseteq DOMAIN Header(c).attributes /\ \A b \in DOMAIN a : a[b] \in Vals
  BY DEF AttrType
<1>2. ASSUME NEW b \in DOMAIN a
      PROVE  ReadAttribute(Header(c).attributes[b], w[b]) = v(b) /\ v(b) \in Vals
  <2>1. w[b] = WriteAttribute(Header(c).attributes[b], a[b]) /\ a[b] \in Vals
    BY <1>1
  <2>. HIDE DEF w
  <2>2. CASE Header(c).attributes[b] = "bool"
    BY <2>1, <2>2 DEF ReadAttribute, WriteAttribute, Vals
  <2>3. CASE Header(c).attributes[b] # "bool"
    BY <2>1, <2>3 DEF ReadAttribute, WriteAttribute, Vals
  <2>. QED
    BY <2>2, <2>3
<1>3. r = [b \in DOMAIN a |-> v(b)]
  <2>1. DOMAIN w \cap DOMAIN Header(c).attributes = DOMAIN a
    BY <1>1
  <2>. HIDE DEF w, v
  <2>. QED
    BY <2>1, <1>2 DEF ReadAttributes
<1>4. r \in [DOMAIN a -> Vals] /\ DOMAIN r = DOMAIN a /\ \A b \in DOMAIN a : r[b] = v(b)
  <2>. HIDE DEF r, v
  <2>. QED
    BY <1>2, <1>3
<1>. HIDE DEF r
<1>5. r \in AttrType(c)
  BY <1>1, <1>4 DEF AttrType
<1>. QED
  BY <1>4, <1>5 DEF r

-----------------------------------------------------------------------------
(* Who owns which node *)

Slots(c, o, t) == 1 .. Len(o.elem[t])
Owned(c, o) == Ids(c, o, Deletes(c))
OwnedApart(c, o) == \A t, u \in Deletes(c) : \A i \in Slots(c, o, t), j \in Slots(c, o, u) :
    o.elem[t][i].id = o.elem[u][j].id => t = u /\ i = j
OwnedBelow(c, o, n) == \A t \in Deletes(c) : \A i \in Slots(c, o, t) : o.elem[t][i].id \in 1 .. n - 1
Elems(c) == [Tags(c) -> Seq(Kept(c))]

LEMMA IdsAre ==
    ASSUME NEW c \in ClassNames, NEW o, o.elem \in Elems(c), NEW tags, NEW k
    PROVE  k \in Ids(c, o, tags) <=>
              \E t \in tags \cap Deletes(c) : \E i \in Slots(c, o, t) : o.elem[t][i].id = k
<1>1. \A t \in Deletes(c) : o.elem[t] \in Seq(Kept(c))
  BY Tables DEF Elems
<1>2. \A t \in Deletes(c) : DOMAIN o.elem[t] = Slots(c, o, t)
  BY <1>1 DEF Slots
<1>3. \A t \in Deletes(c) : {x.id : x \in Range(o.elem[t])} = {o.elem[t][i].id : i \in Slots(c, o, t)}
  BY <1>2 DEF Range
<1>. QED
  BY <1>3 DEF Ids

LEMMA IdsOf ==
    \A c \in ClassNames : \A o : o.elem \in Elems(c) => \A tags, k :
        k \in Ids(c, o, tags) <=>
            \E t \in tags \cap Deletes(c) : \E i \in Slots(c, o, t) : o.elem[t][i].id = k
BY IdsAre

\* the node a member takes with the elements s: y's or none
MadeOf(c, y, s) == IF y.tag \in Deletes(c) /\ s # <<>> THEN {y.id} ELSE {}

\* A single element, or none, takes the place of what a member had.
LEMMA ReplaceOwned ==
    ASSUME NEW c \in ClassNames, NEW o, NEW p, NEW q, NEW y \in Kept(c), y.id # 0,
           q = <<>> \/ q = <<y>>,
           o.elem \in Elems(c), p.elem \in Elems(c),
           \A t \in Tags(c) : p.elem[t] = IF t = y.tag THEN q ELSE o.elem[t],
           OwnedApart(c, o), OwnedBelow(c, o, y.id)
    PROVE  /\ Owned(c, p) = (Owned(c, o) \ Ids(c, o, {y.tag}))
                  \cup MadeOf(c, y, q)
           /\ Ids(c, o, {y.tag}) \subseteq Owned(c, o)
           /\ OwnedApart(c, p) /\ OwnedBelow(c, p, y.id + 1)
<1>. DEFINE u == y.tag
            n == y.id
<1>0. /\ y.id = n /\ y.tag = u /\ u \in Tags(c) /\ n \in Nat \ {0} /\ OwnedBelow(c, o, n) /\ OwnedApart(c, o)
      /\ o.elem \in Elems(c) /\ p.elem \in Elems(c)
      /\ \A t \in Tags(c) : p.elem[t] = IF t = u THEN q ELSE o.elem[t]
  BY DEF Kept
<1>. HIDE DEF u, n
<1>1. q \in Seq(Kept(c)) /\ (q # <<>> => Len(q) = 1 /\ q[1] = y) /\ (q = <<>> => Len(q) = 0)
  <2>1. CASE q = <<>>
    BY <2>1
  <2>2. CASE q = <<y>>
    BY <2>2
  <2>. QED
    BY <2>1, <2>2
<1>3. Deletes(c) \subseteq Tags(c)
  BY Tables
<1>4. \A t \in Deletes(c) \ {u} : p.elem[t] = o.elem[t] /\ Slots(c, p, t) = Slots(c, o, t)
  BY <1>0, <1>3 DEF Slots
<1>5. u \in Deletes(c) => p.elem[u] = q /\ \A i \in Slots(c, p, u) : i = 1 /\ q[i] = y /\ q # <<>>
  <2>. SUFFICES ASSUME u \in Deletes(c)
                PROVE  p.elem[u] = q /\ \A i \in Slots(c, p, u) : i = 1 /\ q[i] = y /\ q # <<>>
    OBVIOUS
  <2>1. p.elem[u] = q
    BY <1>0, <1>3
  <2>. QED
    BY <2>1, <1>1 DEF Slots
<1>6. u \in Deletes(c) /\ q # <<>> => 1 \in Slots(c, p, u)
  BY <1>1, <1>5 DEF Slots
<1>7. OwnedBelow(c, p, n + 1)
  <2>. SUFFICES ASSUME NEW t \in Deletes(c), NEW i \in Slots(c, p, t)
                PROVE  p.elem[t][i].id \in 1 .. n
    BY <1>0 DEF OwnedBelow
  <2>1. CASE t = u
    BY <2>1, <1>0, <1>5
  <2>2. CASE t # u
    <3>1. p.elem[t][i].id \in 1 .. n - 1
      BY <2>2, <1>0, <1>4 DEF OwnedBelow
    <3>. QED
      BY <3>1, <1>0
  <2>. QED
    BY <2>1, <2>2
<1>8. OwnedApart(c, p)
  <2>. SUFFICES ASSUME NEW t \in Deletes(c), NEW v \in Deletes(c), NEW i \in Slots(c, p, t),
                       NEW j \in Slots(c, p, v), p.elem[t][i].id = p.elem[v][j].id
                PROVE  t = v /\ i = j
    BY DEF OwnedApart
  <2>1. CASE t = u /\ v = u
    BY <2>1, <1>0, <1>5
  <2>2. CASE t # u /\ v # u
    BY <2>2, <1>0, <1>4 DEF OwnedApart
  <2>3. CASE t = u /\ v # u
    BY <2>3, <1>0, <1>4, <1>5 DEF OwnedBelow
  <2>4. CASE t # u /\ v = u
    BY <2>4, <1>0, <1>4, <1>5 DEF OwnedBelow
  <2>. QED
    BY <2>1, <2>2, <2>3, <2>4
<1>9. \A k : k \in Ids(c, o, {u}) => k \in Owned(c, o)
  BY <1>0, IdsAre DEF Owned
<1>10. ASSUME NEW k PROVE k \in Owned(c, p) <=>
           \/ k \in Owned(c, o) /\ k \notin Ids(c, o, {u})
           \/ u \in Deletes(c) /\ q # <<>> /\ k = n
  <2>1. k \in Owned(c, p) <=> \E t \in Deletes(c) : \E i \in Slots(c, p, t) : p.elem[t][i].id = k
    <3>1. p.elem \in Elems(c) /\ Deletes(c) \cap Deletes(c) = Deletes(c)
      OBVIOUS
    <3>. QED
      BY <1>0, <3>1, IdsOf DEF Owned
  <2>2. k \in Owned(c, o) <=> \E t \in Deletes(c) : \E i \in Slots(c, o, t) : o.elem[t][i].id = k
    BY <1>0, IdsAre DEF Owned
  <2>3. k \in Ids(c, o, {u}) <=> u \in Deletes(c) /\ \E i \in Slots(c, o, u) : o.elem[u][i].id = k
    BY IdsAre
  <2>4. (\E t \in Deletes(c) \ {u} : \E i \in Slots(c, o, t) : o.elem[t][i].id = k)
           <=> k \in Owned(c, o) /\ k \notin Ids(c, o, {u})
    BY <1>0, <2>2, <2>3 DEF OwnedApart
  <2>5. k \in Owned(c, p) <=>
           \/ \E t \in Deletes(c) \ {u} : \E i \in Slots(c, o, t) : o.elem[t][i].id = k
           \/ u \in Deletes(c) /\ \E i \in Slots(c, p, u) : p.elem[u][i].id = k
    BY <2>1, <1>4
  <2>6. u \in Deletes(c) => ((\E i \in Slots(c, p, u) : p.elem[u][i].id = k) <=> q # <<>> /\ k = n)
    BY <1>0, <1>5, <1>6
  <2>. QED
    BY <2>4, <2>5, <2>6
<1>11. Owned(c, p) = (Owned(c, o) \ Ids(c, o, {u}))
           \cup MadeOf(c, y, q)
  BY <1>0, <1>10 DEF MadeOf
<1>. QED
  BY <1>7, <1>8, <1>9, <1>11 DEF u, n

MadeBy(c, y) == IF y.tag \in Deletes(c) THEN {y.id} ELSE {}

\* The next element of a list.
LEMMA AppendOwned ==
    ASSUME NEW c \in ClassNames, NEW o, NEW p, NEW n \in Nat \ {0}, NEW y \in Kept(c), y.id = n,
           o.elem \in Elems(c), p.elem \in Elems(c),
           \A t \in Tags(c) : p.elem[t] = IF t = y.tag THEN Append(o.elem[t], y) ELSE o.elem[t],
           OwnedApart(c, o), OwnedBelow(c, o, n)
    PROVE  /\ Owned(c, p) = Owned(c, o) \cup MadeBy(c, y)
           /\ OwnedApart(c, p) /\ OwnedBelow(c, p, n + 1)
<1>. DEFINE u == y.tag
            m == Len(o.elem[u]) + 1
<1>1. Deletes(c) \subseteq Tags(c) /\ u \in Tags(c)
  BY Tables DEF Kept
<1>2. \A t \in Deletes(c) \ {u} : p.elem[t] = o.elem[t] /\ Slots(c, p, t) = Slots(c, o, t)
  BY <1>1 DEF Slots
<1>3. /\ m \in Nat /\ Slots(c, p, u) = Slots(c, o, u) \cup {m} /\ p.elem[u][m] = y
      /\ \A i \in Slots(c, o, u) : i # m /\ p.elem[u][i] = o.elem[u][i]
  <2>. DEFINE s == o.elem[u]
              q == Append(s, y)
  <2>1. s \in Seq(Kept(c)) /\ p.elem[u] = q
    BY <1>1 DEF Elems
  <2>2. /\ Len(s) \in Nat /\ Len(q) = Len(s) + 1 /\ q[Len(s) + 1] = y
        /\ \A i \in 1 .. Len(s) : q[i] = s[i]
    BY <2>1
  <2>. HIDE DEF s, q
  <2>3. 1 .. Len(q) = 1 .. Len(s) \cup {Len(s) + 1} /\ \A i \in 1 .. Len(s) : i # Len(s) + 1
    BY <2>2
  <2>. QED
    BY <2>1, <2>2, <2>3 DEF Slots, s
<1>. HIDE DEF u, m
<1>4. OwnedBelow(c, p, n + 1)
  <2>. SUFFICES ASSUME NEW t \in Deletes(c), NEW i \in Slots(c, p, t)
                PROVE  p.elem[t][i].id \in 1 .. n
    BY DEF OwnedBelow
  <2>. QED
    BY <1>2, <1>3 DEF OwnedBelow
<1>5. OwnedApart(c, p)
  <2>. SUFFICES ASSUME NEW t \in Deletes(c), NEW v \in Deletes(c), NEW i \in Slots(c, p, t),
                       NEW j \in Slots(c, p, v), p.elem[t][i].id = p.elem[v][j].id
                PROVE  t = v /\ i = j
    BY DEF OwnedApart
  <2>. DEFINE IsNew(s, k) == s = u /\ k = m
  <2>0. \A s \in Deletes(c) : \A k \in Slots(c, p, s) :
            IsNew(s, k) \/ (k \in Slots(c, o, s) /\ p.elem[s][k] = o.elem[s][k])
    BY <1>2, <1>3
  <2>1. CASE IsNew(t, i) /\ IsNew(v, j)
    BY <2>1
  <2>2. CASE ~IsNew(t, i) /\ ~IsNew(v, j)
    <3>. HIDE DEF IsNew
    <3>. QED
      BY <2>0, <2>2 DEF OwnedApart
  <2>3. CASE IsNew(t, i) /\ ~IsNew(v, j)
    <3>1. p.elem[v][j].id \in 1 .. n - 1
      BY <2>0, <2>3 DEF OwnedBelow
    <3>. QED
      BY <3>1, <2>3, <1>3
  <2>4. CASE ~IsNew(t, i) /\ IsNew(v, j)
    <3>1. p.elem[t][i].id \in 1 .. n - 1
      BY <2>0, <2>4 DEF OwnedBelow
    <3>. QED
      BY <3>1, <2>4, <1>3
  <2>. QED
    BY <2>1, <2>2, <2>3, <2>4
<1>6. ASSUME NEW k PROVE k \in Owned(c, p) <=> k \in Owned(c, o) \/ (u \in Deletes(c) /\ k = n)
  <2>1. k \in Owned(c, p) <=> \E t \in Deletes(c) : \E i \in Slots(c, p, t) : p.elem[t][i].id = k
    BY IdsOf DEF Owned
  <2>2. k \in Owned(c, o) <=> \E t \in Deletes(c) : \E i \in Slots(c, o, t) : o.elem[t][i].id = k
    BY IdsOf DEF Owned
  <2>3. (\E t \in Deletes(c) : \E i \in Slots(c, p, t) : p.elem[t][i].id = k) <=>
           \/ \E t \in Deletes(c) : \E i \in Slots(c, o, t) : o.elem[t][i].id = k
           \/ u \in Deletes(c) /\ k = n
    BY <1>2, <1>3
  <2>. QED
    BY <2>1, <2>2, <2>3
<1>7. Owned(c, p) = Owned(c, o) \cup MadeBy(c, y)
  BY <1>6 DEF MadeBy, u
<1>. QED
  BY <1>4, <1>5, <1>7

\* The element of a choice takes the place of all there was.
\* p is the choice o after y was set: it holds y and of what is deleted nothing else.
ChosenOver(c, o, p, y) ==
    \A t \in Tags(c) : p.elem[t] =
        IF t = y.tag THEN <<y>> ELSE IF t \in Deletes(c) THEN <<>> ELSE o.elem[t]

LEMMA ChoiceOwned ==
    ASSUME NEW c \in ClassNames, NEW o, NEW p, NEW y \in Kept(c), y.id \in Nat \ {0},
           o.elem \in Elems(c), p.elem \in Elems(c), ChosenOver(c, o, p, y)
    PROVE  /\ Owned(c, p) = MadeBy(c, y)
           /\ OwnedApart(c, p) /\ OwnedBelow(c, p, y.id + 1)
<1>1. Deletes(c) \subseteq Tags(c)
  BY Tables
<1>0. Len(<<y>>) = 1 /\ <<y>>[1] = y /\ Len(<<>>) = 0
  OBVIOUS
<1>8. \A t \in Deletes(c) : p.elem[t] = IF t = y.tag THEN <<y>> ELSE <<>>
  BY <1>1 DEF ChosenOver
<1>2. \A t \in Deletes(c) : \A i \in Slots(c, p, t) : t = y.tag /\ i = 1 /\ p.elem[t][i] = y
  <2>. SUFFICES ASSUME NEW t \in Deletes(c), NEW i \in Slots(c, p, t)
                PROVE  t = y.tag /\ i = 1 /\ p.elem[t][i] = y
    OBVIOUS
  <2>1. CASE t = y.tag
    <3>1. p.elem[t] = <<y>>
      BY <2>1, <1>8
    <3>. QED
      BY <2>1, <3>1, <1>0 DEF Slots
  <2>2. CASE t # y.tag
    <3>1. p.elem[t] = <<>>
      BY <2>2, <1>8
    <3>. QED
      BY <3>1, <1>0 DEF Slots
  <2>. QED
    BY <2>1, <2>2
<1>3. y.tag \in Deletes(c) => 1 \in Slots(c, p, y.tag) /\ p.elem[y.tag][1] = y
  <2>. SUFFICES ASSUME y.tag \in Deletes(c)
                PROVE  1 \in Slots(c, p, y.tag) /\ p.elem[y.tag][1] = y
    OBVIOUS
  <2>. DEFINE s == p.elem[y.tag]
  <2>1. s = <<y>>
    BY <1>8
  <2>. HIDE DEF s
  <2>2. Len(s) = 1 /\ s[1] = y
    BY <2>1, <1>0
  <2>. QED
    BY <2>2 DEF Slots, s
<1>4. OwnedBelow(c, p, y.id + 1)
  BY <1>2 DEF OwnedBelow
<1>5. OwnedApart(c, p)
  BY <1>2 DEF OwnedApart
<1>6. ASSUME NEW k PROVE k \in Owned(c, p) <=> y.tag \in Deletes(c) /\ k = y.id
  <2>1. k \in Owned(c, p) <=> \E t \in Deletes(c) : \E i \in Slots(c, p, t) : p.elem[t][i].id = k
    BY IdsOf DEF Owned
  <2>. QED
    BY <2>1, <1>2, <1>3
<1>7. Owned(c, p) = MadeBy(c, y)
  BY <1>6 DEF MadeBy
<1>. QED
  BY <1>4, <1>5, <1>7

LEMMA ElemsOk == ASSUME NEW c, NEW o, ObjectOk(c, o) PROVE o.elem \in Elems(c)
BY DEF ObjectOk, ObjectType, Elems

\* A setter: what it deletes is what is not owned any more.
LEMMA SetOwned ==
    ASSUME NEW c \in ClassNames, NEW o, ObjectOk(c, o), NEW y \in Kept(c), y.id # 0,
           y.tag \in Single(c), OwnedApart(c, o), OwnedBelow(c, o, y.id)
    PROVE  /\ ObjectOk(c, Set(c, o, y))
           /\ Replaced(c, o, y.tag) \subseteq Owned(c, o)
           /\ Owned(c, Set(c, o, y)) = (Owned(c, o) \ Replaced(c, o, y.tag)) \cup MadeBy(c, y)
           /\ OwnedApart(c, Set(c, o, y)) /\ OwnedBelow(c, Set(c, o, y), y.id + 1)
<1>. DEFINE p == Set(c, o, y)
<1>0. o.elem \in Elems(c) /\ y.tag \in Tags(c) /\ y.id \in Nat \ {0}
  BY ElemsOk DEF Kept
<1>1. CASE Header(c).choice
  <2>. DEFINE q == SetChoice(c, o, y)
  <2>1. /\ ObjectOk(c, q)
        /\ \A t \in Tags(c) : q.elem[t] =
              IF t = y.tag THEN <<y>> ELSE IF t \in Deletes(c) THEN <<>> ELSE o.elem[t]
    BY <1>1, SetChoiceOk
  <2>2. p = q
    BY <1>1 DEF Set
  <2>3. Replaced(c, o, y.tag) = Owned(c, o)
    BY <1>1 DEF Replaced, Owned
  <2>. HIDE DEF p, q
  <2>4. q.elem \in Elems(c)
    BY <2>1, ElemsOk
  <2>5. Owned(c, q) = MadeBy(c, y) /\ OwnedApart(c, q) /\ OwnedBelow(c, q, y.id + 1)
    <3>1. ChosenOver(c, o, q, y)
      BY <2>1 DEF ChosenOver
    <3>. QED
      BY <1>0, <2>4, <3>1, ChoiceOwned
  <2>6. (Owned(c, o) \ Owned(c, o)) \cup MadeBy(c, y) = MadeBy(c, y)
    OBVIOUS
  <2>. QED
    BY <2>1, <2>2, <2>3, <2>5, <2>6 DEF p
<1>2. CASE ~Header(c).choice
  <2>. DEFINE q == SetOne(o, y)
              s == <<y>>
  <2>1. ObjectOk(c, q) /\ q.elem = [o.elem EXCEPT ![y.tag] = s]
    BY <1>2, SetOneOk
  <2>2. p = q
    BY <1>2 DEF Set
  <2>3. Replaced(c, o, y.tag) = Ids(c, o, {y.tag})
    BY <1>2 DEF Replaced
  <2>4. s # <<>> /\ s = <<y>>
    OBVIOUS
  <2>. HIDE DEF p, q, s
  <2>5. q.elem \in Elems(c)
    BY <2>1, ElemsOk
  <2>6. \A t \in Tags(c) : q.elem[t] = IF t = y.tag THEN s ELSE o.elem[t]
    BY <1>0, <2>1 DEF Elems
  <2>7. /\ Owned(c, q) = (Owned(c, o) \ Ids(c, o, {y.tag}))
              \cup MadeOf(c, y, s)
        /\ Ids(c, o, {y.tag}) \subseteq Owned(c, o)
        /\ OwnedApart(c, q) /\ OwnedBelow(c, q, y.id + 1)
    <3>1. ASSUME NEW w, w.elem \in Elems(c),
                 \A t \in Tags(c) : w.elem[t] = IF t = y.tag THEN s ELSE o.elem[t]
          PROVE  /\ Owned(c, w) = (Owned(c, o) \ Ids(c, o, {y.tag}))
                       \cup MadeOf(c, y, s)
                 /\ Ids(c, o, {y.tag}) \subseteq Owned(c, o)
                 /\ OwnedApart(c, w) /\ OwnedBelow(c, w, y.id + 1)
      <4>1. OwnedBelow(c, o, y.id) /\ y.tag \in Tags(c) /\ o.elem \in Elems(c) /\ y \in Kept(c)
        BY <1>0
      <4>2. (s = <<>> \/ s = <<y>>) /\ y.id # 0
        BY <2>4
      <4>. QED
        BY <4>1, <4>2, <3>1, ReplaceOwned
    <3>. QED
      BY <2>5, <2>6, <3>1
  <2>8. MadeOf(c, y, s) = MadeBy(c, y)
    BY <2>4 DEF MadeBy, MadeOf
  <2>. QED
    BY <2>1, <2>2, <2>3, <2>7, <2>8 DEF p
<1>. QED
  BY <1>1, <1>2

\* The setter of a list keeps the object's type, whatever list it is given.
LEMMA SetListOk ==
    ASSUME NEW c \in ClassNames, NEW o, ObjectOk(c, o), NEW u \in Tags(c) \ Single(c),
           NEW s \in Seq(Kept(c)), \A i \in 1 .. Len(s) : s[i].tag = u
    PROVE  /\ ObjectOk(c, SetList(o, u, s)) /\ SetList(o, u, s).elem \in Elems(c)
           /\ \A t \in Tags(c) : SetList(o, u, s).elem[t] = IF t = u THEN s ELSE o.elem[t]
<1>. DEFINE p == SetList(o, u, s)
            e == [o.elem EXCEPT ![u] = s]
<1>1. /\ o \in ObjectType(c) /\ MembersOk(c, o) /\ SinglesOk(c, o) /\ ChoiceOk(c, o)
      /\ o.elem \in Elems(c) /\ ~Header(c).choice
  BY ElemsOk, Tables DEF ObjectOk
<1>2. p = [o EXCEPT !.elem = e]
  BY <1>1 DEF SetList, ObjectType
<1>3. e \in Elems(c) /\ \A t \in Tags(c) : e[t] = IF t = u THEN s ELSE o.elem[t]
  BY <1>1 DEF Elems
<1>. HIDE DEF e, p
<1>4. p.elem = e /\ p.bits = o.bits /\ p.kind = o.kind /\ p \in ObjectType(c)
  BY <1>1, <1>2, <1>3 DEF ObjectType, Elems
<1>5. MembersOk(c, p)
  BY <1>1, <1>3, <1>4 DEF MembersOk
<1>6. SinglesOk(c, p) /\ ChoiceOk(c, p)
  <2>1. \A t \in Single(c) : t \in Tags(c) /\ t # u
    BY DEF Single
  <2>. QED
    BY <2>1, <1>1, <1>3, <1>4 DEF SinglesOk, ChoiceOk
<1>. QED
  BY <1>3, <1>4, <1>5, <1>6 DEF ObjectOk, p

\* It loses the nodes of the old list that are not in the new one, and no other.
LEMMA SetListOwned ==
    ASSUME NEW c \in ClassNames, NEW o, ObjectOk(c, o), NEW y \in Kept(c), y.id # 0,
           y.tag \notin Single(c), OwnedApart(c, o), OwnedBelow(c, o, y.id),
           NEW s \in NewLists(o.elem[y.tag], y)
    PROVE  LET p == SetList(o, y.tag, s)
               gone == Ids(c, o, {y.tag}) \ Ids(c, p, {y.tag})
           IN  /\ ObjectOk(c, p) /\ gone \subseteq Owned(c, o)
               /\ Owned(c, p) = (Owned(c, o) \ gone)
                                   \cup (IF s = <<>> THEN {} ELSE MadeBy(c, y))
               /\ OwnedApart(c, p) /\ OwnedBelow(c, p, y.id + 1)
<1>. DEFINE u == y.tag
            p == SetList(o, u, s)
            gone == Ids(c, o, {u}) \ Ids(c, p, {u})
            made == IF s = <<>> THEN {} ELSE MadeBy(c, y)
<1>1. /\ u \in Tags(c) \ Single(c) /\ Elements(c)[u].many /\ y.id \in Nat \ {0}
      /\ o.elem \in Elems(c) /\ o.elem[u] \in Seq(Kept(c)) /\ MembersOk(c, o)
  BY ElemsOk DEF Kept, Single, Elems, ObjectOk
<1>2. CASE s = Append(o.elem[u], y)
  <2>1. ObjectOk(c, p) /\ p.elem \in Elems(c)
        /\ \A t \in Tags(c) : p.elem[t] = IF t = u THEN s ELSE o.elem[t]
    <3>1. s \in Seq(Kept(c)) /\ \A i \in 1 .. Len(s) : s[i].tag = u
      <4>1. /\ s \in Seq(Kept(c)) /\ Len(s) = Len(o.elem[u]) + 1 /\ Len(o.elem[u]) \in Nat
            /\ \A i \in 1 .. Len(s) : s[i] = IF i = Len(s) THEN y ELSE o.elem[u][i]
        BY <1>1, <1>2
      <4>. QED
        BY <4>1, <1>1 DEF MembersOk
    <3>. QED
      BY <3>1, <1>1, SetListOk
  <2>. HIDE DEF p
  <2>2. /\ Owned(c, p) = Owned(c, o) \cup MadeBy(c, y)
        /\ OwnedApart(c, p) /\ OwnedBelow(c, p, y.id + 1)
    <3>. DEFINE n == y.id
    <3>1. n \in Nat \ {0} /\ OwnedBelow(c, o, n)
      BY <1>1
    <3>2. \A t \in Tags(c) : p.elem[t] = IF t = y.tag THEN Append(o.elem[t], y) ELSE o.elem[t]
      BY <2>1, <1>2
    <3>. QED
      BY <3>1, <3>2, <2>1, <1>1, AppendOwned
  <2>3. gone = {}
    <3>. SUFFICES ASSUME NEW k \in Ids(c, o, {u}) PROVE k \in Ids(c, p, {u})
      OBVIOUS
    <3>1. u \in Deletes(c) /\ \E i \in Slots(c, o, u) : o.elem[u][i].id = k
      BY <1>1, IdsAre
    <3>2. PICK i \in Slots(c, o, u) : o.elem[u][i].id = k
      BY <3>1
    <3>3. i \in Slots(c, p, u) /\ p.elem[u][i] = o.elem[u][i]
      <4>1. p.elem[u] = Append(o.elem[u], y)
        BY <2>1, <1>1, <1>2
      <4>. QED
        BY <4>1, <1>1 DEF Slots
    <3>. QED
      BY <3>1, <3>2, <3>3, <2>1, IdsOf
  <2>4. made = MadeBy(c, y)
    <3>1. s # <<>>
      BY <1>1, <1>2
    <3>. QED
      BY <3>1
  <2>. QED
    BY <2>1, <2>2, <2>3, <2>4 DEF p
<1>3. CASE s = <<>> \/ s = <<y>>
  <2>1. ObjectOk(c, p) /\ p.elem \in Elems(c)
        /\ \A t \in Tags(c) : p.elem[t] = IF t = u THEN s ELSE o.elem[t]
    <3>1. s \in Seq(Kept(c)) /\ \A i \in 1 .. Len(s) : s[i].tag = u
      <4>1. CASE s = <<>>
        BY <4>1
      <4>2. CASE s = <<y>>
        BY <4>2
      <4>. QED
        BY <4>1, <4>2, <1>3
    <3>. QED
      BY <3>1, <1>1, SetListOk
  <2>. HIDE DEF p
  <2>2. /\ Owned(c, p) = (Owned(c, o) \ Ids(c, o, {u})) \cup MadeOf(c, y, s)
        /\ Ids(c, o, {u}) \subseteq Owned(c, o)
        /\ OwnedApart(c, p) /\ OwnedBelow(c, p, y.id + 1)
    BY <2>1, <1>1, <1>3, ReplaceOwned
  <2>3. gone = Ids(c, o, {u})
    <3>. SUFFICES ASSUME NEW k \in Ids(c, o, {u}), k \in Ids(c, p, {u}) PROVE FALSE
      OBVIOUS
    <3>1. u \in Deletes(c) /\ \E i \in Slots(c, o, u) : o.elem[u][i].id = k
      BY <1>1, IdsAre
    <3>2. k \in 1 .. y.id - 1
      BY <3>1 DEF OwnedBelow
    <3>3. PICK i \in Slots(c, p, u) : p.elem[u][i].id = k
      BY <3>1, <2>1, IdsAre
    <3>4. p.elem[u] = s /\ i \in 1 .. Len(s)
      BY <2>1, <3>3, <1>1 DEF Slots
    <3>5. s[i] = y
      <4>1. CASE s = <<>>
        BY <4>1, <3>4
      <4>2. CASE s = <<y>>
        BY <4>2, <3>4
      <4>. QED
        BY <4>1, <4>2, <1>3
    <3>. QED
      BY <3>2, <3>3, <3>4, <3>5, <1>1
  <2>4. made = MadeOf(c, y, s)
    BY DEF MadeBy, MadeOf
  <2>. QED
    BY <2>1, <2>2, <2>3, <2>4 DEF p
<1>. QED
  BY <1>2, <1>3 DEF NewLists

LEMMA ClearOwned ==
    ASSUME NEW c \in ClassNames, NEW o, ObjectOk(c, o), NEW n \in Nat \ {0},
           NEW u \in Single(c), ~Header(c).choice, OwnedApart(c, o), OwnedBelow(c, o, n)
    PROVE  /\ ObjectOk(c, ClearOne(o, u))
           /\ Replaced(c, o, u) \subseteq Owned(c, o)
           /\ Owned(c, ClearOne(o, u)) = Owned(c, o) \ Replaced(c, o, u)
           /\ OwnedApart(c, ClearOne(o, u)) /\ OwnedBelow(c, ClearOne(o, u), n + 1)
<1>. DEFINE p == ClearOne(o, u)
            y == [tag |-> u, id |-> n, val |-> "exact"]
            q == <<>>
<1>0. /\ o \in ObjectType(c) /\ MembersOk(c, o) /\ SinglesOk(c, o) /\ o.elem \in Elems(c)
      /\ u \in Tags(c) /\ y \in Kept(c) /\ y.id = n /\ y.tag = u /\ q \in Seq(Kept(c)) /\ Len(q) = 0
  BY ElemsOk DEF ObjectOk, Single, Kept, Vals
<1>. HIDE DEF y
<1>1. /\ p = [o EXCEPT !.bits = o.bits \ {u}, !.elem = [o.elem EXCEPT ![u] = q]]
      /\ [o.elem EXCEPT ![u] = q] \in Elems(c)
  <2>1. [o.elem EXCEPT ![u] = q] \in Elems(c)
    BY <1>0 DEF Elems
  <2>2. p = [o EXCEPT !.bits = o.bits \ {u}, !.elem = [o.elem EXCEPT ![u] = q]]
    BY <1>0 DEF ClearOne, ObjectType
  <2>. QED
    BY <2>1, <2>2
<1>2. p.elem = [o.elem EXCEPT ![u] = q] /\ p.bits = o.bits \ {u} /\ p \in ObjectType(c)
      /\ p.elem \in Elems(c)
  <2>1. o.bits \ {u} \in SUBSET Single(c)
    BY <1>0 DEF ObjectType
  <2>. DEFINE e == [o.elem EXCEPT ![u] = q]
              b == o.bits \ {u}
  <2>2. p = [o EXCEPT !.bits = b, !.elem = e] /\ e \in Elems(c) /\ b \in SUBSET Single(c)
    BY <1>1, <2>1
  <2>. HIDE DEF e, b, p
  <2>3. p.elem = e /\ p.bits = b /\ p \in ObjectType(c)
    BY <1>0, <2>2 DEF ObjectType, Elems
  <2>. QED
    BY <2>2, <2>3 DEF e, b
<1>3. \A t \in Tags(c) : p.elem[t] = IF t = u THEN q ELSE o.elem[t]
  BY <1>0, <1>2 DEF Elems
<1>. HIDE DEF p
<1>4. MembersOk(c, p)
  BY <1>0, <1>3 DEF MembersOk
<1>5. SinglesOk(c, p) /\ ChoiceOk(c, p)
  BY <1>0, <1>2, <1>3 DEF SinglesOk, ChoiceOk, Single
<1>6. Replaced(c, o, u) = Ids(c, o, {u})
  BY DEF Replaced
<1>7. q = <<>>
  OBVIOUS
<1>8. /\ Owned(c, p) = (Owned(c, o) \ Ids(c, o, {u}))
            \cup MadeOf(c, y, q)
      /\ Ids(c, o, {u}) \subseteq Owned(c, o)
      /\ OwnedApart(c, p) /\ OwnedBelow(c, p, n + 1)
  <2>1. ASSUME NEW w, w.elem \in Elems(c),
               \A t \in Tags(c) : w.elem[t] = IF t = y.tag THEN q ELSE o.elem[t]
        PROVE  /\ Owned(c, w) = (Owned(c, o) \ Ids(c, o, {y.tag}))
                     \cup MadeOf(c, y, q)
               /\ Ids(c, o, {y.tag}) \subseteq Owned(c, o)
               /\ OwnedApart(c, w) /\ OwnedBelow(c, w, y.id + 1)
    <3>1. OwnedBelow(c, o, y.id) /\ y.tag \in Tags(c) /\ o.elem \in Elems(c) /\ y \in Kept(c)
          /\ y.id # 0
      BY <1>0
    <3>. QED
      BY <3>1, <1>7, <2>1, ReplaceOwned
  <2>. QED
    BY <1>0, <1>2, <1>3, <2>1
<1>9. Owned(c, p) = Owned(c, o) \ Ids(c, o, {u})
  BY <1>8 DEF MadeOf
<1>. QED
  BY <1>2, <1>4, <1>5, <1>6, <1>8, <1>9 DEF ObjectOk, p

LEMMA ReadOwned ==
    ASSUME NEW c \in ClassNames, NEW o, ObjectOk(c, o), NEW n \in Nat \ {0},
           NEW x \in AnyItem(c), x.id = n, OwnedApart(c, o), OwnedBelow(c, o, n)
    PROVE  LET y == Lowered(x)
               known == y.tag \in Reads(c)
               gone == IF known /\ ~Elements(c)[y.tag].many THEN Replaced(c, o, y.tag) ELSE {}
               r == ReadElement(c, o, x)
           IN  /\ gone \subseteq Owned(c, o)
               /\ Owned(c, r) = (Owned(c, o) \ gone) \cup (IF known THEN MadeBy(c, y) ELSE {})
               /\ OwnedApart(c, r) /\ OwnedBelow(c, r, n + 1)
<1>. DEFINE y == Lowered(x)
            known == y.tag \in Reads(c)
            gone == IF known /\ ~Elements(c)[y.tag].many THEN Replaced(c, o, y.tag) ELSE {}
            r == ReadElement(c, o, x)
            G == /\ gone \subseteq Owned(c, o)
                 /\ Owned(c, r) = (Owned(c, o) \ gone) \cup (IF known THEN MadeBy(c, y) ELSE {})
                 /\ OwnedApart(c, r) /\ OwnedBelow(c, r, n + 1)
<1>1. y.tag = Lower(x.tag) /\ Reads(c) = Tags(c) /\ y.id = n
  BY LoweredItem, Tables
<1>2. known => y \in Kept(c)
  BY <1>1, LoweredItem
<1>3. CASE ~known
  <2>1. r = o /\ gone = {}
    BY <1>3 DEF ReadElement
  <2>2. OwnedBelow(c, o, n + 1)
    BY DEF OwnedBelow
  <2>. HIDE DEF r, gone, known
  <2>3. G
    BY <1>3, <2>1, <2>2
  <2>. QED
    BY <2>3 DEF r, gone, known
<1>4. CASE known /\ Elements(c)[y.tag].many
  <2>1. r = Append1(o, y) /\ gone = {}
    BY <1>4 DEF ReadElement
  <2>2. y \in Kept(c)
    BY <1>2, <1>4
  <2>. HIDE DEF r, gone, known, y
  <2>. DEFINE p == Append1(o, y)
  <2>3. ObjectOk(c, p) /\ p.elem = [o.elem EXCEPT ![y.tag] = Append(o.elem[y.tag], y)]
    BY <1>4, <2>2, AppendOk
  <2>. HIDE DEF p
  <2>4. o.elem \in Elems(c) /\ p.elem \in Elems(c) /\ y.tag \in Tags(c)
    BY <2>2, <2>3, ElemsOk DEF Kept
  <2>5. \A t \in Tags(c) : p.elem[t] = IF t = y.tag THEN Append(o.elem[t], y) ELSE o.elem[t]
    BY <2>3, <2>4 DEF Elems
  <2>6. Owned(c, p) = Owned(c, o) \cup MadeBy(c, y) /\ OwnedApart(c, p) /\ OwnedBelow(c, p, n + 1)
    BY <1>1, <2>2, <2>4, <2>5, AppendOwned
  <2>7. r = p
    BY <2>1 DEF p
  <2>8. G
    BY <1>4, <2>1, <2>6, <2>7
  <2>. QED
    BY <2>8 DEF r, gone, known, y
<1>5. CASE known /\ ~Elements(c)[y.tag].many
  <2>1. r = Set(c, o, y) /\ gone = Replaced(c, o, y.tag)
    BY <1>5 DEF ReadElement
  <2>2. y \in Kept(c) /\ y.tag \in Single(c)
    BY <1>1, <1>2, <1>5 DEF Single
  <2>. HIDE DEF r, gone, known, y
  <2>. DEFINE p == Set(c, o, y)
  <2>3. /\ Replaced(c, o, y.tag) \subseteq Owned(c, o)
        /\ Owned(c, p) = (Owned(c, o) \ Replaced(c, o, y.tag)) \cup MadeBy(c, y)
        /\ OwnedApart(c, p) /\ OwnedBelow(c, p, n + 1)
    BY <1>1, <2>2, SetOwned
  <2>. HIDE DEF p
  <2>4. r = p
    BY <2>1 DEF p
  <2>5. G
    BY <1>5, <2>1, <2>3, <2>4
  <2>. QED
    BY <2>5 DEF r, gone, known, y
<1>. QED
  BY <1>3, <1>4, <1>5

-----------------------------------------------------------------------------
(* The invariant: the object is one of its class, the nodes that exist are the ones it owns,   *)
(* each once and all older than the next, and it shows what was read until a setter is called. *)

SourceType(c) == [attr : Attributes(c), text : BOOLEAN, items : Seq(AnyItem(c))]
SourceOk == /\ class \in ClassNames /\ source \in SourceType(class)
            /\ at \in 1 .. MaxElements + 1 /\ Len(source.items) < at
            /\ phase \in {"read", "edit", "written", "deleted"} /\ edited \in BOOLEAN
Objects == ObjectOk(class, object) /\ ObjectOk(class, again)
Owning == /\ nodes = Owned(class, object) \cup lost /\ domFault = "none"
          /\ lost \cap Owned(class, object) = {} /\ lost \subseteq 1 .. at - 1
          /\ OwnedApart(class, object) /\ OwnedBelow(class, object, at)
Showing == phase \in {"read", "edit"} /\ ~edited => ShowsAll(class, object, source.items)
DomInd == SourceOk /\ Objects /\ Owning /\ Showing /\ RoundTrip

LEMMA AttributesRead ==
    ASSUME NEW c \in ClassNames, NEW a \in Attributes(c)
    PROVE  ReadAttributes(c, a) \in AttrType(c)
<1>. DEFINE H == Header(c).attributes
            D == DOMAIN a \cap DOMAIN H
            r == [b \in D |-> ReadAttribute(H[b], a[b])]
<1>1. \A b \in DOMAIN a : a[b] \in Vals
  <2>1. \A type : Values(type) \subseteq Vals
    BY DEF Values, Vals
  <2>2. CASE a = <<>>
    BY <2>2
  <2>3. CASE a = [b \in {"other"} |-> "exact"]
    BY <2>3 DEF Vals
  <2>4. CASE \E d \in DOMAIN H : \E v \in Values(H[d]) : a = [b \in {d} |-> v]
    <3>1. PICK d \in DOMAIN H : \E v \in Values(H[d]) : a = [b \in {d} |-> v]
      BY <2>4
    <3>2. PICK v \in Values(H[d]) : a = [b \in {d} |-> v]
      BY <3>1
    <3>3. v \in Vals
      BY <2>1
    <3>. QED
      BY <3>2, <3>3
  <2>. HIDE DEF H
  <2>5. \/ a = <<>> \/ a = [b \in {"other"} |-> "exact"]
        \/ \E d \in DOMAIN H : a \in {[b \in {d} |-> v] : v \in Values(H[d])}
    BY DEF Attributes, H
  <2>. QED
    BY <2>2, <2>3, <2>4, <2>5
<1>. HIDE DEF H
<1>2. \A b \in D : ReadAttribute(H[b], a[b]) \in Vals
  BY <1>1 DEF ReadAttribute, Vals
<1>3. r \in [D -> Vals]
  BY <1>2
<1>4. ReadAttributes(c, a) = r
  BY DEF ReadAttributes, H
<1>5. D \subseteq DOMAIN Header(c).attributes
  BY DEF H
<1>. HIDE DEF D, r
<1>. QED
  BY <1>3, <1>4, <1>5 DEF AttrType

LEMMA EmptyOk ==
    ASSUME NEW c \in ClassNames
    PROVE  ObjectOk(c, Empty(c)) /\ Empty(c).elem = [t \in Tags(c) |-> <<>>]
<1>. DEFINE e == Empty(c)
            z == [t \in Tags(c) |-> <<>>]
<1>1. z \in [Tags(c) -> Seq(Kept(c))] /\ {} \in SUBSET Single(c)
      /\ \A t \in Tags(c) : z[t] = <<>> /\ Len(z[t]) = 0
  OBVIOUS
<1>2. <<>> \in AttrType(c)
  <2>1. <<>> \in [{} -> Vals]
    OBVIOUS
  <2>. QED
    BY <2>1 DEF AttrType
<1>3. e = [attr |-> <<>>, text |-> FALSE, bits |-> {}, kind |-> "unknown", elem |-> z]
  BY DEF Empty, Tags
<1>. HIDE DEF z
<1>4. e \in ObjectType(c) /\ e.kind = "unknown" /\ e.elem = z /\ e.bits = {}
  BY <1>1, <1>2, <1>3 DEF ObjectType
<1>. HIDE DEF e
<1>5. MembersOk(c, e) /\ ChoiceOk(c, e) /\ SinglesOk(c, e)
  BY <1>1, <1>4 DEF MembersOk, ChoiceOk, SinglesOk, Single
<1>. QED
  BY <1>4, <1>5 DEF ObjectOk, e, z

LEMMA NothingOwned ==
    ASSUME NEW c \in ClassNames, NEW o, o.elem = [t \in Tags(c) |-> <<>>], NEW n
    PROVE  Owned(c, o) = {} /\ OwnedApart(c, o) /\ OwnedBelow(c, o, n)
<1>1. \A t \in Deletes(c) : o.elem[t] = <<>>
  BY Tables
<1>2. \A t \in Deletes(c) : Slots(c, o, t) = {} /\ Range(o.elem[t]) = {}
  BY <1>1 DEF Slots, Range
<1>3. Owned(c, o) = {}
  BY <1>2 DEF Owned, Ids
<1>. QED
  BY <1>2, <1>3 DEF OwnedApart, OwnedBelow

LEMMA SameMembers ==
    ASSUME NEW c \in ClassNames, NEW o, NEW b \in BOOLEAN, ObjectOk(c, o)
    PROVE  LET p == [o EXCEPT !.text = b]
           IN  /\ ObjectOk(c, p) /\ Owned(c, p) = Owned(c, o)
               /\ OwnedApart(c, o) => OwnedApart(c, p)
               /\ \A n : OwnedBelow(c, o, n) => OwnedBelow(c, p, n)
               /\ \A items : ShowsAll(c, o, items) => ShowsAll(c, p, items)
<1>. DEFINE p == [o EXCEPT !.text = b]
<1>1. o \in ObjectType(c)
  BY DEF ObjectOk
<1>2. p \in ObjectType(c) /\ p.elem = o.elem /\ p.bits = o.bits /\ p.kind = o.kind
  BY <1>1 DEF ObjectType
<1>. HIDE DEF p
<1>3. ObjectOk(c, p)
  BY <1>2 DEF ObjectOk, MembersOk, ChoiceOk, SinglesOk
<1>4. Owned(c, p) = Owned(c, o)
  BY <1>2 DEF Owned, Ids
<1>5. OwnedApart(c, o) => OwnedApart(c, p)
  BY <1>2 DEF OwnedApart, Slots
<1>6. \A n : OwnedBelow(c, o, n) => OwnedBelow(c, p, n)
  BY <1>2 DEF OwnedBelow, Slots
<1>7. \A t \in Tags(c) : Shown(c, p)[t] = Shown(c, o)[t]
  BY <1>2, ShownMember DEF HasElement
<1>. QED
  BY <1>3, <1>4, <1>5, <1>6, <1>7 DEF ShowsAll, p

LEMMA DomIndInit == DomInit => DomInd
<1>. SUFFICES ASSUME DomInit PROVE DomInd
  OBVIOUS
<1>1. /\ class \in ClassNames /\ source \in Sources(class) /\ at = 1 /\ phase = "read"
      /\ object = Begin(class, source) /\ again = Empty(class)
      /\ nodes = {} /\ lost = {} /\ edited = FALSE /\ domFault = "none"
  BY DEF DomInit
<1>2. /\ source \in SourceType(class) /\ source.items = <<>> /\ source.attr \in Attributes(class)
      /\ Len(source.items) = 0
  <2>1. PICK a \in Attributes(class), b \in BOOLEAN : source = [attr |-> a, text |-> b, items |-> <<>>]
    BY <1>1 DEF Sources
  <2>2. <<>> \in Seq(AnyItem(class)) /\ Len(<<>>) = 0
    OBVIOUS
  <2>3. source.items = <<>> /\ source.attr = a
    BY <2>1
  <2>. QED
    BY <2>1, <2>2, <2>3 DEF SourceType
<1>3. ReadAttributes(class, source.attr) \in AttrType(class)
  BY <1>1, <1>2, AttributesRead
<1>4. ObjectOk(class, object) /\ ShowsAll(class, object, source.items)
  BY <1>1, <1>2, <1>3, BeginOk
<1>5. ObjectOk(class, again)
  BY <1>1, EmptyOk
<1>6. object.elem = [t \in Tags(class) |-> <<>>]
  <2>1. Empty(class).elem = [t \in Tags(class) |-> <<>>] /\ Empty(class) \in ObjectType(class)
    BY <1>1, EmptyOk DEF ObjectOk
  <2>2. object = [Empty(class) EXCEPT !.attr = ReadAttributes(class, source.attr)]
    BY <1>1 DEF Begin
  <2>. QED
    BY <2>1, <2>2 DEF ObjectType
<1>7. Owned(class, object) = {} /\ OwnedApart(class, object) /\ OwnedBelow(class, object, at)
  BY <1>1, <1>6, NothingOwned
<1>8. 1 \in 1 .. MaxElements + 1
  BY DomAssumption
<1>. QED
  <2>1. SourceOk
    <3>1. Len(source.items) < at
      BY <1>1, <1>2
    <3>. QED
      BY <3>1, <1>1, <1>2, <1>8 DEF SourceOk
  <2>2. Objects /\ Showing
    BY <1>4, <1>5 DEF Objects, Showing
  <2>3. Owning
    BY <1>1, <1>7 DEF Owning
  <2>4. RoundTrip
    BY <1>1 DEF RoundTrip
  <2>. QED
    BY <2>1, <2>2, <2>3, <2>4 DEF DomInd

\* The nodes an operation deletes and those it loses were owned, so no node is deleted twice.
LEMMA OwningStep ==
    ASSUME Owning, at \in Nat, class \in ClassNames, ObjectOk(class, object),
           NEW p, NEW ids, NEW gone, NEW made,
           Free(ids, made), lost' = lost \cup gone, at' = at + 1, class' = class, object' = p,
           ids \subseteq Owned(class, object), gone \subseteq Owned(class, object),
           ids \cap gone = {}, made \subseteq {at},
           Owned(class, p) = (Owned(class, object) \ (ids \cup gone)) \cup made,
           OwnedApart(class, p), OwnedBelow(class, p, at + 1)
    PROVE  Owning'
<1>1. /\ nodes = Owned(class, object) \cup lost /\ domFault = "none"
      /\ lost \cap Owned(class, object) = {} /\ lost \subseteq 1 .. at - 1
  BY DEF Owning
<1>2. nodes' = (nodes \ ids) \cup made /\ domFault' = "none"
  BY <1>1 DEF Free
<1>3. lost' \subseteq 1 .. at /\ at \notin lost'
  <2>1. ASSUME NEW k \in Owned(class, object) PROVE k \in 1 .. at - 1
    <3>1. PICK t \in Deletes(class) : \E i \in Slots(class, object, t) : object.elem[t][i].id = k
      BY ElemsOk, IdsOf DEF Owned
    <3>. QED
      BY <3>1 DEF Owning, OwnedBelow
  <2>2. \A k \in gone : k \in 1 .. at - 1
    BY <2>1
  <2>3. \A k \in lost' : k \in lost \/ k \in gone
    OBVIOUS
  <2>4. \A k \in lost' : k \in 1 .. at - 1
    BY <1>1, <2>2, <2>3
  <2>5. \A k \in 1 .. at - 1 : k \in 1 .. at /\ k # at
    OBVIOUS
  <2>. QED
    BY <2>4, <2>5
<1>4. nodes' = Owned(class, p) \cup lost' /\ lost' \cap Owned(class, p) = {}
  BY <1>1, <1>2, <1>3
<1>5. 1 .. at = 1 .. at' - 1
  OBVIOUS
<1>. QED
  BY <1>2, <1>3, <1>4, <1>5 DEF Owning

LEMMA ReadChildInd == ASSUME DomInd, ReadChild PROVE DomInd'
<1>1. /\ phase = "read" /\ at \in 1 .. MaxElements /\ class' = class /\ phase' = phase
      /\ at' = at + 1 /\ again' = again /\ edited' = edited /\ lost' = lost
  BY DEF ReadChild, DomInd, SourceOk
<1>2. SourceOk /\ Objects /\ Owning /\ Showing /\ class \in ClassNames /\ at \in Nat \ {0}
      /\ ObjectOk(class, object) /\ source \in SourceType(class) /\ MaxElements \in Nat
  BY DomAssumption DEF DomInd, SourceOk, Objects
<1>3. PICK x \in ElementItems(class, at) :
         LET y == Lowered(x)
             known == y.tag \in Reads(class)
         IN  /\ source' = [source EXCEPT !.items = Append(@, x)]
             /\ object' = ReadElement(class, object, x)
             /\ Free(IF known /\ ~Elements(class)[y.tag].many
                     THEN Replaced(class, object, y.tag) ELSE {},
                     IF known THEN New(y) ELSE {})
  BY DEF ReadChild
<1>. DEFINE y == Lowered(x)
            known == y.tag \in Reads(class)
            gone == IF known /\ ~Elements(class)[y.tag].many
                    THEN Replaced(class, object, y.tag) ELSE {}
            made == IF known THEN MadeBy(class, y) ELSE {}
            r == ReadElement(class, object, x)
            items == source.items
<1>4. x \in AnyItem(class) /\ x.id = at
  <2>1. \A type : Values(type) \subseteq Vals
    BY DEF Values, Vals
  <2>2. \/ x = [tag |-> "other", id |-> at, val |-> "exact"]
        \/ \E t \in Range(Writes(class)) : \E v \in Values(Elements(class)[Lower(t)].type) :
              x = [tag |-> t, id |-> at, val |-> v]
    BY DEF ElementItems, Item
  <2>3. CASE x = [tag |-> "other", id |-> at, val |-> "exact"]
    BY <1>2, <2>3 DEF AnyItem, Vals
  <2>4. CASE \E t \in Range(Writes(class)) : \E v \in Values(Elements(class)[Lower(t)].type) :
                x = [tag |-> t, id |-> at, val |-> v]
    BY <1>2, <2>1, <2>4 DEF AnyItem
  <2>. QED
    BY <2>2, <2>3, <2>4
<1>5. MadeBy(class, y) = New(y)
  BY DEF MadeBy, New
<1>6. object' = r /\ Free(gone, made) /\ source' = [source EXCEPT !.items = Append(items, x)]
  BY <1>3, <1>5
<1>7. /\ gone \subseteq Owned(class, object)
      /\ Owned(class, r) = (Owned(class, object) \ gone) \cup made
      /\ OwnedApart(class, r) /\ OwnedBelow(class, r, at + 1)
  BY <1>2, <1>4, ReadOwned DEF Owning
<1>8. ObjectOk(class, r)
  BY <1>2, <1>4, ReadElementOk
<1>9. items \in Seq(AnyItem(class))
  BY <1>2 DEF SourceType
<1>10. ~edited => ShowsAll(class, r, Append(items, x))
  <2>. SUFFICES ASSUME ~edited PROVE ShowsAll(class, r, Append(items, x))
    OBVIOUS
  <2>1. ShowsAll(class, object, items)
    BY <1>1, <1>2 DEF Showing
  <2>. QED
    BY <2>1, <1>2, <1>4, <1>9, ReadElementShows
<1>. HIDE DEF gone, made, r, y, known
<1>11. source' \in SourceType(class) /\ source'.items = Append(items, x)
       /\ Len(source'.items) = Len(items) + 1 /\ Len(items) \in Nat
  <2>1. Append(items, x) \in Seq(AnyItem(class)) /\ Len(Append(items, x)) = Len(items) + 1
        /\ Len(items) \in Nat
    BY <1>4, <1>9
  <2>. HIDE DEF items
  <2>. QED
    BY <2>1, <1>2, <1>6 DEF SourceType
<1>12. made \subseteq {at}
  <2>1. y.id = at
    BY <1>4 DEF Lowered, AnyItem, y
  <2>. QED
    BY <2>1 DEF made, MadeBy
<1>13. SourceOk'
  BY <1>1, <1>2, <1>11 DEF SourceOk
<1>14. Objects'
  BY <1>1, <1>2, <1>6, <1>8 DEF Objects
<1>15. Owning'
  <2>1. lost' = lost \cup {} /\ gone \cap {} = {} /\ gone \cup {} = gone
    BY <1>1
  <2>. QED
    BY <2>1, <1>1, <1>2, <1>6, <1>7, <1>12, OwningStep
<1>16. Showing'
  BY <1>1, <1>6, <1>10, <1>11 DEF Showing
<1>17. RoundTrip'
  BY <1>1 DEF RoundTrip
<1>. QED
  BY <1>13, <1>14, <1>15, <1>16, <1>17 DEF DomInd

LEMMA ReadTextInd == ASSUME DomInd, ReadText PROVE DomInd'
<1>1. /\ phase = "read" /\ phase' = "edit" /\ object' = [object EXCEPT !.text = source.text]
      /\ class' = class /\ source' = source /\ at' = at /\ again' = again /\ nodes' = nodes /\ lost' = lost
      /\ edited' = edited /\ domFault' = domFault
  BY DEF ReadText
<1>2. SourceOk /\ Objects /\ Owning /\ Showing /\ class \in ClassNames
      /\ ObjectOk(class, object) /\ source.text \in BOOLEAN
  BY DEF DomInd, SourceOk, Objects, SourceType
<1>. DEFINE p == [object EXCEPT !.text = source.text]
<1>3. /\ ObjectOk(class, p) /\ Owned(class, p) = Owned(class, object)
      /\ OwnedApart(class, object) => OwnedApart(class, p)
      /\ \A n : OwnedBelow(class, object, n) => OwnedBelow(class, p, n)
      /\ \A items : ShowsAll(class, object, items) => ShowsAll(class, p, items)
  BY <1>2, SameMembers
<1>4. object' = p
  BY <1>1
<1>. HIDE DEF p
<1>5. SourceOk'
  BY <1>1, <1>2 DEF SourceOk
<1>6. Objects'
  BY <1>1, <1>2, <1>3, <1>4 DEF Objects
<1>7. Owning'
  BY <1>1, <1>2, <1>3, <1>4 DEF Owning
<1>8. Showing'
  BY <1>1, <1>2, <1>3, <1>4 DEF Showing
<1>9. RoundTrip'
  BY <1>1 DEF RoundTrip
<1>. QED
  BY <1>5, <1>6, <1>7, <1>8, <1>9 DEF DomInd

LEMMA SetElementInd == ASSUME DomInd, NEW t, SetElement(t) PROVE DomInd'
<1>. DEFINE x == Item(t, at, "exact")
            p == Set(class, object, x)
            gone == Replaced(class, object, t)
<1>1. /\ phase = "edit" /\ at <= MaxElements /\ edited' = TRUE /\ at' = at + 1
      /\ t \in Singles /\ class' = class /\ source' = source /\ phase' = phase
      /\ again' = again /\ object' = p /\ Free(gone, New(x)) /\ lost' = lost
  BY DEF SetElement, Editing
<1>2. SourceOk /\ Objects /\ Owning /\ class \in ClassNames /\ at \in Nat \ {0}
      /\ ObjectOk(class, object) /\ MaxElements \in Nat
  BY DomAssumption DEF DomInd, SourceOk, Objects
<1>3. x \in Kept(class) /\ x.id = at /\ x.tag = t /\ t \in Single(class)
  <2>1. t \in Tags(class) /\ t \in Single(class)
    BY <1>1 DEF Singles, Single, Tags
  <2>. QED
    BY <2>1, <1>2 DEF Kept, Item, Vals
<1>4. New(x) = MadeBy(class, x)
  BY DEF New, MadeBy
<1>. HIDE DEF x, p
<1>5. /\ ObjectOk(class, p) /\ gone \subseteq Owned(class, object)
      /\ Owned(class, p) = (Owned(class, object) \ gone) \cup MadeBy(class, x)
      /\ OwnedApart(class, p) /\ OwnedBelow(class, p, at + 1)
  <2>1. OwnedApart(class, object) /\ OwnedBelow(class, object, x.id) /\ x.id # 0
        /\ x.tag \in Single(class)
    BY <1>2, <1>3 DEF Owning
  <2>2. /\ ObjectOk(class, p) /\ Replaced(class, object, x.tag) \subseteq Owned(class, object)
        /\ Owned(class, p) = (Owned(class, object) \ Replaced(class, object, x.tag))
              \cup MadeBy(class, x)
        /\ OwnedApart(class, p) /\ OwnedBelow(class, p, x.id + 1)
    BY <2>1, <1>2, <1>3, SetOwned DEF p
  <2>. QED
    BY <2>2, <1>3
<1>. HIDE DEF gone
<1>6. MadeBy(class, x) \subseteq {at}
  BY <1>3 DEF MadeBy
<1>7. SourceOk'
  BY <1>1, <1>2 DEF SourceOk
<1>8. Objects'
  BY <1>1, <1>2, <1>5 DEF Objects
<1>9. Owning'
  <2>1. lost' = lost \cup {} /\ gone \cap {} = {} /\ gone \cup {} = gone
    BY <1>1
  <2>. QED
    BY <2>1, <1>1, <1>2, <1>4, <1>5, <1>6, OwningStep
<1>10. Showing' /\ RoundTrip'
  BY <1>1 DEF Showing, RoundTrip
<1>. QED
  BY <1>7, <1>8, <1>9, <1>10 DEF DomInd

LEMMA ClearElementInd == ASSUME DomInd, NEW t, ClearElement(t) PROVE DomInd'
<1>. DEFINE p == ClearOne(object, t)
            gone == Replaced(class, object, t)
<1>1. /\ phase = "edit" /\ at <= MaxElements /\ edited' = TRUE /\ at' = at + 1
      /\ t \in Singles /\ ~Header(class).choice /\ class' = class /\ source' = source
      /\ phase' = phase /\ again' = again /\ object' = p /\ Free(gone, {}) /\ lost' = lost
  BY DEF ClearElement, Editing
<1>2. SourceOk /\ Objects /\ Owning /\ class \in ClassNames /\ at \in Nat \ {0}
      /\ ObjectOk(class, object) /\ MaxElements \in Nat /\ t \in Single(class)
  BY <1>1, DomAssumption DEF DomInd, SourceOk, Objects, Singles, Single, Tags
<1>3. OwnedApart(class, object) /\ OwnedBelow(class, object, at)
  BY <1>2 DEF Owning
<1>4. /\ ObjectOk(class, p) /\ gone \subseteq Owned(class, object)
      /\ Owned(class, p) = Owned(class, object) \ gone
      /\ OwnedApart(class, p) /\ OwnedBelow(class, p, at + 1)
  BY <1>1, <1>2, <1>3, ClearOwned
<1>. HIDE DEF p, gone
<1>5. {} \subseteq {at} /\ Owned(class, p) = (Owned(class, object) \ gone) \cup {}
  BY <1>4
<1>6. SourceOk'
  BY <1>1, <1>2 DEF SourceOk
<1>7. Objects'
  BY <1>1, <1>2, <1>4 DEF Objects
<1>8. Owning'
  <2>1. lost' = lost \cup {} /\ gone \cap {} = {} /\ gone \cup {} = gone
    BY <1>1
  <2>. QED
    BY <2>1, <1>1, <1>2, <1>4, <1>5, OwningStep
<1>9. Showing' /\ RoundTrip'
  BY <1>1 DEF Showing, RoundTrip
<1>. QED
  BY <1>6, <1>7, <1>8, <1>9 DEF DomInd

LEMMA SetElementListInd == ASSUME DomInd, NEW t, SetElementList(t) PROVE DomInd'
<1>. DEFINE x == Item(t, at, "exact")
<1>1. /\ phase = "edit" /\ at <= MaxElements /\ edited' = TRUE /\ at' = at + 1
      /\ t \in Tags(class) \ Single(class) /\ class' = class /\ source' = source
      /\ phase' = phase /\ again' = again
  BY DEF SetElementList, Editing, Singles, Single, Tags
<1>2. SourceOk /\ Objects /\ Owning /\ class \in ClassNames /\ at \in Nat \ {0}
      /\ ObjectOk(class, object) /\ MaxElements \in Nat
  BY DomAssumption DEF DomInd, SourceOk, Objects
<1>3. x \in Kept(class) /\ x.id = at /\ x.tag = t
  BY <1>1, <1>2 DEF Kept, Item, Vals
<1>4. PICK s \in NewLists(object.elem[t], x) :
         /\ object' = SetList(object, t, s)
         /\ Free({}, IF s = <<>> THEN {} ELSE New(x))
         /\ lost' = lost \cup (Ids(class, object, {t}) \ Ids(class, SetList(object, t, s), {t}))
  BY DEF SetElementList
<1>. DEFINE p == SetList(object, t, s)
            gone == Ids(class, object, {t}) \ Ids(class, p, {t})
            made == IF s = <<>> THEN {} ELSE MadeBy(class, x)
<1>5. New(x) = MadeBy(class, x)
  BY DEF New, MadeBy
<1>6. object' = p /\ Free({}, made) /\ lost' = lost \cup gone
  BY <1>4, <1>5
<1>. HIDE DEF x
<1>7. /\ ObjectOk(class, p) /\ gone \subseteq Owned(class, object)
      /\ Owned(class, p) = (Owned(class, object) \ gone) \cup made
      /\ OwnedApart(class, p) /\ OwnedBelow(class, p, at + 1)
  <2>1. OwnedApart(class, object) /\ OwnedBelow(class, object, x.id) /\ x.id # 0
        /\ x.tag \notin Single(class) /\ s \in NewLists(object.elem[x.tag], x)
    BY <1>1, <1>2, <1>3 DEF Owning
  <2>. QED
    BY <2>1, <1>2, <1>3, SetListOwned
<1>8. made \subseteq {at}
  BY <1>3 DEF MadeBy
<1>. HIDE DEF p, gone, made
<1>9. SourceOk'
  BY <1>1, <1>2 DEF SourceOk
<1>10. Objects'
  BY <1>1, <1>2, <1>6, <1>7 DEF Objects
<1>11. Owning'
  <2>1. {} \cup gone = gone /\ {} \cap gone = {} /\ {} \subseteq Owned(class, object)
    OBVIOUS
  <2>. QED
    BY <2>1, <1>1, <1>2, <1>6, <1>7, <1>8, OwningStep
<1>12. Showing' /\ RoundTrip'
  BY <1>1 DEF Showing, RoundTrip
<1>. QED
  BY <1>9, <1>10, <1>11, <1>12 DEF DomInd

LEMMA WriteAndReadAgainInd == ASSUME DomInd, WriteAndReadAgain PROVE DomInd'
<1>. DEFINE w == Written(class, object)
            r == ReadAll(class, w)
            a == object.attr
<1>1. /\ phase' = "written" /\ again' = r /\ class' = class /\ source' = source /\ at' = at
      /\ object' = object /\ nodes' = nodes /\ lost' = lost /\ edited' = edited /\ domFault' = domFault
  BY DEF WriteAndReadAgain
<1>2. SourceOk /\ Objects /\ Owning /\ class \in ClassNames /\ ObjectOk(class, object)
      /\ a \in AttrType(class) /\ object.text \in BOOLEAN
  BY DEF DomInd, SourceOk, Objects, ObjectOk, ObjectType
<1>. DEFINE v == [b \in DOMAIN a |-> WriteAttribute(Header(class).attributes[b], a[b])]
            q == ReadAttributes(class, v)
<1>3. w.attr = v /\ w.text = object.text
  BY DEF Written
<1>4. /\ q \in AttrType(class) /\ DOMAIN q = DOMAIN a
      /\ \A b \in DOMAIN q : q[b] = IF Header(class).attributes[b] = "bool" THEN "false"
                                    ELSE WriteAttribute("", a[b])
  BY <1>2, AttributesAgain
<1>5. w.items \in Seq(AnyItem(class))
  BY <1>2, WrittenItems
<1>6. \A t \in Tags(class) : Expected(class, w.items, t) = Rounded(Shown(class, object)[t])
  BY <1>2, ExpectedWritten
<1>. HIDE DEF w, v, a
<1>7. /\ ObjectOk(class, r) /\ ShowsAll(class, r, w.items) /\ r.text = object.text /\ r.attr = q
  <2>1. w.text \in BOOLEAN /\ ReadAttributes(class, w.attr) \in AttrType(class)
    BY <1>2, <1>3, <1>4
  <2>2. /\ ObjectOk(class, r) /\ ShowsAll(class, r, w.items)
        /\ r.text = w.text /\ r.attr = ReadAttributes(class, w.attr)
    BY <2>1, <1>2, <1>5, ReadAllOk
  <2>. QED
    BY <2>2, <1>3
<1>. HIDE DEF r, q
<1>8. Shown(class, r) = [t \in DOMAIN Elements(class) |->
          LET s == Shown(class, object)[t] IN [i \in DOMAIN s |-> WriteValue(s[i])]]
  <2>1. \A t \in DOMAIN Elements(class) : Shown(class, r)[t] = Rounded(Shown(class, object)[t])
    BY <1>6, <1>7 DEF ShowsAll, Tags
  <2>2. Shown(class, r) = [t \in DOMAIN Elements(class) |-> Shown(class, r)[t]]
    BY DEF Shown
  <2>3. [t \in DOMAIN Elements(class) |-> Shown(class, r)[t]] =
        [t \in DOMAIN Elements(class) |-> Rounded(Shown(class, object)[t])]
    BY <2>1
  <2>4. [t \in DOMAIN Elements(class) |-> Rounded(Shown(class, object)[t])] =
        [t \in DOMAIN Elements(class) |->
            LET s == Shown(class, object)[t] IN [i \in DOMAIN s |-> WriteValue(s[i])]]
    BY DEF Rounded
  <2>. QED
    BY <2>2, <2>3, <2>4
<1>9. RoundTrip'
  BY <1>1, <1>4, <1>7, <1>8 DEF RoundTrip, a
<1>10. SourceOk'
  BY <1>1, <1>2 DEF SourceOk
<1>11. Objects'
  BY <1>1, <1>2, <1>7 DEF Objects
<1>12. Owning'
  BY <1>1, <1>2 DEF Owning
<1>13. Showing'
  BY <1>1 DEF Showing
<1>. QED
  BY <1>9, <1>10, <1>11, <1>12, <1>13 DEF DomInd

LEMMA DeleteInd == ASSUME DomInd, Delete PROVE DomInd'
<1>1. /\ Free(Owned(class, object), {}) /\ object' = Empty(class) /\ phase' = "deleted"
      /\ class' = class /\ source' = source /\ at' = at /\ again' = again /\ edited' = edited
      /\ lost' = lost
  BY DEF Delete, Owned
<1>2. SourceOk /\ Objects /\ Owning /\ class \in ClassNames
  BY DEF DomInd, SourceOk
<1>3. ObjectOk(class, Empty(class)) /\ Empty(class).elem = [t \in Tags(class) |-> <<>>]
  BY <1>2, EmptyOk
<1>4. /\ Owned(class, Empty(class)) = {} /\ OwnedApart(class, Empty(class))
      /\ OwnedBelow(class, Empty(class), at)
  BY <1>2, <1>3, NothingOwned
<1>5. nodes' = lost /\ domFault' = "none"
  BY <1>1, <1>2 DEF Free, Owning
<1>6. SourceOk'
  BY <1>1, <1>2 DEF SourceOk
<1>7. Objects'
  BY <1>1, <1>2, <1>3 DEF Objects
<1>8. Owning'
  <2>1. lost \subseteq 1 .. at - 1
    BY <1>2 DEF Owning
  <2>. QED
    BY <2>1, <1>1, <1>4, <1>5 DEF Owning
<1>9. Showing' /\ RoundTrip'
  BY <1>1 DEF Showing, RoundTrip
<1>. QED
  BY <1>6, <1>7, <1>8, <1>9 DEF DomInd

LEMMA DomIndStep == DomInd /\ [DomNext]_domVars => DomInd'
<1>. SUFFICES ASSUME DomInd, [DomNext]_domVars PROVE DomInd'
  OBVIOUS
<1>1. CASE UNCHANGED domVars
  BY <1>1 DEF domVars, DomInd, SourceOk, Objects, Owning, Showing, RoundTrip
<1>2. CASE ReadChild \/ ReadText \/ WriteAndReadAgain \/ Delete
  BY <1>2, ReadChildInd, ReadTextInd, WriteAndReadAgainInd, DeleteInd
<1>3. CASE \E t \in DOMAIN Elements(class) : SetElement(t) \/ SetElementList(t) \/ ClearElement(t)
  BY <1>3, SetElementInd, SetElementListInd, ClearElementInd
<1>. QED
  BY <1>1, <1>2, <1>3 DEF DomNext

-----------------------------------------------------------------------------
\* The object is one of its class, owns its nodes, shows what was read until a setter is
\* called, and writes what it can read again: in every state of every behaviour.
THEOREM DomIndInvariant == DomSpec => []DomInd
BY DomIndInit, DomIndStep, PTL DEF DomSpec

LEMMA DomIndTypes == DomInd => DomTypeOK
<1>. SUFFICES ASSUME DomInd PROVE DomTypeOK
  OBVIOUS
<1>1. SourceOk /\ Owning /\ class \in ClassNames /\ MaxElements \in Nat
      /\ \A o \in {object, again} : ObjectOk(class, o)
  BY DomAssumption DEF DomInd, SourceOk, Objects
<1>2. Single(class) = Singles
  BY DEF Single, Singles, Tags
<1>3. ASSUME NEW o \in {object, again}
      PROVE  /\ DOMAIN o.attr \subseteq DOMAIN Header(class).attributes
             /\ o.bits \subseteq Singles /\ o.kind \in Singles \cup {"unknown"}
             /\ Header(class).choice \/ \A t \in Singles : t \in o.bits <=> Len(o.elem[t]) = 1
             /\ \A t \in DOMAIN Elements(class) : \A x \in Range(o.elem[t]) : x.tag = t
  <2>1. /\ o.attr \in AttrType(class) /\ o.bits \subseteq Single(class)
        /\ o.kind \in Single(class) \cup {"unknown"} /\ o.elem \in Elems(class)
        /\ MembersOk(class, o) /\ SinglesOk(class, o)
    BY <1>1 DEF ObjectOk, ObjectType, Elems
  <2>2. DOMAIN o.attr \subseteq DOMAIN Header(class).attributes
    BY <2>1 DEF AttrType
  <2>3. Header(class).choice \/ \A t \in Singles : t \in o.bits <=> Len(o.elem[t]) = 1
    <3>1. Len(<<>>) # 1
      OBVIOUS
    <3>. QED
      BY <2>1, <1>2, <3>1 DEF SinglesOk
  <2>4. ASSUME NEW t \in DOMAIN Elements(class), NEW x \in Range(o.elem[t]) PROVE x.tag = t
    <3>1. t \in Tags(class) /\ DOMAIN o.elem[t] = 1 .. Len(o.elem[t])
      BY <2>1 DEF Elems, Tags
    <3>. QED
      BY <2>1, <3>1 DEF MembersOk, Range
  <2>. QED
    BY <2>1, <2>2, <2>3, <2>4, <1>2
<1>4. nodes \subseteq 1 .. MaxElements /\ lost \subseteq 1 .. MaxElements
  <2>0. lost \subseteq 1 .. MaxElements /\ nodes = Owned(class, object) \cup lost
    <3>1. lost \subseteq 1 .. at - 1 /\ nodes = Owned(class, object) \cup lost
          /\ at \in 1 .. MaxElements + 1
      BY <1>1 DEF Owning, SourceOk
    <3>. QED
      BY <3>1, <1>1
  <2>. SUFFICES ASSUME NEW k \in Owned(class, object) PROVE k \in 1 .. MaxElements
    BY <2>0
  <2>1. k \in Owned(class, object) /\ object.elem \in Elems(class) /\ OwnedBelow(class, object, at)
    BY <1>1, ElemsOk DEF Owning
  <2>2. PICK t \in Deletes(class) : \E i \in Slots(class, object, t) : object.elem[t][i].id = k
    BY <1>1, <2>1, IdsOf DEF Owned
  <2>3. k \in 1 .. at - 1
    BY <2>1, <2>2 DEF OwnedBelow
  <2>. QED
    BY <1>1, <2>3 DEF SourceOk
<1>5. Len(source.items) <= MaxElements /\ at \in 1 .. MaxElements + 1
  <2>1. source.items \in Seq(AnyItem(class)) /\ Len(source.items) < at /\ at \in 1 .. MaxElements + 1
    BY <1>1 DEF SourceOk, SourceType
  <2>2. Len(source.items) \in Nat
    BY <2>1
  <2>. QED
    BY <1>1, <2>1, <2>2
<1>. QED
  BY <1>1, <1>3, <1>4, <1>5 DEF DomTypeOK, SourceOk, Owning

\* Type correctness, with what a type of the code says of the members together: each single
\* member that is set has one element, and an element is stored in the member of its tag.
THEOREM DomTypes == DomSpec => []DomTypeOK
BY DomIndInvariant, DomIndTypes, PTL

\* For every class of the table, every number of elements and every order of reads, setters
\* and clear calls: the nodes are the object's own but for those that the setters of lists
\* lose, none is in two members or twice in one, and none is deleted twice (the setters and
\* ~Dom...() of ui4.cpp).
THEOREM NodesOwnedOnce == DomSpec => []OwnedOnce
<1>1. DomInd => OwnedOnce
  <2>. SUFFICES ASSUME DomInd PROVE OwnedOnce
    OBVIOUS
  <2>1. Owning /\ class \in ClassNames /\ object.elem \in Elems(class)
    BY ElemsOk DEF DomInd, SourceOk, Objects
  <2>2. \A t \in Deletes(class) : DOMAIN object.elem[t] = Slots(class, object, t)
    BY <2>1, Tables DEF Elems, Slots
  <2>3. domFault = "none" /\ nodes \ lost = Ids(class, object, Deletes(class)) /\ lost \subseteq nodes
    BY <2>1 DEF Owning, Owned
  <2>4. OwnedApart(class, object)
    BY <2>1 DEF Owning
  <2>. QED
    BY <2>1, <2>2, <2>3, <2>4 DEF OwnedOnce, OwnedApart
<1>. QED
  BY <1>1, DomIndInvariant, PTL

\* After read() of a document of any length each member shows what it should of it.
THEOREM DocumentRead == DomSpec => []ReadsDocument
<1>1. DomInd => ReadsDocument
  <2>. SUFFICES ASSUME DomInd, phase = "edit", ~edited
                PROVE  Shown(class, object) =
                          [t \in DOMAIN Elements(class) |-> Expected(class, source.items, t)]
    BY DEF ReadsDocument
  <2>1. \A t \in DOMAIN Elements(class) : Shown(class, object)[t] = Expected(class, source.items, t)
    BY DEF DomInd, Showing, ShowsAll, Tags
  <2>2. Shown(class, object) = [t \in DOMAIN Elements(class) |-> Shown(class, object)[t]]
    BY DEF Shown
  <2>3. [t \in DOMAIN Elements(class) |-> Shown(class, object)[t]] =
        [t \in DOMAIN Elements(class) |-> Expected(class, source.items, t)]
    BY <2>1
  <2>. QED
    BY <2>2, <2>3
<1>. QED
  BY <1>1, DomIndInvariant, PTL

\* What write() has written read() reads as it was, whatever was read and set before.
THEOREM WrittenReadAgain == DomSpec => []RoundTrip
<1>1. DomInd => RoundTrip
  BY DEF DomInd
<1>. QED
  BY <1>1, DomIndInvariant, PTL
=============================================================================
