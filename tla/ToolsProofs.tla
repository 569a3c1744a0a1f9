------------------------------ MODULE ToolsProofs ------------------------------
(***************************************************************************)
(* Proofs about the tables of the smoke generator, for every set of        *)
(* headers that a compiler accepts (WellFormed) and every number of files: *)
(* smokedata.cpp and the switches of x_*.cpp number the members of a class *)
(* alike, and every virtual method that a generated class reimplements has *)
(* one row.                                                                *)
(*                                                                         *)
(* The first part says what Among, FlattenSeq and Sorted make of sequences *)
(* of any length, and that what is defined by recursion over the bases of  *)
(* a class exists (RankedRecursion): a class has a higher rank than those  *)
(* it is derived from.  Then come preparse(), which keeps the members of a *)
(* class distinct and its destructor single, the search for virtual        *)
(* methods, the rows, and the invariant TablesInv of the generator.        *)
(***************************************************************************)
EXTENDS MCTools, UiDomProofs

-----------------------------------------------------------------------------
(* Sequences: induction, Among and the positions in FlattenSeq *)

\* Induction over sequences, stated of a set.
LEMMA SequenceInduction ==
    ASSUME NEW S, NEW Z, <<>> \in Z,
           \A s \in Seq(S) : \A x \in S : s \in Z => Append(s, x) \in Z
    PROVE  Seq(S) \subseteq Z
<1>. DEFINE N == {n \in Nat : \A s \in Seq(S) : Len(s) = n => s \in Z}
<1>1. 0 \in N
  BY EmptySeq
<1>2. ASSUME NEW n \in Nat \ {0}, n - 1 \in N PROVE n \in N
  <2>. SUFFICES ASSUME NEW s \in Seq(S), Len(s) = n PROVE s \in Z
    OBVIOUS
  <2>1. Len(s) \in Nat \ {0} /\ s # <<>>
    BY <1>2
  <2>. DEFINE t == SubSeq(s, 1, n - 1)
  <2>2. t \in Seq(S) /\ Len(t) = n - 1 /\ s[n] \in S
    BY <2>1
  <2>3. s = Append(t, s[n])
    BY <2>1
  <2>4. t \in Z
    BY <1>2, <2>2
  <2>. HIDE DEF t
  <2>. QED
    BY <2>2, <2>3, <2>4
<1>3. Nat \subseteq N
  BY <1>1, <1>2, Induction
<1>4. ASSUME NEW s \in Seq(S) PROVE s \in Z
  <2>1. Len(s) \in N
    BY <1>3
  <2>. QED
    BY <2>1
<1>. QED
  BY <1>4

OneIf(x, T) == IF x \in T THEN <<x>> ELSE <<>>
AmongParts(s, T) == [i \in DOMAIN s |-> OneIf(s[i], T)]

LEMMA AmongPartsType ==
    ASSUME NEW S, NEW s \in Seq(S), NEW T
    PROVE  /\ AmongParts(s, T) \in Seq(Seq(S \cap T)) /\ Len(AmongParts(s, T)) = Len(s)
           /\ Among(s, T) = FlattenSeq(AmongParts(s, T))
           /\ \A i \in 1 .. Len(s) : AmongParts(s, T)[i] = OneIf(s[i], T)
<1>1. DOMAIN s = 1 .. Len(s) /\ Len(s) \in Nat
  OBVIOUS
<1>2. ASSUME NEW i \in 1 .. Len(s) PROVE OneIf(s[i], T) \in Seq(S \cap T)
  <2>1. s[i] \in S
    OBVIOUS
  <2>2. CASE s[i] \in T
    <3>1. s[i] \in S \cap T
      BY <2>1, <2>2
    <3>. HIDE DEF OneIf
    <3>2. OneIf(s[i], T) = <<s[i]>>
      BY <2>2 DEF OneIf
    <3>. QED
      BY <3>1, <3>2
  <2>3. CASE s[i] \notin T
    BY <2>3 DEF OneIf
  <2>. QED
    BY <2>2, <2>3
<1>3. AmongParts(s, T) \in [1 .. Len(s) -> Seq(S \cap T)]
  BY <1>1, <1>2 DEF AmongParts
<1>4. Among(s, T) = FlattenSeq(AmongParts(s, T))
  BY DEF Among, AmongParts, OneIf
<1>5. AmongParts(s, T) \in Seq(Seq(S \cap T)) /\ Len(AmongParts(s, T)) = Len(s)
  BY <1>1, <1>3, AFunctionIsASeq
<1>6. \A i \in 1 .. Len(s) : AmongParts(s, T)[i] = OneIf(s[i], T)
  BY <1>1 DEF AmongParts
<1>. QED
  BY <1>4, <1>5, <1>6

LEMMA AmongType ==
    ASSUME NEW S, NEW s \in Seq(S), NEW T
    PROVE  Among(s, T) \in Seq(S \cap T) /\ Among(s, T) \in Seq(S)
<1>1. Among(s, T) \in Seq(S \cap T)
  <2>. DEFINE P == AmongParts(s, T)
  <2>1. P \in Seq(Seq(S \cap T)) /\ Among(s, T) = FlattenSeq(P)
    BY AmongPartsType
  <2>. HIDE DEF P
  <2>. QED
    BY <2>1, FlattenType
<1>. QED
  BY <1>1

LEMMA AmongEmpty == ASSUME NEW T PROVE Among(<<>>, T) = <<>>
<1>1. AmongParts(<<>>, T) = <<>>
  BY DEF AmongParts
<1>2. FlattenSeq(<<>>) = <<>>
  BY DEF FlattenSeq
<1>. QED
  BY <1>1, <1>2 DEF Among, AmongParts, OneIf

LEMMA AmongAppend ==
    ASSUME NEW S, NEW s \in Seq(S), NEW x \in S, NEW T
    PROVE  Among(Append(s, x), T) = Among(s, T) \o OneIf(x, T)
<1>. DEFINE more == Append(s, x)
            P == AmongParts(s, T)
            Q == AmongParts(more, T)
            J == S \cap T
<1>1. more \in Seq(S) /\ Len(more) = Len(s) + 1 /\ Len(s) \in Nat
  OBVIOUS
<1>2. P \in Seq(Seq(J)) /\ Len(P) = Len(s) /\ \A i \in 1 .. Len(s) : P[i] = OneIf(s[i], T)
  BY AmongPartsType
<1>3. Q \in Seq(Seq(J)) /\ Len(Q) = Len(s) + 1
      /\ \A i \in 1 .. Len(s) + 1 : Q[i] = OneIf(more[i], T)
  BY <1>1, AmongPartsType
<1>4. OneIf(x, T) \in Seq(J)
  <2>1. CASE x \in T
    <3>1. x \in J
      BY <2>1
    <3>. HIDE DEF J
    <3>. QED
      BY <2>1, <3>1 DEF OneIf
  <2>2. CASE x \notin T
    BY <2>2 DEF OneIf
  <2>. QED
    BY <2>1, <2>2
<1>5. ASSUME NEW i \in 1 .. Len(s) + 1 PROVE Q[i] = Append(P, OneIf(x, T))[i]
  <2>. HIDE DEF P, Q, J
  <2>1. Q[i] = OneIf(more[i], T)
    BY <1>3
  <2>2. CASE i = Len(s) + 1
    <3>1. more[i] = x
      BY <2>2
    <3>. QED
      BY <2>1, <2>2, <3>1, <1>2, <1>4
  <2>3. CASE i # Len(s) + 1
    <3>1. i \in 1 .. Len(s) /\ more[i] = s[i]
      BY <2>3, <1>1
    <3>2. P[i] = OneIf(s[i], T)
      BY <3>1, <1>2
    <3>3. Append(P, OneIf(x, T))[i] = P[i]
      BY <3>1, <1>2, <1>4
    <3>. QED
      BY <2>1, <3>1, <3>2, <3>3
  <2>. QED
    BY <2>2, <2>3
<1>. HIDE DEF P, Q, J, more
<1>6. Append(P, OneIf(x, T)) \in Seq(Seq(J)) /\ Len(Append(P, OneIf(x, T))) = Len(s) + 1
  BY <1>2, <1>4
<1>7. Q = Append(P, OneIf(x, T))
  BY <1>1, <1>3, <1>5, <1>6, SeqEqual
<1>8. FlattenSeq(Q) = FlattenSeq(P) \o OneIf(x, T)
  BY <1>2, <1>4, <1>7, FlattenAppend
<1>. QED
  BY <1>1, <1>8, AmongPartsType DEF P, Q, more

Distinct(s) == \A i, j \in 1 .. Len(s) : s[i] = s[j] => i = j

LEMMA RangeIs ==
    ASSUME NEW S, NEW s \in Seq(S)
    PROVE  /\ Len(s) \in Nat /\ DOMAIN s = 1 .. Len(s) /\ Range(s) \subseteq S
           /\ \A x : x \in Range(s) <=> \E i \in 1 .. Len(s) : s[i] = x
BY DEF Range

LEMMA NothingInRange ==
    ASSUME NEW S, NEW s \in Seq(S), Range(s) = {} PROVE s = <<>>
<1>1. ASSUME Len(s) # 0 PROVE FALSE
  <2>1. 1 \in 1 .. Len(s)
    BY <1>1
  <2>2. s[1] \in Range(s)
    BY <2>1, RangeIs
  <2>. QED
    BY <2>2
<1>. QED
  BY <1>1, EmptySeq

LEMMA RangeConcat ==
    ASSUME NEW S, NEW s \in Seq(S), NEW t \in Seq(S)
    PROVE  Range(s \o t) = Range(s) \cup Range(t)
<1>1. s \o t \in Seq(S) /\ Len(s \o t) = Len(s) + Len(t)
  OBVIOUS
<1>2. \A i \in 1 .. Len(s) + Len(t) : (s \o t)[i] = IF i <= Len(s) THEN s[i] ELSE t[i - Len(s)]
  OBVIOUS
<1>3. ASSUME NEW x \in Range(s \o t) PROVE x \in Range(s) \cup Range(t)
  <2>1. PICK i \in 1 .. Len(s) + Len(t) : (s \o t)[i] = x
    BY <1>1, RangeIs
  <2>2. CASE i <= Len(s)
    <3>1. i \in 1 .. Len(s) /\ s[i] = x
      BY <2>1, <2>2, <1>2
    <3>. QED
      BY <3>1, RangeIs
  <2>3. CASE ~(i <= Len(s))
    <3>1. i - Len(s) \in 1 .. Len(t) /\ t[i - Len(s)] = x
      BY <2>1, <2>3, <1>2
    <3>. QED
      BY <3>1, RangeIs
  <2>. QED
    BY <2>2, <2>3
<1>4. ASSUME NEW x \in Range(s) PROVE x \in Range(s \o t)
  <2>1. PICK i \in 1 .. Len(s) : s[i] = x
    BY RangeIs
  <2>2. i \in 1 .. Len(s \o t) /\ (s \o t)[i] = x
    BY <2>1, <1>1, <1>2
  <2>. QED
    BY <2>2, <1>1, RangeIs
<1>5. ASSUME NEW x \in Range(t) PROVE x \in Range(s \o t)
  <2>1. PICK i \in 1 .. Len(t) : t[i] = x
    BY RangeIs
  <2>2. i + Len(s) \in 1 .. Len(s \o t) /\ (s \o t)[i + Len(s)] = x
    BY <2>1, <1>1, <1>2
  <2>. QED
    BY <2>2, <1>1, RangeIs
<1>. QED
  BY <1>3, <1>4, <1>5

LEMMA RangeOne == \A x : Range(<<x>>) = {x}
BY DEF Range
LEMMA RangeNone == Range(<<>>) = {}
BY DEF Range

LEMMA OneIfType ==
    ASSUME NEW S, NEW x \in S, NEW T
    PROVE  /\ OneIf(x, T) \in Seq(S) /\ Distinct(OneIf(x, T))
           /\ Range(OneIf(x, T)) = {x} \cap T
BY RangeOne, RangeNone DEF OneIf, Distinct

LEMMA RangeAppend ==
    ASSUME NEW S, NEW s \in Seq(S), NEW x \in S
    PROVE  Range(Append(s, x)) = Range(s) \cup {x}
<1>1. <<x>> \in Seq(S) /\ Append(s, x) = s \o <<x>>
  OBVIOUS
<1>2. Range(s \o <<x>>) = Range(s) \cup Range(<<x>>)
  BY <1>1, RangeConcat, SMTT(40)
<1>3. Range(<<x>>) = {x}
  BY RangeOne
<1>. DEFINE one == <<x>>  whole == Append(s, x)
<1>4. whole = s \o one /\ Range(s \o one) = Range(s) \cup Range(one) /\ Range(one) = {x}
  BY <1>1, <1>2, <1>3
<1>. HIDE DEF one, whole
<1>5. Range(whole) = Range(s) \cup {x}
  BY <1>4
<1>. QED
  BY <1>5 DEF whole

LEMMA AmongRange ==
    ASSUME NEW S, NEW s \in Seq(S), NEW T PROVE Range(Among(s, T)) = Range(s) \cap T
<1>. DEFINE Z == {z \in Seq(S) : Range(Among(z, T)) = Range(z) \cap T}
<1>1. <<>> \in Z
  BY AmongEmpty, RangeNone
<1>2. ASSUME NEW z \in Seq(S), NEW x \in S, z \in Z PROVE Append(z, x) \in Z
  <2>1. Among(Append(z, x), T) = Among(z, T) \o OneIf(x, T)
    BY AmongAppend
  <2>2. Among(z, T) \in Seq(S) /\ OneIf(x, T) \in Seq(S)
    BY AmongType, OneIfType
  <2>3. Range(Among(Append(z, x), T)) = Range(Among(z, T)) \cup Range(OneIf(x, T))
    BY <2>1, <2>2, RangeConcat
  <2>5. Range(Append(z, x)) = Range(z) \cup {x}
    BY RangeAppend
  <2>6. Range(OneIf(x, T)) = {x} \cap T
    BY OneIfType
  <2>. QED
    BY <1>2, <2>3, <2>5, <2>6
<1>. HIDE DEF Z
<1>3. Seq(S) \subseteq Z
  BY <1>1, <1>2, SequenceInduction
<1>. QED
  BY <1>3 DEF Z

LEMMA DistinctConcat ==
    ASSUME NEW S, NEW s \in Seq(S), NEW t \in Seq(S), Distinct(s), Distinct(t),
           Range(s) \cap Range(t) = {}
    PROVE  Distinct(s \o t)
<1>1. s \o t \in Seq(S) /\ Len(s \o t) = Len(s) + Len(t) /\ Len(s) \in Nat /\ Len(t) \in Nat
  OBVIOUS
<1>2. \A i \in 1 .. Len(s) + Len(t) : (s \o t)[i] = IF i <= Len(s) THEN s[i] ELSE t[i - Len(s)]
  OBVIOUS
<1>3. \A i \in 1 .. Len(s) : s[i] \in Range(s)
  BY RangeIs
<1>4. \A i \in 1 .. Len(t) : t[i] \in Range(t)
  BY RangeIs
<1>5. ASSUME NEW i \in 1 .. Len(s) + Len(t), NEW j \in 1 .. Len(s) + Len(t),
             (s \o t)[i] = (s \o t)[j]
      PROVE  i = j
  <2>1. CASE i <= Len(s) /\ j <= Len(s)
    BY <2>1, <1>2, <1>5 DEF Distinct
  <2>2. CASE ~(i <= Len(s)) /\ ~(j <= Len(s))
    <3>1. i - Len(s) \in 1 .. Len(t) /\ j - Len(s) \in 1 .. Len(t)
      BY <2>2, <1>1
    <3>2. t[i - Len(s)] = t[j - Len(s)]
      BY <2>2, <1>2, <1>5
    <3>3. i - Len(s) = j - Len(s)
      BY <3>1, <3>2 DEF Distinct
    <3>. QED
      BY <3>3, <1>1
  <2>3. CASE i <= Len(s) /\ ~(j <= Len(s))
    <3>1. i \in 1 .. Len(s) /\ j - Len(s) \in 1 .. Len(t) /\ s[i] = t[j - Len(s)]
      BY <2>3, <1>1, <1>2, <1>5
    <3>. QED
      BY <3>1, <1>3, <1>4
  <2>4. CASE ~(i <= Len(s)) /\ j <= Len(s)
    <3>1. j \in 1 .. Len(s) /\ i - Len(s) \in 1 .. Len(t) /\ s[j] = t[i - Len(s)]
      BY <2>4, <1>1, <1>2, <1>5
    <3>. QED
      BY <3>1, <1>3, <1>4
  <2>. QED
    BY <2>1, <2>2, <2>3, <2>4
<1>. QED
  BY <1>1, <1>5 DEF Distinct

LEMMA DistinctAppend ==
    ASSUME NEW S, NEW s \in Seq(S), NEW x \in S
    PROVE  Distinct(Append(s, x)) <=> Distinct(s) /\ x \notin Range(s)
<1>1. /\ Len(Append(s, x)) = Len(s) + 1 /\ Len(s) \in Nat
      /\ \A i \in 1 .. Len(s) : Append(s, x)[i] = s[i]
      /\ Append(s, x)[Len(s) + 1] = x
  OBVIOUS
<1>2. x \in Range(s) <=> \E i \in 1 .. Len(s) : s[i] = x
  BY RangeIs
<1>3. ASSUME Distinct(Append(s, x)) PROVE Distinct(s) /\ x \notin Range(s)
  BY <1>1, <1>2, <1>3 DEF Distinct
<1>4. ASSUME Distinct(s), x \notin Range(s) PROVE Distinct(Append(s, x))
  BY <1>1, <1>2, <1>4 DEF Distinct
<1>. QED
  BY <1>3, <1>4

LEMMA AmongDistinct ==
    ASSUME NEW S, NEW s \in Seq(S), NEW T, Distinct(s) PROVE Distinct(Among(s, T))
<1>. DEFINE Z == {z \in Seq(S) : Distinct(z) => Distinct(Among(z, T))}
<1>1. <<>> \in Z
  BY AmongEmpty DEF Distinct
<1>2. ASSUME NEW z \in Seq(S), NEW x \in S, z \in Z PROVE Append(z, x) \in Z
  <2>. SUFFICES ASSUME Distinct(Append(z, x)) PROVE Distinct(Among(Append(z, x), T))
    OBVIOUS
  <2>1. Distinct(z) /\ x \notin Range(z)
    BY DistinctAppend
  <2>2. Among(Append(z, x), T) = Among(z, T) \o OneIf(x, T)
    BY AmongAppend
  <2>3. Among(z, T) \in Seq(S) /\ Distinct(Among(z, T)) /\ Range(Among(z, T)) = Range(z) \cap T
    BY <2>1, <1>2, AmongType, AmongRange
  <2>4. OneIf(x, T) \in Seq(S) /\ Distinct(OneIf(x, T)) /\ Range(OneIf(x, T)) \subseteq {x}
    BY OneIfType
  <2>. QED
    BY <2>1, <2>2, <2>3, <2>4, DistinctConcat
<1>. HIDE DEF Z
<1>3. Seq(S) \subseteq Z
  BY <1>1, <1>2, SequenceInduction
<1>. QED
  BY <1>3 DEF Z

LEMMA FlattenNone == FlattenSeq(<<>>) = <<>>
BY DEF FlattenSeq

LEMMA FlattenRange ==
    ASSUME NEW S, NEW ss \in Seq(Seq(S))
    PROVE  \A x : x \in Range(FlattenSeq(ss)) <=> \E i \in 1 .. Len(ss) : x \in Range(ss[i])
<1>. DEFINE R(z) == \A x : x \in Range(FlattenSeq(z)) <=> \E i \in 1 .. Len(z) : x \in Range(z[i])
            Z == {z \in Seq(Seq(S)) : R(z)}
<1>1. <<>> \in Z
  BY FlattenNone, RangeNone
<1>2. ASSUME NEW z \in Seq(Seq(S)), NEW s \in Seq(S), z \in Z PROVE Append(z, s) \in Z
  <2>1. FlattenSeq(Append(z, s)) = FlattenSeq(z) \o s /\ FlattenSeq(z) \in Seq(S)
    BY FlattenAppend, FlattenType
  <2>2. Range(FlattenSeq(Append(z, s))) = Range(FlattenSeq(z)) \cup Range(s)
    BY <2>1, RangeConcat
  <2>. DEFINE a == Append(z, s)
  <2>3. /\ Len(a) = Len(z) + 1 /\ Len(z) \in Nat
        /\ \A i \in 1 .. Len(z) : a[i] = z[i]
        /\ a[Len(z) + 1] = s
    OBVIOUS
  <2>4. \A x : (\E i \in 1 .. Len(a) : x \in Range(a[i])) <=>
               (\E i \in 1 .. Len(z) : x \in Range(z[i])) \/ x \in Range(s)
    <3>. HIDE DEF R, Z, a
    <3>1. ASSUME NEW x PROVE (\E i \in 1 .. Len(a) : x \in Range(a[i])) <=>
               (\E i \in 1 .. Len(z) : x \in Range(z[i])) \/ x \in Range(s)
      <4>1. ASSUME NEW i \in 1 .. Len(a), x \in Range(a[i])
            PROVE  (\E k \in 1 .. Len(z) : x \in Range(z[k])) \/ x \in Range(s)
        <5>1. i = Len(z) + 1 \/ i \in 1 .. Len(z)
          BY <2>3
        <5>. QED
          BY <4>1, <5>1, <2>3
      <4>2. ASSUME NEW i \in 1 .. Len(z), x \in Range(z[i])
            PROVE  \E k \in 1 .. Len(a) : x \in Range(a[k])
        <5>1. i \in 1 .. Len(a) /\ a[i] = z[i]
          BY <2>3
        <5>. QED
          BY <4>2, <5>1
      <4>3. Len(z) + 1 \in 1 .. Len(a) /\ a[Len(z) + 1] = s
        BY <2>3
      <4>. QED
        BY <4>1, <4>2, <4>3
    <3>. QED
      BY <3>1
  <2>5. R(z)
    BY <1>2
  <2>6. R(a)
    BY <2>2, <2>4, <2>5
  <2>. HIDE DEF R
  <2>. QED
    BY <2>6
<1>. HIDE DEF Z
<1>3. Seq(Seq(S)) \subseteq Z
  BY <1>1, <1>2, SequenceInduction
<1>. QED
  BY <1>3 DEF Z

\* where s has an element of M
Hits(s, M) == {i \in 1 .. Len(s) : s[i] \in M}

LEMMA HitsConcat ==
    ASSUME NEW S, NEW s \in Seq(S), NEW t \in Seq(S), NEW M
    PROVE  Hits(s \o t, M) = Hits(s, M) \cup {i + Len(s) : i \in Hits(t, M)}
<1>1. Len(s \o t) = Len(s) + Len(t) /\ Len(s) \in Nat /\ Len(t) \in Nat
  OBVIOUS
<1>2. \A i \in 1 .. Len(s) + Len(t) : (s \o t)[i] = IF i <= Len(s) THEN s[i] ELSE t[i - Len(s)]
  OBVIOUS
<1>3. ASSUME NEW i \in Hits(s \o t, M)
      PROVE  i \in Hits(s, M) \cup {k + Len(s) : k \in Hits(t, M)}
  <2>1. i \in 1 .. Len(s) + Len(t) /\ (s \o t)[i] \in M
    BY <1>1 DEF Hits
  <2>2. CASE i <= Len(s)
    BY <2>1, <2>2, <1>2 DEF Hits
  <2>3. CASE ~(i <= Len(s))
    <3>1. i - Len(s) \in 1 .. Len(t) /\ t[i - Len(s)] \in M /\ i = (i - Len(s)) + Len(s)
      BY <2>1, <2>3, <1>1, <1>2
    <3>. QED
      BY <3>1 DEF Hits
  <2>. QED
    BY <2>2, <2>3
<1>4. ASSUME NEW i \in Hits(s, M) PROVE i \in Hits(s \o t, M)
  BY <1>1, <1>2 DEF Hits
<1>5. ASSUME NEW k \in Hits(t, M) PROVE k + Len(s) \in Hits(s \o t, M)
  <2>1. k \in 1 .. Len(t) /\ t[k] \in M /\ (k + Len(s)) - Len(s) = k
    BY <1>1 DEF Hits
  <2>2. k + Len(s) \in 1 .. Len(s) + Len(t) /\ ~(k + Len(s) <= Len(s))
    BY <2>1, <1>1
  <2>3. (s \o t)[k + Len(s)] = t[k]
    BY <2>1, <2>2, <1>2
  <2>. QED
    BY <2>1, <2>2, <2>3, <1>1 DEF Hits
<1>. QED
  BY <1>3, <1>4, <1>5

LEMMA HitsLeft ==
    ASSUME NEW S, NEW s \in Seq(S), NEW t \in Seq(S), NEW M, Hits(t, M) = {}
    PROVE  Hits(s \o t, M) = Hits(s, M)
<1>1. Hits(s \o t, M) = Hits(s, M) \cup {i + Len(s) : i \in Hits(t, M)}
  BY HitsConcat
<1>2. {i + Len(s) : i \in Hits(t, M)} = {}
  OBVIOUS
<1>. QED
  BY <1>1, <1>2

\* If one part has one element of M and the others none, their concatenation has one.
LEMMA FlattenOnce ==
    ASSUME NEW S, NEW ss \in Seq(Seq(S)), NEW M,
           NEW i \in 1 .. Len(ss), NEW j, Hits(ss[i], M) = {j},
           \A k \in 1 .. Len(ss) : k # i => Hits(ss[k], M) = {}
    PROVE  \E p : Hits(FlattenSeq(ss), M) = {p}
<1>. DEFINE Never(z) == \A k \in 1 .. Len(z) : Hits(z[k], M) = {}
            Once(z) == \E k \in 1 .. Len(z) :
                          /\ \E q : Hits(z[k], M) = {q}
                          /\ \A l \in 1 .. Len(z) : l # k => Hits(z[l], M) = {}
            Flat(z) == Hits(FlattenSeq(z), M)
            R(z) == (Never(z) => Flat(z) = {}) /\ (Once(z) => \E p : Flat(z) = {p})
            Z == {z \in Seq(Seq(S)) : R(z)}
<1>1. <<>> \in Z
  BY FlattenNone DEF Hits
<1>2. ASSUME NEW z \in Seq(Seq(S)), NEW s \in Seq(S), z \in Z PROVE Append(z, s) \in Z
  <2>. DEFINE a == Append(z, s)
  <2>1. FlattenSeq(a) = FlattenSeq(z) \o s /\ FlattenSeq(z) \in Seq(S)
    BY FlattenAppend, FlattenType
  <2>2. Flat(a) = Flat(z) \cup {q + Len(FlattenSeq(z)) : q \in Hits(s, M)}
    BY <2>1, HitsConcat
  <2>3. /\ Len(a) = Len(z) + 1 /\ Len(z) \in Nat
        /\ \A k \in 1 .. Len(z) : a[k] = z[k]
        /\ a[Len(z) + 1] = s
    OBVIOUS
  <2>4. R(z) /\ a \in Seq(Seq(S))
    <3>. HIDE DEF R
    <3>1. R(z)
      BY <1>2
    <3>. QED
      BY <3>1
  <2>. DEFINE F == Flat(z)  G == Flat(a)  H == Hits(s, M)
  <2>5. Never(a) => Never(z) /\ H = {}
    <3>. HIDE DEF a, Z
    <3>1. ASSUME NEW k \in 1 .. Len(z) PROVE k \in 1 .. Len(a) /\ a[k] = z[k]
      BY <2>3
    <3>2. Len(z) + 1 \in 1 .. Len(a)
      BY <2>3
    <3>. QED
      BY <3>1, <3>2, <2>3
  <2>6. Once(a) => (Once(z) /\ H = {}) \/ (Never(z) /\ \E q : H = {q})
    <3>. SUFFICES ASSUME Once(a) PROVE (Once(z) /\ H = {}) \/ (Never(z) /\ \E q : H = {q})
      OBVIOUS
    <3>1. PICK k \in 1 .. Len(a) : /\ \E q : Hits(a[k], M) = {q}
                                   /\ \A l \in 1 .. Len(a) : l # k => Hits(a[l], M) = {}
      OBVIOUS
    <3>. HIDE DEF a, Z
    <3>2. CASE k = Len(z) + 1
      <4>1. \E q : H = {q}
        BY <3>1, <3>2, <2>3
      <4>2. ASSUME NEW l \in 1 .. Len(z) PROVE Hits(z[l], M) = {}
        <5>1. l \in 1 .. Len(a) /\ l # k /\ a[l] = z[l]
          BY <2>3, <3>2
        <5>. QED
          BY <3>1, <5>1
      <4>. QED
        BY <4>1, <4>2
    <3>3. CASE k # Len(z) + 1
      <4>1. k \in 1 .. Len(z) /\ a[k] = z[k]
        <5>. HIDE DEF Once, Never, R, Flat
        <5>1. k \in 1 .. Len(z)
          <6>. DEFINE n == Len(z)  m == Len(a)
          <6>1. n \in Nat /\ m = n + 1 /\ k \in 1 .. m /\ k # n + 1
            BY <2>3, <3>3
          <6>. HIDE DEF n, m
          <6>2. k \in 1 .. n
            BY <6>1
          <6>. QED
            BY <6>2 DEF n
        <5>. QED
          BY <2>3, <5>1
      <4>2. H = {}
        <5>1. Len(z) + 1 \in 1 .. Len(a) /\ Len(z) + 1 # k
          BY <2>3, <3>3
        <5>. QED
          BY <5>1, <3>1, <2>3
      <4>3. ASSUME NEW l \in 1 .. Len(z), l # k PROVE Hits(z[l], M) = {}
        <5>1. l \in 1 .. Len(a) /\ a[l] = z[l]
          BY <2>3
        <5>. QED
          BY <3>1, <4>3, <5>1
      <4>. QED
        BY <4>1, <4>2, <4>3, <3>1
    <3>. QED
      BY <3>2, <3>3
  <2>. HIDE DEF Never, Once
  <2>7. G = F \cup {q + Len(FlattenSeq(z)) : q \in H}
    BY <2>2
  <2>8. (Never(z) => F = {}) /\ (Once(z) => \E p : F = {p})
    BY <2>4
  <2>9. (Never(a) => G = {}) /\ (Once(a) => \E p : G = {p})
    <3>. HIDE DEF F, G, H
    <3>1. ASSUME NEW q, H = {q} PROVE {k + Len(FlattenSeq(z)) : k \in H} = {q + Len(FlattenSeq(z))}
      BY <3>1
    <3>2. ASSUME H = {} PROVE {k + Len(FlattenSeq(z)) : k \in H} = {}
      BY <3>2
    <3>3. Never(a) => G = {}
      BY <2>5, <2>7, <2>8, <3>2
    <3>4. Once(a) => \E p : G = {p}
      BY <2>6, <2>7, <2>8, <3>1, <3>2
    <3>. QED
      BY <3>3, <3>4
  <2>. QED
    BY <2>4, <2>9
<1>3. Once(ss)
  OBVIOUS
<1>. HIDE DEF Z
<1>4. Seq(Seq(S)) \subseteq Z
  BY <1>1, <1>2, SequenceInduction
<1>5. R(ss)
  BY <1>4 DEF Z
<1>. QED
  BY <1>3, <1>5

-----------------------------------------------------------------------------
(* Maxima, folds and recursion over the bases of a class *)

LEMMA MaxIs ==
    ASSUME NEW n \in Nat, NEW S \in SUBSET (0 .. n), S # {}
    PROVE  Max(S) \in S /\ \A y \in S : y <= Max(S)
<1>. DEFINE Has1(k) == \A Q \in SUBSET (0 .. k) : Q # {} => \E x \in Q : \A y \in Q : x >= y
            Z == {k \in Nat : Has1(k)}
<1>1. 0 \in Z
  <2>1. ASSUME NEW Q \in SUBSET (0 .. 0), Q # {} PROVE \E x \in Q : \A y \in Q : x >= y
    <3>1. PICK x \in Q : TRUE
      BY <2>1
    <3>2. \A y \in Q : y = 0
      OBVIOUS
    <3>. QED
      BY <3>1, <3>2
  <2>. QED
    BY <2>1
<1>2. ASSUME NEW k \in Nat \ {0}, k - 1 \in Z PROVE k \in Z
  <2>. SUFFICES ASSUME NEW Q \in SUBSET (0 .. k), Q # {} PROVE \E x \in Q : \A y \in Q : x >= y
    OBVIOUS
  <2>1. CASE k \in Q
    BY <2>1
  <2>2. CASE k \notin Q
    <3>1. Q \in SUBSET (0 .. k - 1)
      BY <2>2
    <3>. QED
      BY <1>2, <3>1
  <2>. QED
    BY <2>1, <2>2
<1>. HIDE DEF Has1
<1>3. Nat \subseteq Z
  BY <1>1, <1>2, Induction
<1>4. Has1(n)
  BY <1>3
<1>5. \E x \in S : \A y \in S : x >= y
  BY <1>4 DEF Has1
<1>6. Max(S) \in S /\ \A y \in S : Max(S) >= y
  BY <1>5 DEF Max
<1>. QED
  BY <1>6

LEMMA SortedIs ==
    ASSUME NEW n \in Nat, NEW S \in SUBSET (1 .. n)
    PROVE  Sorted(S) \in Seq(S) /\ Range(Sorted(S)) = S /\ Distinct(Sorted(S))
<1>. DEFINE k == Max(S \cup {0})
            s == [i \in 1 .. k |-> i]
<1>1. S \cup {0} \in SUBSET (0 .. n) /\ S \cup {0} # {}
  OBVIOUS
<1>2. k \in 0 .. n /\ \A y \in S : y <= k
  <2>1. k \in S \cup {0} /\ \A y \in S \cup {0} : y <= k
    BY <1>1, MaxIs
  <2>. QED
    BY <2>1, <1>1
<1>. HIDE DEF k
<1>3. s \in Seq(1 .. k) /\ Len(s) = k
  <2>1. s \in [1 .. k -> 1 .. k]
    OBVIOUS
  <2>. QED
    BY <2>1, <1>2, AFunctionIsASeq
<1>4. Distinct(s) /\ Range(s) = 1 .. k
  BY <1>2, <1>3 DEF Distinct, Range
<1>5. S \subseteq 1 .. k
  BY <1>2
<1>6. Sorted(S) = Among(s, S)
  BY DEF Sorted, k
<1>. HIDE DEF s
<1>7. Among(s, S) \in Seq((1 .. k) \cap S) /\ Range(Among(s, S)) = S /\ Distinct(Among(s, S))
  <2>1. Among(s, S) \in Seq((1 .. k) \cap S)
    BY <1>3, AmongType
  <2>2. Range(Among(s, S)) = Range(s) \cap S
    BY <1>3, AmongRange
  <2>3. Distinct(Among(s, S))
    BY <1>3, <1>4, AmongDistinct
  <2>. QED
    BY <2>1, <2>2, <2>3, <1>4, <1>5
<1>. QED
  BY <1>5, <1>6, <1>7

\* A fold over a sequence exists: g is its step.
FoldsTo(f, b, g, s) == f[0] = b /\ \A i \in 1 .. Len(s) : f[i] = g[<<f[i - 1], s[i]>>]
LEMMA FoldExists ==
    ASSUME NEW V, NEW b \in V, NEW X, NEW s \in Seq(X), NEW g \in [V \X X -> V]
    PROVE  \E f \in [0 .. Len(s) -> V] : FoldsTo(f, b, g, s)
<1>. DEFINE n == Len(s)
            h == [p \in Nat \X V |-> IF p[1] \in 1 .. n THEN g[<<p[2], s[p[1]]>>] ELSE p[2]]
<1>1. n \in Nat /\ \A i \in 1 .. n : s[i] \in X
  OBVIOUS
<1>. HIDE DEF n
<1>2. h \in [Nat \X V -> V]
  BY <1>1
<1>3. ASSUME NEW i \in 1 .. n, NEW v \in V PROVE h[<<i, v>>] = g[<<v, s[i]>>]
  <2>1. <<i, v>> \in Nat \X V
    BY <1>1
  <2>. QED
    BY <2>1
<1>4. PICK f \in [0 .. n -> V] : Follows(f, b, h, n)
  <2>. HIDE DEF h
  <2>. QED
    BY <1>1, <1>2, Recursion, Zenon
<1>. HIDE DEF h
<1>5. f[0] = b /\ \A i \in 1 .. n : f[i] = h[<<i, f[i - 1]>>]
  BY <1>4 DEF Follows
<1>6. ASSUME NEW i \in 1 .. n PROVE f[i] = g[<<f[i - 1], s[i]>>]
  <2>1. i - 1 \in 0 .. n
    BY <1>1
  <2>2. f[i - 1] \in V
    BY <2>1
  <2>. QED
    BY <2>2, <1>3, <1>5
<1>. QED
  BY <1>5, <1>6 DEF n, FoldsTo

\* A value for each class that depends on those of classes of a lower rank exists.
Ranked(g, N, V, rank) ==
    \A c \in N : \A f, h \in [N -> V] :
        (\A d \in N : rank[d] < rank[c] => f[d] = h[d]) => g[<<c, f>>] = g[<<c, h>>]
Solves(f, g, N) == \A c \in N : f[c] = g[<<c, f>>]
LEMMA RankedRecursion ==
    ASSUME NEW N, NEW V, NEW v \in V, NEW k \in Nat, NEW rank \in [N -> 0 .. k],
           NEW g \in [N \X [N -> V] -> V], Ranked(g, N, V, rank)
    PROVE  \E f \in [N -> V] : Solves(f, g, N)
<1>. DEFINE W == [N -> V]
            b == [c \in N |-> v]
            Up(f) == [c \in N |-> g[<<c, f>>]]
            up == [p \in Nat \X W |-> Up(p[2])]
<1>1. b \in W /\ k + 1 \in Nat
  OBVIOUS
<1>2. \A f \in W : Up(f) \in W
  OBVIOUS
<1>3. up \in [Nat \X W -> W] /\ \A i \in Nat : \A f \in W : up[<<i, f>>] = Up(f)
  <2>. HIDE DEF Up, W
  <2>1. up \in [Nat \X W -> W]
    BY <1>2
  <2>2. ASSUME NEW i \in Nat, NEW f \in W PROVE up[<<i, f>>] = Up(f)
    OBVIOUS
  <2>. QED
    BY <2>1, <2>2
<1>4. PICK F \in [0 .. k + 1 -> W] : Follows(F, b, up, k + 1)
  <2>. HIDE DEF b, up, W
  <2>. QED
    BY <1>1, <1>3, Recursion, Zenon
<1>5. ASSUME NEW i \in 1 .. k + 1
      PROVE  F[i] \in W /\ F[i - 1] \in W /\ \A c \in N : F[i][c] = g[<<c, F[i - 1]>>]
  <2>1. i \in Nat /\ i - 1 \in 0 .. k + 1
    OBVIOUS
  <2>. HIDE DEF up, W
  <2>2. F[i] \in W /\ F[i - 1] \in W /\ F[i] = up[<<i, F[i - 1]>>]
    BY <2>1, <1>4 DEF Follows
  <2>3. F[i] = Up(F[i - 1])
    BY <2>1, <2>2, <1>3
  <2>. QED
    BY <2>2, <2>3
<1>. HIDE DEF up, Up, b
<1>. DEFINE Z == {i \in Nat : i \in 0 .. k + 1 =>
                     \A c \in N : rank[c] < i => F[i][c] = g[<<c, F[i]>>]}
<1>6. 0 \in Z
  <2>1. \A c \in N : ~(rank[c] < 0)
    OBVIOUS
  <2>. QED
    BY <2>1
<1>7. ASSUME NEW i \in Nat \ {0}, i - 1 \in Z PROVE i \in Z
  <2>. SUFFICES ASSUME i \in 0 .. k + 1, NEW c \in N, rank[c] < i
                PROVE  F[i][c] = g[<<c, F[i]>>]
    OBVIOUS
  <2>1. i \in 1 .. k + 1 /\ i - 1 \in 0 .. k + 1 /\ i - 1 \in Nat
    OBVIOUS
  <2>2. \A d \in N : rank[d] < i - 1 => F[i - 1][d] = g[<<d, F[i - 1]>>]
    BY <2>1, <1>7
  <2>3. ASSUME NEW d \in N, rank[d] < rank[c] PROVE F[i - 1][d] = F[i][d]
    <3>1. rank[d] < i - 1
      BY <2>3
    <3>. QED
      BY <3>1, <2>1, <2>2, <1>5
  <2>4. g[<<c, F[i - 1]>>] = g[<<c, F[i]>>]
    BY <2>1, <2>3, <1>5 DEF Ranked
  <2>. QED
    BY <2>1, <2>4, <1>5
<1>. HIDE DEF Z
<1>8. Nat \subseteq Z
  BY <1>6, <1>7, Induction
<1>9. k + 1 \in Z /\ k + 1 \in 1 .. k + 1
  BY <1>1, <1>8
<1>10. ASSUME NEW c \in N PROVE F[k + 1][c] = g[<<c, F[k + 1]>>]
  <2>1. rank[c] < k + 1
    OBVIOUS
  <2>2. k + 1 \in 0 .. k + 1
    BY <1>9
  <2>3. \A d \in N : rank[d] < k + 1 => F[k + 1][d] = g[<<d, F[k + 1]>>]
    BY <2>2, <1>9, Zenon DEF Z
  <2>. QED
    BY <2>1, <2>3
<1>. QED
  BY <1>9, <1>10, <1>5 DEF Solves

\* What is in V for a class if it is for those of lower rank is in V for every class.
LEMMA RankedTyped ==
    ASSUME NEW N, NEW T, NEW k \in Nat, NEW rank \in [N -> 0 .. k],
           \A c \in N : (\A d \in N : rank[d] < rank[c] => d \in T) => c \in T
    PROVE  N \subseteq T
<1>. DEFINE Z == {i \in Nat : \A c \in N : rank[c] < i => c \in T}
<1>1. 0 \in Z
  <2>1. \A c \in N : ~(rank[c] < 0)
    OBVIOUS
  <2>. QED
    BY <2>1
<1>2. ASSUME NEW i \in Nat \ {0}, i - 1 \in Z PROVE i \in Z
  <2>. SUFFICES ASSUME NEW c \in N, rank[c] < i PROVE c \in T
    OBVIOUS
  <2>1. \A d \in N : rank[d] < i - 1 => d \in T
    BY <1>2
  <2>2. \A d \in N : rank[d] < rank[c] => rank[d] < i - 1
    OBVIOUS
  <2>. QED
    BY <2>1, <2>2
<1>. HIDE DEF Z
<1>3. Nat \subseteq Z
  BY <1>1, <1>2, Induction
<1>4. k + 1 \in Z /\ \A c \in N : rank[c] < k + 1
  BY <1>3
<1>. QED
  BY <1>4 DEF Z

-----------------------------------------------------------------------------
(* The headers and preparse() *)

ClassOk(c, ms) ==
    /\ ms \in Seq(MethodOf(c)) /\ Distinct(ms)
    /\ \A m, k \in Range(ms) : Dtor(m) /\ Dtor(k) => m = k
MethodsOk(c, ms) ==
    /\ ms \in Seq(MethodOf(c))
    /\ Kind(c) = "class" => ClassOk(c, ms)
    /\ Kind(c) = "template" => ms = <<>>
    /\ Kind(c) = "namespace" => \A m \in Range(ms) : m.kind = "method" /\ m.virtual = "no"

LEMMA HeaderIs ==
    ASSUME WellFormed(header)
    PROVE  /\ Len(header) \in Nat /\ Names = 1 .. Len(header)
           /\ \A c \in Names :
                 /\ MethodsOk(c, header[c].methods)
                 /\ Bases(c) \in Seq(BaseType)
                 /\ \A i \in DOMAIN Bases(c) : /\ Bases(c)[i].class \in Names
                                              /\ Kind(Bases(c)[i].class) # "namespace"
                 /\ Kind(c) \in {"class", "template", "namespace"}
                 /\ Kind(c) # "class" => Bases(c) = <<>>
                 /\ header[c].enums \in Seq(EnumType) /\ c <= Tilde
<1>1. DOMAIN header = 1 .. Len(header) /\ Len(header) \in 0 .. Tilde /\ Tilde \in Nat
  BY TablesAssumption DEF WellFormed
<1>2. Len(header) \in Nat /\ Names = 1 .. Len(header) /\ Len(header) <= Tilde
  BY <1>1 DEF Names
<1>3. ASSUME NEW c \in Names
      PROVE  /\ MethodsOk(c, header[c].methods)
             /\ Bases(c) \in Seq(BaseType)
             /\ \A i \in DOMAIN Bases(c) : /\ Bases(c)[i].class \in Names
                                          /\ Kind(Bases(c)[i].class) # "namespace"
             /\ Kind(c) \in {"class", "template", "namespace"}
             /\ Kind(c) # "class" => Bases(c) = <<>>
             /\ header[c].enums \in Seq(EnumType) /\ c <= Tilde
  <2>. DEFINE ms == header[c].methods
  <2>1. /\ ms \in Seq(MethodOf(c)) /\ Bases(c) \in Seq(BaseType) /\ header[c].enums \in Seq(EnumType)
        /\ \A i \in DOMAIN Bases(c) : /\ Bases(c)[i].class \in Names
                                     /\ Kind(Bases(c)[i].class) # "namespace"
        /\ Kind(c) \in {"class", "template", "namespace"}
        /\ Kind(c) = "class" => \A i, j \in DOMAIN ms :
              ms[i] = ms[j] \/ (ms[i].kind = "dtor" /\ ms[j].kind = "dtor") => i = j
        /\ Kind(c) = "template" => ms = <<>> /\ Bases(c) = <<>>
        /\ Kind(c) = "namespace" => /\ Bases(c) = <<>>
              /\ \A i \in DOMAIN ms : ms[i].kind = "method" /\ ms[i].virtual = "no"
    BY <1>1 DEF WellFormed, Names, Bases, Kind
  <2>. HIDE DEF ms
  <2>2. DOMAIN ms = 1 .. Len(ms) /\ \A m : m \in Range(ms) <=> \E i \in 1 .. Len(ms) : ms[i] = m
    BY <2>1, RangeIs
  <2>3. MethodsOk(c, ms)
    <3>1. ASSUME Kind(c) = "class" PROVE ClassOk(c, ms)
      <4>1. \A i, j \in 1 .. Len(ms) :
              ms[i] = ms[j] \/ (ms[i].kind = "dtor" /\ ms[j].kind = "dtor") => i = j
        BY <2>1, <2>2, <3>1
      <4>2. Distinct(ms)
        BY <4>1 DEF Distinct
      <4>3. ASSUME NEW m \in Range(ms), NEW k \in Range(ms), Dtor(m), Dtor(k) PROVE m = k
        <5>1. PICK i \in 1 .. Len(ms) : ms[i] = m
          BY <2>2
        <5>2. PICK j \in 1 .. Len(ms) : ms[j] = k
          BY <2>2
        <5>. QED
          BY <4>1, <4>3, <5>1, <5>2 DEF Dtor
      <4>. QED
        BY <2>1, <4>2, <4>3 DEF ClassOk
    <3>2. ASSUME Kind(c) = "namespace", NEW m \in Range(ms)
          PROVE  m.kind = "method" /\ m.virtual = "no"
      <4>1. PICK i \in 1 .. Len(ms) : ms[i] = m
        BY <2>2
      <4>. QED
        BY <2>1, <2>2, <3>2, <4>1
    <3>. QED
      BY <2>1, <3>1, <3>2 DEF MethodsOk
  <2>. QED
    BY <1>1, <1>2, <2>1, <2>3 DEF ms
<1>. QED
  BY <1>2, <1>3

LEMMA OkAppend ==
    ASSUME NEW c, NEW ms, ClassOk(c, ms), NEW m \in MethodOf(c), m \notin Range(ms),
           Dtor(m) => \A k \in Range(ms) : ~Dtor(k)
    PROVE  ClassOk(c, Append(ms, m))
<1>1. ms \in Seq(MethodOf(c)) /\ Distinct(ms)
  BY DEF ClassOk
<1>2. Append(ms, m) \in Seq(MethodOf(c))
  BY <1>1
<1>3. Range(Append(ms, m)) = Range(ms) \cup {m}
  BY <1>1, RangeAppend
<1>4. Distinct(Append(ms, m))
  BY <1>1, DistinctAppend
<1>. QED
  BY <1>2, <1>3, <1>4 DEF ClassOk

LEMMA OkAmong ==
    ASSUME NEW c, NEW ms, ClassOk(c, ms), NEW T PROVE ClassOk(c, Among(ms, T))
<1>1. ms \in Seq(MethodOf(c)) /\ Distinct(ms)
  BY DEF ClassOk
<1>2. Among(ms, T) \in Seq(MethodOf(c)) /\ Range(Among(ms, T)) \subseteq Range(ms)
  BY <1>1, AmongType, AmongRange
<1>3. Distinct(Among(ms, T))
  BY <1>1, AmongDistinct
<1>. QED
  BY <1>2, <1>3 DEF ClassOk

LEMMA HasIs ==
    ASSUME NEW S, NEW ms \in Seq(S), NEW m \in Range(ms) PROVE \E i \in DOMAIN ms : ms[i] = m
BY RangeIs

LEMMA MadeIs ==
    ASSUME NEW c \in Nat, c <= Tilde
    PROVE  /\ Made(c, "ctor", <<>>) \in MethodOf(c) /\ Ctor(Made(c, "ctor", <<>>))
           /\ Made(c, "ctor", <<c>>) \in MethodOf(c) /\ IsCopyCtor(c, Made(c, "ctor", <<c>>))
           /\ Made(c, "dtor", <<>>) \in MethodOf(c) /\ Dtor(Made(c, "dtor", <<>>))
           /\ ~Dtor(Made(c, "ctor", <<>>)) /\ ~Dtor(Made(c, "ctor", <<c>>))
<1>1. Tilde \in Nat
  BY TablesAssumption
<1>2. <<>> \in Seq(Int) /\ <<c>> \in Seq(Int) /\ DtorName(c) \in Nat
  BY <1>1 DEF DtorName
<1>. QED
  BY <1>2 DEF Made, MethodOf, Ctor, Dtor, IsCopyCtor, Accesses

LEMMA PreparseParts ==
    ASSUME NEW c \in Nat, c <= Tilde, NEW ms, ClassOk(c, ms)
    PROVE  /\ ClassOk(c, AddDefault(c, ms)) /\ ClassOk(c, AddCopy(c, ms))
           /\ ClassOk(c, AddDtor(c, ms)) /\ ClassOk(c, DropCtors(ms))
<1>0. ms \in Seq(MethodOf(c))
  BY DEF ClassOk
<1>1. ClassOk(c, AddDefault(c, ms))
  <2>1. CASE Has(ms, Ctor) \/ PrivateDtor(ms)
    BY <2>1 DEF AddDefault
  <2>2. CASE ~(Has(ms, Ctor) \/ PrivateDtor(ms))
    <3>1. \A i \in DOMAIN ms : ~Ctor(ms[i])
      BY <2>2 DEF Has
    <3>2. Made(c, "ctor", <<>>) \notin Range(ms)
      BY <3>1, <1>0, HasIs, MadeIs
    <3>3. ClassOk(c, Append(ms, Made(c, "ctor", <<>>)))
      BY <3>2, MadeIs, OkAppend
    <3>. QED
      BY <2>2, <3>3 DEF AddDefault
  <2>. QED
    BY <2>1, <2>2
<1>2. ClassOk(c, AddCopy(c, ms))
  <2>1. CASE AddCopy(c, ms) = ms
    BY <2>1
  <2>2. CASE AddCopy(c, ms) # ms
    <3>1. /\ AddCopy(c, ms) = Append(ms, Made(c, "ctor", <<c>>))
          /\ \A i \in DOMAIN ms : ~IsCopyCtor(c, ms[i])
      BY <2>2 DEF AddCopy, Has
    <3>2. Made(c, "ctor", <<c>>) \notin Range(ms)
      BY <3>1, <1>0, HasIs, MadeIs
    <3>3. ClassOk(c, Append(ms, Made(c, "ctor", <<c>>)))
      BY <3>2, MadeIs, OkAppend
    <3>. QED
      BY <3>1, <3>3
  <2>. QED
    BY <2>1, <2>2
<1>3. ClassOk(c, AddDtor(c, ms))
  <2>1. CASE Has(ms, Dtor)
    BY <2>1 DEF AddDtor
  <2>2. CASE ~Has(ms, Dtor)
    <3>1. \A i \in DOMAIN ms : ~Dtor(ms[i])
      BY <2>2 DEF Has
    <3>2. \A k \in Range(ms) : ~Dtor(k)
      BY <3>1, <1>0, HasIs
    <3>3. ClassOk(c, Append(ms, Made(c, "dtor", <<>>)))
      BY <3>2, MadeIs, OkAppend
    <3>. QED
      BY <2>2, <3>3 DEF AddDtor
  <2>. QED
    BY <2>1, <2>2
<1>4. ClassOk(c, DropCtors(ms))
  BY OkAmong DEF DropCtors
<1>. QED
  BY <1>1, <1>2, <1>3, <1>4

Overloaded(m) == [m EXCEPT !.args = <<>>, !.virtual = "no", !.default = FALSE]
AddOverload(done, m) ==
    IF m.default /\ NotPrivate(m) /\ ~Has(done, LAMBDA k : Same(k, Overloaded(m)))
    THEN Append(done, Overloaded(m)) ELSE done

LEMMA AddOverloadOk ==
    ASSUME NEW c, NEW ms, ClassOk(c, ms), NEW m \in MethodOf(c)
    PROVE  ClassOk(c, AddOverload(ms, m))
<1>1. CASE AddOverload(ms, m) = ms
  BY <1>1
<1>2. CASE AddOverload(ms, m) # ms
  <2>1. /\ m.default /\ AddOverload(ms, m) = Append(ms, Overloaded(m))
        /\ \A i \in DOMAIN ms : ~Same(ms[i], Overloaded(m))
    BY <1>2 DEF AddOverload, Has
  <2>2. Overloaded(m) \in MethodOf(c) /\ ~Dtor(Overloaded(m))
    <3>1. <<>> \in Seq(Int)
      OBVIOUS
    <3>2. m.kind # "dtor" /\ m.name <= Tilde
      BY <2>1 DEF MethodOf
    <3>. QED
      BY <3>1, <3>2 DEF Overloaded, MethodOf, Dtor
  <2>3. Overloaded(m) \notin Range(ms)
    <3>1. Same(Overloaded(m), Overloaded(m))
      BY DEF Same
    <3>2. ms \in Seq(MethodOf(c))
      BY DEF ClassOk
    <3>. QED
      BY <2>1, <3>1, <3>2, HasIs
  <2>4. ClassOk(c, Append(ms, Overloaded(m)))
    BY <2>2, <2>3, OkAppend
  <2>. QED
    BY <2>1, <2>4
<1>. QED
  BY <1>1, <1>2

LEMMA AddOverloadsOk ==
    ASSUME NEW c, NEW ms, ClassOk(c, ms) PROVE ClassOk(c, AddOverloads(ms))
<1>. DEFINE X == MethodOf(c)
            V == {s \in Seq(X) : ClassOk(c, s)}
            n == Len(ms)
            Is(f) == f = [i \in 0 .. n |-> IF i = 0 THEN ms ELSE AddOverload(f[i - 1], ms[i])]
            g == [p \in V \X X |-> AddOverload(p[1], p[2])]
<1>1. ms \in Seq(X) /\ ms \in V /\ n \in Nat /\ \A i \in 1 .. n : ms[i] \in X
  BY DEF ClassOk
<1>2. \A v \in V : \A m \in X : AddOverload(v, m) \in V
  <2>1. ASSUME NEW v \in V, NEW m \in X PROVE AddOverload(v, m) \in V
    <3>1. ClassOk(c, AddOverload(v, m))
      BY AddOverloadOk
    <3>. QED
      BY <3>1 DEF ClassOk
  <2>. QED
    BY <2>1
<1>. HIDE DEF V, X
<1>3. g \in [V \X X -> V] /\ \A v \in V : \A m \in X : g[<<v, m>>] = AddOverload(v, m)
  BY <1>2
<1>. HIDE DEF g
<1>4. PICK f \in [0 .. n -> V] : f[0] = ms /\ \A i \in 1 .. n : f[i] = g[<<f[i - 1], ms[i]>>]
  <2>1. ms \in V /\ ms \in Seq(X) /\ g \in [V \X X -> V]
    BY <1>1, <1>3
  <2>2. \E f \in [0 .. n -> V] : FoldsTo(f, ms, g, ms)
    BY <2>1, FoldExists, Zenon
  <2>. QED
    BY <2>2 DEF FoldsTo
<1>. HIDE DEF n
<1>5. Is(f)
  <2>1. ASSUME NEW i \in 0 .. n PROVE f[i] = IF i = 0 THEN ms ELSE AddOverload(f[i - 1], ms[i])
    <3>1. CASE i = 0
      BY <3>1, <1>4
    <3>2. CASE i # 0
      <4>1. i \in 1 .. n /\ i - 1 \in 0 .. n
        BY <3>2, <1>1
      <4>2. f[i - 1] \in V /\ ms[i] \in X
        BY <4>1, <1>1
      <4>. QED
        BY <3>2, <4>1, <4>2, <1>3, <1>4
    <3>. QED
      BY <3>1, <3>2
  <2>. QED
    BY <2>1
<1>. DEFINE after == CHOOSE h : Is(h)
<1>6. Is(after)
  BY <1>5
<1>7. AddOverloads(ms) = after[n]
  BY DEF AddOverloads, AddOverload, Overloaded, n
<1>. HIDE DEF after
<1>8. after[0] = ms /\ \A i \in 1 .. n : after[i] = AddOverload(after[i - 1], ms[i])
  BY <1>1, <1>6
<1>. DEFINE Z == {i \in Nat : i \in 0 .. n => after[i] \in V}
<1>9. Nat \subseteq Z
  <2>1. 0 \in Z
    BY <1>1, <1>8
  <2>2. ASSUME NEW i \in Nat \ {0}, i - 1 \in Z PROVE i \in Z
    <3>. SUFFICES ASSUME i \in 0 .. n PROVE after[i] \in V
      OBVIOUS
    <3>1. i \in 1 .. n /\ i - 1 \in 0 .. n
      BY <1>1
    <3>2. after[i - 1] \in V
      BY <2>2, <3>1
    <3>. QED
      BY <3>1, <3>2, <1>1, <1>2, <1>8
  <2>. HIDE DEF Z
  <2>. QED
    BY <2>1, <2>2, Induction
<1>. QED
  BY <1>1, <1>7, <1>9 DEF V

LEMMA PreparseOk ==
    ASSUME WellFormed(header), NEW c \in Names PROVE MethodsOk(c, Preparse(c))
<1>1. MethodsOk(c, header[c].methods) /\ c \in Nat /\ c <= Tilde
  BY HeaderIs
<1>2. CASE c \notin Range(Keys)
  BY <1>1, <1>2 DEF Preparse
<1>3. CASE c \in Range(Keys)
  <2>1. Kind(c) = "class"
    <3>. DEFINE S == {k \in Names : header[k].listed /\ Kind(k) = "class"}
    <3>1. S \in SUBSET (1 .. Len(header)) /\ Len(header) \in Nat
      BY HeaderIs
    <3>2. Range(Keys) = S
      BY <3>1, SortedIs DEF Keys
    <3>. QED
      BY <1>3, <3>2
  <2>2. ClassOk(c, header[c].methods)
    BY <1>1, <2>1 DEF MethodsOk
  <2>3. ClassOk(c, Preparse(c))
    BY <1>1, <1>3, <2>2, PreparseParts, AddOverloadsOk, Zenon DEF Preparse
  <2>. QED
    BY <2>1, <2>3 DEF MethodsOk, ClassOk
<1>. QED
  BY <1>2, <1>3

-----------------------------------------------------------------------------
(* collectVirtualMethods, isVirtualOverriden and virtualMethodsForClass *)

Prepared == DOMAIN methods = Names /\ \A c \in Names : MethodsOk(c, methods[c])
Anything == UNION {MethodOf(c) : c \in Names}
\* a method of a class that is not a destructor, and one that a class can reimplement
Ordinary == {m \in Anything : /\ m.of \in Names /\ Kind(m.of) = "class" /\ m.kind # "dtor"
                              /\ m \in Range(methods[m.of])}
Reimplementable == {m \in Ordinary : NotPrivate(m)}
RankOk(rank) == /\ rank \in [Names -> 0 .. Len(header)]
                /\ \A c \in Names : \A i \in DOMAIN Bases(c) : rank[Bases(c)[i].class] < rank[c]
UpParts(bs, f) == [i \in DOMAIN bs |-> f[bs[i].class]]

LEMMA RankIs == ASSUME WellFormed(header) PROVE \E rank : RankOk(rank)
<1>1. Names = 1 .. Len(header) /\ Len(header) \in Nat
  BY HeaderIs
<1>2. PICK rank \in [Names -> Names] :
         \A c \in Names : \A i \in DOMAIN Bases(c) : rank[Bases(c)[i].class] < rank[c]
  BY DEF WellFormed, Names, Bases
<1>. QED
  BY <1>1, <1>2 DEF RankOk

LEMMA UpType ==
    ASSUME NEW S, NEW bs \in Seq(BaseType), NEW f, \A i \in DOMAIN bs : f[bs[i].class] \in Seq(S)
    PROVE  FlattenSeq(UpParts(bs, f)) \in Seq(S)
<1>1. DOMAIN bs = 1 .. Len(bs) /\ Len(bs) \in Nat
  OBVIOUS
<1>2. UpParts(bs, f) \in [1 .. Len(bs) -> Seq(S)]
  BY <1>1 DEF UpParts
<1>. HIDE DEF UpParts
<1>3. UpParts(bs, f) \in Seq(Seq(S))
  BY <1>1, <1>2, AFunctionIsASeq
<1>. QED
  BY <1>3, FlattenType

CollectStep(c, f) ==
    Among(methods[c], {m \in Range(methods[c]) : Virtual(m) /\ ~Dtor(m) /\ NotPrivate(m)})
        \o FlattenSeq(UpParts(Bases(c), f))

LEMMA OwnCollected ==
    ASSUME WellFormed(header), Prepared, NEW c \in Names, NEW T
    PROVE  LET own == Among(methods[c], T) IN
           /\ own \in Seq(Anything) /\ Range(own) = Range(methods[c]) \cap T
           /\ Range(own) \subseteq MethodOf(c)
           /\ Kind(c) = "template" => own = <<>>
<1>1. MethodsOk(c, methods[c]) /\ methods[c] \in Seq(MethodOf(c))
  BY DEF Prepared, MethodsOk
<1>2. MethodOf(c) \subseteq Anything
  BY DEF Anything
<1>3. Among(methods[c], T) \in Seq(MethodOf(c)) /\ Range(Among(methods[c], T)) = Range(methods[c]) \cap T
  BY <1>1, AmongType, AmongRange
<1>4. Kind(c) = "template" => Among(methods[c], T) = <<>>
  BY <1>1, AmongEmpty DEF MethodsOk
<1>. HIDE DEF Anything
<1>. QED
  BY <1>2, <1>3, <1>4, RangeIs

LEMMA CollectedIs ==
    ASSUME WellFormed(header), Prepared
    PROVE  Collected = [c \in Names |-> CollectStep(c, Collected)]
<1>. DEFINE N == Names
            V == Seq(Anything)
            g == [p \in N \X [N -> V] |-> CollectStep(p[1], p[2])]
            k == Len(header)
<1>1. PICK rank : RankOk(rank)
  BY RankIs
<1>2. k \in Nat /\ rank \in [N -> 0 .. k] /\ <<>> \in V
  BY <1>1, HeaderIs DEF RankOk
<1>3. ASSUME NEW c \in N, NEW f \in [N -> V] PROVE CollectStep(c, f) \in V
  <2>1. Bases(c) \in Seq(BaseType) /\ \A i \in DOMAIN Bases(c) : Bases(c)[i].class \in N
    BY HeaderIs
  <2>2. FlattenSeq(UpParts(Bases(c), f)) \in V
    BY <2>1, UpType
  <2>. DEFINE own == Among(methods[c], {m \in Range(methods[c]) : Virtual(m) /\ ~Dtor(m) /\ NotPrivate(m)})
  <2>3. own \in V
    BY OwnCollected
  <2>. HIDE DEF own
  <2>4. own \o FlattenSeq(UpParts(Bases(c), f)) \in V
    BY <2>2, <2>3
  <2>. QED
    BY <2>4 DEF own, CollectStep
<1>. HIDE DEF N, V, k
<1>4. g \in [N \X [N -> V] -> V] /\ \A c \in N : \A f \in [N -> V] : g[<<c, f>>] = CollectStep(c, f)
  BY <1>3
<1>. HIDE DEF g
<1>5. Ranked(g, N, V, rank)
  <2>. SUFFICES ASSUME NEW c \in N, NEW f \in [N -> V], NEW h \in [N -> V],
                       \A d \in N : rank[d] < rank[c] => f[d] = h[d]
                PROVE  g[<<c, f>>] = g[<<c, h>>]
    BY DEF Ranked
  <2>1. \A i \in DOMAIN Bases(c) : Bases(c)[i].class \in N /\ rank[Bases(c)[i].class] < rank[c]
    BY <1>1, HeaderIs DEF RankOk, N
  <2>2. UpParts(Bases(c), f) = UpParts(Bases(c), h)
    BY <2>1 DEF UpParts
  <2>. QED
    BY <2>2, <1>4 DEF CollectStep
<1>6. PICK f \in [N -> V] : Solves(f, g, N)
  BY <1>2, <1>4, <1>5, RankedRecursion, Zenon
<1>. DEFINE Is(h) == h = [c \in Names |-> CollectStep(c, h)]
<1>7. Is(f)
  <2>1. \A c \in N : f[c] = CollectStep(c, f)
    BY <1>6, <1>4 DEF Solves
  <2>. QED
    BY <2>1, <1>6 DEF N
<1>8. Is(CHOOSE h : Is(h))
  BY <1>7
<1>9. Collected = CHOOSE h : Is(h)
  BY DEF Collected, CollectStep, UpParts
<1>. QED
  BY <1>8, <1>9

LEMMA CollectedOk ==
    ASSUME WellFormed(header), Prepared, NEW c \in Names
    PROVE  /\ Kind(c) # "namespace" => Collected[c] \in Seq(Reimplementable)
           /\ Kind(c) = "namespace" => Collected[c] = <<>>
<1>1. PICK rank : RankOk(rank)
  BY RankIs
<1>. DEFINE T == {d \in Names : Kind(d) # "namespace" => Collected[d] \in Seq(Reimplementable)}
            k == Len(header)
            Mine(d) == Among(methods[d], {m \in Range(methods[d]) : Virtual(m) /\ ~Dtor(m) /\ NotPrivate(m)})
<1>2. \A d \in Names : Collected[d] = CollectStep(d, Collected)
  BY CollectedIs
<1>3. ASSUME NEW d \in Names, \A e \in Names : rank[e] < rank[d] => e \in T PROVE d \in T
  <2>. SUFFICES ASSUME Kind(d) # "namespace" PROVE Collected[d] \in Seq(Reimplementable)
    OBVIOUS
  <2>1. /\ Bases(d) \in Seq(BaseType)
        /\ \A i \in DOMAIN Bases(d) : /\ Bases(d)[i].class \in Names
                                     /\ Kind(Bases(d)[i].class) # "namespace"
                                     /\ rank[Bases(d)[i].class] < rank[d]
    BY <1>1, HeaderIs DEF RankOk
  <2>2. \A i \in DOMAIN Bases(d) : Collected[Bases(d)[i].class] \in Seq(Reimplementable)
    BY <2>1, <1>3
  <2>3. FlattenSeq(UpParts(Bases(d), Collected)) \in Seq(Reimplementable)
    BY <2>1, <2>2, UpType
  <2>4. Mine(d) \in Seq(Reimplementable)
    <3>1. Kind(d) \in {"class", "template", "namespace"}
      BY HeaderIs
    <3>2. /\ Mine(d) \in Seq(Anything) /\ Range(Mine(d)) \subseteq MethodOf(d)
          /\ Range(Mine(d)) = Range(methods[d]) \cap
                {m \in Range(methods[d]) : Virtual(m) /\ ~Dtor(m) /\ NotPrivate(m)}
          /\ Kind(d) = "template" => Mine(d) = <<>>
      BY OwnCollected
    <3>. HIDE DEF Mine
    <3>3. CASE Kind(d) = "template"
      BY <3>2, <3>3
    <3>4. CASE Kind(d) = "class"
      <4>1. ASSUME NEW m \in Range(Mine(d)) PROVE m \in Reimplementable
        <5>1. m \in MethodOf(d) /\ m \in Range(methods[d]) /\ ~Dtor(m) /\ NotPrivate(m)
          BY <3>2
        <5>2. m.of = d /\ m.kind # "dtor" /\ m \in Anything
          BY <5>1 DEF MethodOf, Dtor, Anything
        <5>. QED
          BY <5>1, <5>2, <3>4 DEF Reimplementable, Ordinary
      <4>. QED
        BY <3>2, <4>1, RangeIs
    <3>. QED
      BY <3>1, <3>3, <3>4
  <2>. HIDE DEF Mine
  <2>5. Collected[d] = Mine(d) \o FlattenSeq(UpParts(Bases(d), Collected))
    BY <1>2 DEF CollectStep, Mine
  <2>. QED
    BY <2>3, <2>4, <2>5
<1>4. c \in T
  <2>1. k \in Nat /\ rank \in [Names -> 0 .. k]
    BY <1>1, HeaderIs DEF RankOk
  <2>. HIDE DEF T, k
  <2>2. \A d \in Names : (\A e \in Names : rank[e] < rank[d] => e \in T) => d \in T
    BY <1>3
  <2>3. Names \subseteq T
    BY <2>1, <2>2, RankedTyped
  <2>. QED
    BY <2>3
<1>5. ASSUME Kind(c) = "namespace" PROVE Collected[c] = <<>>
  <2>1. Bases(c) = <<>> /\ UpParts(<<>>, Collected) = <<>>
    BY <1>5, HeaderIs DEF UpParts
  <2>2. Range(Mine(c)) = {}
    <3>1. /\ Mine(c) \in Seq(Anything)
          /\ Range(Mine(c)) = Range(methods[c]) \cap
                {m \in Range(methods[c]) : Virtual(m) /\ ~Dtor(m) /\ NotPrivate(m)}
      BY OwnCollected
    <3>2. \A m \in Range(methods[c]) : ~Virtual(m)
      BY <1>5 DEF Prepared, MethodsOk, Virtual
    <3>. HIDE DEF Mine
    <3>. QED
      BY <3>1, <3>2
  <2>3. Mine(c) = <<>>
    <3>1. Mine(c) \in Seq(Anything)
      BY OwnCollected
    <3>. HIDE DEF Mine
    <3>. QED
      BY <2>2, <3>1, NothingInRange
  <2>4. Collected[c] = <<>> \o FlattenSeq(<<>>)
    BY <1>2, <2>1, <2>3 DEF CollectStep
  <2>. QED
    BY <2>4, FlattenNone
<1>. QED
  BY <1>4, <1>5

LEMMA MinIs ==
    ASSUME NEW n \in Nat, NEW S \in SUBSET (1 .. n), S # {}
    PROVE  Min(S) \in S /\ \A y \in S : Min(S) <= y
<1>. DEFINE Least(Q) == \E x \in Q : \A y \in Q : x <= y
            Z == {k \in Nat : \A Q \in SUBSET Nat : (\E y \in Q : y <= k) => Least(Q)}
<1>1. 0 \in Z
  <2>1. ASSUME NEW Q \in SUBSET Nat, NEW y \in Q, y <= 0 PROVE Least(Q)
    <3>1. y = 0 /\ \A x \in Q : 0 <= x
      BY <2>1
    <3>. QED
      BY <3>1
  <2>. HIDE DEF Least
  <2>. QED
    BY <2>1
<1>2. ASSUME NEW k \in Nat \ {0}, k - 1 \in Z PROVE k \in Z
  <2>1. ASSUME NEW Q \in SUBSET Nat, NEW y \in Q, y <= k PROVE Least(Q)
    <3>1. CASE \E x \in Q : x <= k - 1
      BY <3>1, <1>2
    <3>2. CASE ~\E x \in Q : x <= k - 1
      <4>1. \A x \in Q : y <= x
        BY <3>2, <2>1
      <4>. QED
        BY <4>1
    <3>. QED
      BY <3>1, <3>2
  <2>. HIDE DEF Least
  <2>. QED
    BY <2>1
<1>. HIDE DEF Least
<1>3. Nat \subseteq Z
  BY <1>1, <1>2, Induction
<1>4. Least(S)
  <2>0. PICK y \in S : TRUE
    OBVIOUS
  <2>1. S \in SUBSET Nat /\ y <= n
    OBVIOUS
  <2>. QED
    BY <1>3, <2>1
<1>5. \E x \in S : \A y \in S : x <= y
  BY <1>4 DEF Least
<1>. QED
  BY <1>5 DEF Min

Until(m, k) == SelectInSeq(Bases(k), LAMBDA b : b.class = m.of)
UpTo(m, k) == IF Until(m, k) = 0 THEN Bases(k) ELSE SubSeq(Bases(k), 1, Until(m, k) - 1)
First(found) == SubSeq(found, 1, IF found = <<>> THEN 0 ELSE 1)
OwnOver(m, k) == Among(methods[k], {o \in Range(methods[k]) : ~o.static /\ Same(o, m)})
OverStep(m, k, f) ==
    IF k = m.of THEN <<>> ELSE IF OwnOver(m, k) # <<>> THEN <<OwnOver(m, k)[1]>>
    ELSE First(FlattenSeq(UpParts(UpTo(m, k), f)))

LEMMA UpToIs ==
    ASSUME WellFormed(header), NEW k \in Names, NEW m
    PROVE  /\ UpTo(m, k) \in Seq(BaseType)
           /\ \A i \in DOMAIN UpTo(m, k) : i \in DOMAIN Bases(k) /\ UpTo(m, k)[i] = Bases(k)[i]
<1>. DEFINE bs == Bases(k)
            I == {i \in 1 .. Len(bs) : bs[i].class = m.of}
<1>1. bs \in Seq(BaseType) /\ Len(bs) \in Nat /\ DOMAIN bs = 1 .. Len(bs)
  BY HeaderIs
<1>2. Until(m, k) = IF I # {} THEN Min(I) ELSE 0
  BY DEF Until, SelectInSeq
<1>. HIDE DEF bs
<1>3. Until(m, k) \in 0 .. Len(bs)
  <2>1. CASE I # {}
    <3>1. I \in SUBSET (1 .. Len(bs))
      OBVIOUS
    <3>2. Min(I) \in I
      BY <1>1, <2>1, <3>1, MinIs
    <3>. QED
      BY <1>1, <1>2, <2>1, <3>2
  <2>2. CASE I = {}
    BY <1>1, <1>2, <2>2
  <2>. QED
    BY <2>1, <2>2
<1>. DEFINE u == Until(m, k)
<1>4. CASE u = 0
  BY <1>1, <1>4 DEF UpTo, bs
<1>5. CASE u # 0
  <2>1. UpTo(m, k) = SubSeq(bs, 1, u - 1)
    BY <1>5 DEF UpTo, bs
  <2>. HIDE DEF u
  <2>2. u \in 1 .. Len(bs)
    BY <1>3, <1>5 DEF u
  <2>3. /\ SubSeq(bs, 1, u - 1) \in Seq(BaseType) /\ Len(SubSeq(bs, 1, u - 1)) = u - 1
        /\ \A i \in 1 .. u - 1 : i \in 1 .. Len(bs) /\ SubSeq(bs, 1, u - 1)[i] = bs[i]
    BY <1>1, <2>2
  <2>. QED
    BY <1>1, <2>1, <2>2, <2>3 DEF bs
<1>. QED
  BY <1>4, <1>5

LEMMA OverStepType ==
    ASSUME WellFormed(header), Prepared, NEW k \in Names, NEW m, NEW S, NEW f,
           \A i \in DOMAIN Bases(k) : f[Bases(k)[i].class] \in Seq(S),
           k # m.of => OwnOver(m, k) \in Seq(S)
    PROVE  OverStep(m, k, f) \in Seq(S)
<1>1. UpTo(m, k) \in Seq(BaseType) /\ \A i \in DOMAIN UpTo(m, k) : f[UpTo(m, k)[i].class] \in Seq(S)
  BY UpToIs
<1>. DEFINE found == FlattenSeq(UpParts(UpTo(m, k), f))
<1>2. found \in Seq(S)
  BY <1>1, UpType
<1>. HIDE DEF found
<1>3. First(found) \in Seq(S)
  <2>1. CASE found = <<>>
    BY <2>1 DEF First
  <2>2. CASE found # <<>>
    BY <1>2, <2>2 DEF First
  <2>. QED
    BY <2>1, <2>2
<1>4. CASE k = m.of
  BY <1>4 DEF OverStep
<1>5. CASE k # m.of
  <2>1. CASE OwnOver(m, k) # <<>>
    <3>1. OwnOver(m, k) \in Seq(S)
      BY <1>5
    <3>2. OwnOver(m, k)[1] \in S
      BY <2>1, <3>1
    <3>. QED
      BY <1>5, <2>1, <3>2 DEF OverStep
  <2>2. CASE OwnOver(m, k) = <<>>
    BY <1>3, <1>5, <2>2 DEF OverStep, found
  <2>. QED
    BY <2>1, <2>2
<1>. QED
  BY <1>4, <1>5

Overriders(m) == CHOOSE f : f = [k \in Names |-> OverStep(m, k, f)]

LEMMA OverridersAre ==
    ASSUME WellFormed(header), Prepared, NEW m
    PROVE  /\ Overriders(m) = [k \in Names |-> OverStep(m, k, Overriders(m))]
           /\ \A c : Overrider(m, c) = Overriders(m)[c]
<1>. DEFINE N == Names
            V == Seq(Anything)
            g == [p \in N \X [N -> V] |-> OverStep(m, p[1], p[2])]
            n == Len(header)
<1>1. PICK rank : RankOk(rank)
  BY RankIs
<1>2. n \in Nat /\ rank \in [N -> 0 .. n] /\ <<>> \in V
  BY <1>1, HeaderIs DEF RankOk
<1>3. ASSUME NEW k \in N, NEW f \in [N -> V] PROVE OverStep(m, k, f) \in V
  <2>1. \A i \in DOMAIN Bases(k) : Bases(k)[i].class \in N
    BY HeaderIs
  <2>2. \A i \in DOMAIN Bases(k) : f[Bases(k)[i].class] \in Seq(Anything)
    BY <2>1
  <2>3. OwnOver(m, k) \in Seq(Anything)
    BY OwnCollected DEF OwnOver
  <2>. QED
    BY <2>2, <2>3, OverStepType
<1>. HIDE DEF N, V, n
<1>4. g \in [N \X [N -> V] -> V] /\ \A c \in N : \A f \in [N -> V] : g[<<c, f>>] = OverStep(m, c, f)
  BY <1>3
<1>. HIDE DEF g
<1>5. Ranked(g, N, V, rank)
  <2>. SUFFICES ASSUME NEW c \in N, NEW f \in [N -> V], NEW h \in [N -> V],
                       \A d \in N : rank[d] < rank[c] => f[d] = h[d]
                PROVE  g[<<c, f>>] = g[<<c, h>>]
    BY DEF Ranked
  <2>1. \A i \in DOMAIN Bases(c) : Bases(c)[i].class \in N /\ rank[Bases(c)[i].class] < rank[c]
    BY <1>1, HeaderIs DEF RankOk, N
  <2>2. \A i \in DOMAIN UpTo(m, c) : i \in DOMAIN Bases(c) /\ UpTo(m, c)[i] = Bases(c)[i]
    BY UpToIs DEF N
  <2>3. UpParts(UpTo(m, c), f) = UpParts(UpTo(m, c), h)
    BY <2>1, <2>2 DEF UpParts
  <2>4. OverStep(m, c, f) = OverStep(m, c, h)
    BY <2>3 DEF OverStep
  <2>. QED
    BY <2>4, <1>4
<1>6. PICK f \in [N -> V] : Solves(f, g, N)
  BY <1>2, <1>4, <1>5, RankedRecursion, Zenon
<1>. DEFINE Is(h) == h = [k \in Names |-> OverStep(m, k, h)]
<1>7. Is(f)
  <2>1. \A c \in N : f[c] = OverStep(m, c, f)
    BY <1>6, <1>4 DEF Solves
  <2>. QED
    BY <2>1, <1>6 DEF N
<1>8. Is(CHOOSE h : Is(h))
  BY <1>7
<1>9. Overriders(m) = CHOOSE h : Is(h)
  BY DEF Overriders
<1>10. \A c : Overrider(m, c) = Overriders(m)[c]
  BY DEF Overrider, Overriders, OverStep, OwnOver, UpTo, Until, First, UpParts
<1>. QED
  BY <1>8, <1>9, <1>10

LEMMA OwnOverOk ==
    ASSUME WellFormed(header), Prepared, NEW m \in Ordinary, NEW k \in Names, Kind(k) # "namespace"
    PROVE  OwnOver(m, k) \in Seq(Ordinary)
<1>1. Kind(k) \in {"class", "template", "namespace"} /\ k \in Nat \ {0} /\ Tilde \in Nat
  BY HeaderIs, TablesAssumption
<1>2. /\ OwnOver(m, k) \in Seq(Anything) /\ Range(OwnOver(m, k)) \subseteq MethodOf(k)
      /\ Range(OwnOver(m, k)) = Range(methods[k]) \cap
            {o \in Range(methods[k]) : ~o.static /\ Same(o, m)}
      /\ Kind(k) = "template" => OwnOver(m, k) = <<>>
  BY OwnCollected DEF OwnOver
<1>3. CASE Kind(k) = "template"
  BY <1>2, <1>3
<1>4. CASE Kind(k) = "class"
  <2>1. m.name <= Tilde
    <3>1. PICK c \in Names : m \in MethodOf(c)
      BY DEF Ordinary, Anything
    <3>2. m.kind # "dtor"
      BY DEF Ordinary
    <3>. QED
      BY <3>1, <3>2 DEF MethodOf
  <2>2. ASSUME NEW o \in Range(OwnOver(m, k)) PROVE o \in Ordinary
    <3>1. o \in MethodOf(k) /\ o \in Range(methods[k]) /\ Same(o, m)
      BY <1>2
    <3>2. o.kind # "dtor"
      <4>1. o.kind = "dtor" => o.name = Tilde + k
        BY <3>1 DEF MethodOf, DtorName
      <4>2. o.name = m.name
        BY <3>1 DEF Same
      <4>3. m.name # Tilde + k
        <5>1. m.name \in Nat
          BY DEF Ordinary, Anything, MethodOf
        <5>. QED
          BY <5>1, <1>1, <2>1
      <4>. QED
        BY <4>1, <4>2, <4>3
    <3>3. o.of = k /\ o \in Anything
      BY <3>1 DEF MethodOf, Anything
    <3>. QED
      BY <3>1, <3>2, <3>3, <1>4 DEF Ordinary
  <2>. QED
    BY <1>2, <2>2, RangeIs
<1>. QED
  BY <1>1, <1>3, <1>4

LEMMA OverriderOk ==
    ASSUME WellFormed(header), Prepared, NEW m \in Ordinary, NEW c \in Names, Kind(c) # "namespace"
    PROVE  Overrider(m, c) \in Seq(Ordinary) /\ (c = m.of => Overrider(m, c) = <<>>)
<1>1. PICK rank : RankOk(rank)
  BY RankIs
<1>. DEFINE T == {d \in Names : Kind(d) # "namespace" => Overriders(m)[d] \in Seq(Ordinary)}
            n == Len(header)
<1>2. \A d \in Names : Overriders(m)[d] = OverStep(m, d, Overriders(m))
  BY OverridersAre
<1>3. ASSUME NEW d \in Names, \A e \in Names : rank[e] < rank[d] => e \in T PROVE d \in T
  <2>. SUFFICES ASSUME Kind(d) # "namespace" PROVE Overriders(m)[d] \in Seq(Ordinary)
    OBVIOUS
  <2>1. \A i \in DOMAIN Bases(d) : /\ Bases(d)[i].class \in Names
                                   /\ Kind(Bases(d)[i].class) # "namespace"
                                   /\ rank[Bases(d)[i].class] < rank[d]
    BY <1>1, HeaderIs DEF RankOk
  <2>2. \A i \in DOMAIN Bases(d) : Overriders(m)[Bases(d)[i].class] \in Seq(Ordinary)
    BY <2>1, <1>3
  <2>3. OwnOver(m, d) \in Seq(Ordinary)
    BY OwnOverOk
  <2>4. OverStep(m, d, Overriders(m)) \in Seq(Ordinary)
    BY <2>2, <2>3, OverStepType
  <2>. QED
    BY <1>2, <2>4
<1>4. c \in T
  <2>1. n \in Nat /\ rank \in [Names -> 0 .. n]
    BY <1>1, HeaderIs DEF RankOk
  <2>. HIDE DEF T, n
  <2>2. \A d \in Names : (\A e \in Names : rank[e] < rank[d] => e \in T) => d \in T
    BY <1>3
  <2>3. Names \subseteq T
    BY <2>1, <2>2, RankedTyped
  <2>. QED
    BY <2>3
<1>5. c = m.of => Overriders(m)[c] = <<>>
  BY <1>2 DEF OverStep
<1>. QED
  BY <1>4, <1>5, OverridersAre

Last1(m, c) == IF Overrider(m, c) = <<>> THEN m ELSE Overrider(m, c)[1]
AddLast(c, ret, m, last) ==
    IF m.of # c /\ (~NotPrivate(last) \/ Has(ret, LAMBDA k : Same(k, last)))
    THEN ret ELSE Append(ret, last)
AddVirtual(c, ret, m) == AddLast(c, ret, m, Last1(m, c))

LEMMA VirtualMethodsOk ==
    ASSUME WellFormed(header), Prepared, NEW c \in Names
    PROVE  /\ VirtualMethods(c) \in Seq(Reimplementable)
           /\ Kind(c) = "namespace" => VirtualMethods(c) = <<>>
<1>. DEFINE X == {m \in Reimplementable : Kind(c) # "namespace"}
            V == Seq(X)
            all == Collected[c]
            n == Len(all)
            last == Latest(c)
            Is(f) == f = [i \in 0 .. n |-> IF i = 0 THEN <<>> ELSE AddLast(c, f[i - 1], all[i], last[i])]
            g == [p \in V \X X |-> AddVirtual(c, p[1], p[2])]
<1>1. all \in Seq(X)
  <2>1. CASE Kind(c) # "namespace"
    <3>1. X = Reimplementable /\ all \in Seq(Reimplementable)
      BY <2>1, CollectedOk
    <3>. QED
      BY <3>1
  <2>2. CASE Kind(c) = "namespace"
    <3>1. all = <<>>
      BY <2>2, CollectedOk
    <3>. QED
      BY <3>1
  <2>. QED
    BY <2>1, <2>2
<1>. HIDE DEF X
<1>0. \A i \in 1 .. n : last[i] = Last1(all[i], c)
  <2>1. DOMAIN all = 1 .. n
    BY <1>1
  <2>. QED
    BY <2>1 DEF Latest, Last1
<1>. USE DEF X
<1>. HIDE DEF all, last
<1>2. n \in Nat /\ \A i \in 1 .. n : all[i] \in X
  BY <1>1
<1>3. ASSUME NEW ret \in V, NEW m \in X PROVE AddVirtual(c, ret, m) \in V
  <2>1. m \in Ordinary /\ NotPrivate(m) /\ Kind(c) # "namespace"
    BY DEF Reimplementable
  <2>2. Overrider(m, c) \in Seq(Ordinary) /\ (c = m.of => Overrider(m, c) = <<>>)
    BY <2>1, OverriderOk
  <2>3. Last1(m, c) \in Ordinary /\ (c = m.of => Last1(m, c) = m)
    BY <2>1, <2>2 DEF Last1
  <2>4. CASE AddVirtual(c, ret, m) = ret
    BY <2>4
  <2>5. CASE AddVirtual(c, ret, m) # ret
    <3>1. AddVirtual(c, ret, m) = Append(ret, Last1(m, c)) /\ (m.of = c \/ NotPrivate(Last1(m, c)))
      BY <2>5 DEF AddVirtual, AddLast
    <3>2. Last1(m, c) \in X
      BY <2>1, <2>3, <3>1 DEF Reimplementable
    <3>. HIDE DEF X
    <3>. QED
      BY <3>1, <3>2
  <2>. QED
    BY <2>4, <2>5
<1>. HIDE DEF X
<1>4. <<>> \in V
  OBVIOUS
<1>. HIDE DEF V
<1>5. g \in [V \X X -> V] /\ \A v \in V : \A m \in X : g[<<v, m>>] = AddVirtual(c, v, m)
  BY <1>3
<1>. HIDE DEF g
<1>6. PICK f \in [0 .. n -> V] : f[0] = <<>> /\ \A i \in 1 .. n : f[i] = g[<<f[i - 1], all[i]>>]
  <2>2. \E f \in [0 .. n -> V] : FoldsTo(f, <<>>, g, all)
    BY <1>1, <1>4, <1>5, FoldExists, Zenon
  <2>. QED
    BY <2>2 DEF FoldsTo
<1>. HIDE DEF n
<1>7. Is(f)
  <2>1. ASSUME NEW i \in 0 .. n
        PROVE  f[i] = IF i = 0 THEN <<>> ELSE AddLast(c, f[i - 1], all[i], last[i])
    <3>1. CASE i = 0
      BY <3>1, <1>6
    <3>2. CASE i # 0
      <4>1. i \in 1 .. n /\ i - 1 \in 0 .. n
        BY <3>2, <1>2
      <4>2. f[i - 1] \in V /\ all[i] \in X
        BY <4>1, <1>2
      <4>3. f[i] = AddVirtual(c, f[i - 1], all[i])
        BY <4>1, <4>2, <1>5, <1>6
      <4>4. last[i] = Last1(all[i], c)
        BY <4>1, <1>0
      <4>. QED
        BY <3>2, <4>3, <4>4 DEF AddVirtual
    <3>. QED
      BY <3>1, <3>2
  <2>. QED
    BY <2>1
<1>. DEFINE after == CHOOSE h : Is(h)
<1>8. Is(after)
  BY <1>7
<1>9. VirtualMethods(c) = IF Instanciable(c) THEN after[n] ELSE <<>>
  BY DEF VirtualMethods, AddLast, n, all, last
<1>. HIDE DEF after
<1>10. after[0] = <<>> /\ \A i \in 1 .. n : after[i] = AddVirtual(c, after[i - 1], all[i])
  <2>1. after[0] = <<>> /\ \A i \in 1 .. n : after[i] = AddLast(c, after[i - 1], all[i], last[i])
    BY <1>2, <1>8
  <2>. QED
    BY <2>1, <1>0 DEF AddVirtual
<1>. DEFINE Z == {i \in Nat : i \in 0 .. n => after[i] \in V}
<1>11. Nat \subseteq Z
  <2>1. 0 \in Z
    BY <1>4, <1>10
  <2>2. ASSUME NEW i \in Nat \ {0}, i - 1 \in Z PROVE i \in Z
    <3>. SUFFICES ASSUME i \in 0 .. n PROVE after[i] \in V
      OBVIOUS
    <3>1. i \in 1 .. n /\ i - 1 \in 0 .. n
      BY <1>2
    <3>2. after[i - 1] \in V
      BY <2>2, <3>1
    <3>. QED
      BY <3>1, <3>2, <1>2, <1>3, <1>10
  <2>. HIDE DEF Z
  <2>. QED
    BY <2>1, <2>2, Induction
<1>12. VirtualMethods(c) \in V
  BY <1>2, <1>4, <1>9, <1>11
<1>13. ASSUME Kind(c) = "namespace" PROVE VirtualMethods(c) = <<>>
  <2>1. X = {}
    BY <1>13 DEF X
  <2>2. VirtualMethods(c) \in Seq({})
    BY <1>12, <2>1 DEF V
  <2>3. Range(VirtualMethods(c)) = {}
    BY <2>2, RangeIs
  <2>. QED
    BY <2>2, <2>3, NothingInRange
<1>14. VirtualMethods(c) \in Seq(Reimplementable)
  <2>1. X \subseteq Reimplementable
    BY DEF X
  <2>2. VirtualMethods(c) \in Seq(X)
    BY <1>12 DEF V
  <2>. QED
    BY <2>1, <2>2
<1>. QED
  BY <1>13, <1>14

-----------------------------------------------------------------------------
(* The tables *)

Index0(virtual) == Range(Keys) \cup Namespaces \cup NeededClasses(virtual)
IndexedOk == /\ WellFormed(header) /\ Prepared
             /\ declared = [c \in Names |-> {m \in Overridable : m.of = c}]
             /\ classIndex = Sorted(Index0(Overridable))
             /\ included = Keys \o Sorted(Namespaces)

LEMMA KeysAre ==
    ASSUME WellFormed(header)
    PROVE  /\ Keys \in Seq(Names) /\ Distinct(Keys)
           /\ Range(Keys) = {c \in Names : header[c].listed /\ Kind(c) = "class"}
           /\ Sorted(Namespaces) \in Seq(Names) /\ Distinct(Sorted(Namespaces))
           /\ Range(Sorted(Namespaces)) = Namespaces
<1>. DEFINE S == {c \in Names : header[c].listed /\ Kind(c) = "class"}
<1>1. Names = 1 .. Len(header) /\ Len(header) \in Nat
  BY HeaderIs
<1>2. S \in SUBSET (1 .. Len(header)) /\ Namespaces \in SUBSET (1 .. Len(header))
  BY <1>1 DEF Namespaces
<1>3. Keys = Sorted(S)
  BY DEF Keys
<1>. HIDE DEF S
<1>4. Sorted(S) \in Seq(S) /\ Range(Sorted(S)) = S /\ Distinct(Sorted(S))
  BY <1>1, <1>2, SortedIs
<1>5. /\ Sorted(Namespaces) \in Seq(Namespaces) /\ Range(Sorted(Namespaces)) = Namespaces
      /\ Distinct(Sorted(Namespaces))
  BY <1>1, <1>2, SortedIs
<1>6. Keys \in Seq(Names) /\ Sorted(Namespaces) \in Seq(Names)
  <2>1. S \subseteq Names /\ Namespaces \subseteq Names
    BY <1>1, <1>2
  <2>2. Keys \in Seq(Names)
    BY <1>3, <1>4, <2>1
  <2>3. Sorted(Namespaces) \in Seq(Names)
    BY <1>5, <2>1
  <2>. QED
    BY <2>2, <2>3
<1>. QED
  BY <1>3, <1>4, <1>5, <1>6 DEF S

LEMMA IncludedAre ==
    ASSUME IndexedOk
    PROVE  /\ included \in Seq(Names) /\ Distinct(included)
           /\ Range(included) = Range(Keys) \cup Namespaces
           /\ \A c \in Range(included) : c \in Names /\ Kind(c) \in {"class", "namespace"}
<1>1. WellFormed(header) /\ included = Keys \o Sorted(Namespaces)
  BY DEF IndexedOk
<1>2. Range(included) = Range(Keys) \cup Namespaces
  BY <1>1, KeysAre, RangeConcat
<1>3. Range(Keys) \cap Range(Sorted(Namespaces)) = {}
  BY <1>1, KeysAre DEF Namespaces
<1>4. Distinct(included)
  BY <1>1, <1>3, KeysAre, DistinctConcat
<1>5. included \in Seq(Names)
  BY <1>1, KeysAre
<1>6. \A c \in Range(included) : c \in Names /\ Kind(c) \in {"class", "namespace"}
  BY <1>1, <1>2, KeysAre DEF Namespaces
<1>. QED
  BY <1>2, <1>4, <1>5, <1>6

LEMMA ClassIndexIs ==
    ASSUME IndexedOk
    PROVE  /\ classIndex \in Seq(Names) /\ Distinct(classIndex)
           /\ Range(classIndex) = Index0(Overridable)
           /\ \A c \in Range(classIndex) : Index(c) \in 1 .. Len(classIndex) /\ classIndex[Index(c)] = c
<1>1. Names = 1 .. Len(header) /\ Len(header) \in Nat /\ classIndex = Sorted(Index0(Overridable))
  BY HeaderIs DEF IndexedOk
<1>2. Index0(Overridable) \in SUBSET (1 .. Len(header))
  <2>1. Range(Keys) \subseteq Names
    BY KeysAre DEF IndexedOk
  <2>. QED
    BY <1>1, <2>1 DEF Index0, NeededClasses, Namespaces
<1>. DEFINE S == Index0(Overridable)
<1>3. Sorted(S) \in Seq(S) /\ Range(Sorted(S)) = S /\ Distinct(Sorted(S))
  <2>. HIDE DEF S
  <2>1. S \in SUBSET (1 .. Len(header))
    BY <1>2 DEF S
  <2>. QED
    BY <1>1, <2>1, SortedIs
<1>. HIDE DEF S
<1>4. classIndex \in Seq(Names) /\ Distinct(classIndex) /\ Range(classIndex) = S
  BY <1>1, <1>2, <1>3 DEF S
<1>5. ASSUME NEW c \in Range(classIndex)
      PROVE  Index(c) \in 1 .. Len(classIndex) /\ classIndex[Index(c)] = c
  <2>. DEFINE I == {i \in 1 .. Len(classIndex) : classIndex[i] = c}
  <2>1. Index(c) = IF I # {} THEN Min(I) ELSE 0
    BY DEF Index, SelectInSeq
  <2>2. I # {} /\ I \in SUBSET (1 .. Len(classIndex)) /\ Len(classIndex) \in Nat
    BY <1>4, <1>5, RangeIs
  <2>3. Min(I) \in I
    <3>. HIDE DEF I
    <3>. QED
      BY <2>2, MinIs
  <2>. QED
    BY <2>1, <2>2, <2>3
<1>. QED
  BY <1>4, <1>5 DEF S

Enumerated(c) == {[Made(c, "enum", <<>>) EXCEPT !.name = n] : n \in Nat}
Members(c) == MethodOf(c) \cup Enumerated(c)
OwnRows(c) == Callable(c) \o Enumerators(c) \o Dtors(c)
Listed(c) == IF External(c) THEN Among(methods[c], declared[c]) ELSE OwnRows(c)

LEMMA EnumeratorsAre ==
    ASSUME WellFormed(header), NEW c \in Names PROVE Enumerators(c) \in Seq(Enumerated(c))
<1>. DEFINE seen == Among(header[c].enums, {e \in Range(header[c].enums) : NotPrivate(e)})
            Each(e) == [i \in DOMAIN e.members |-> [Made(c, "enum", <<>>) EXCEPT !.name = e.members[i]]]
            parts == [i \in DOMAIN seen |-> Each(seen[i])]
<1>1. header[c].enums \in Seq(EnumType)
  BY HeaderIs
<1>2. seen \in Seq(EnumType)
  BY <1>1, AmongType
<1>3. Enumerators(c) = FlattenSeq(parts)
  BY DEF Enumerators
<1>. HIDE DEF seen
<1>4. ASSUME NEW e \in EnumType PROVE Each(e) \in Seq(Enumerated(c))
  <2>1. e.members \in Seq(Nat)
    BY DEF EnumType
  <2>2. DOMAIN e.members = 1 .. Len(e.members) /\ Len(e.members) \in Nat
    BY <2>1
  <2>3. Each(e) \in [1 .. Len(e.members) -> Enumerated(c)]
    <3>1. \A n \in Nat : [Made(c, "enum", <<>>) EXCEPT !.name = n] \in Enumerated(c)
      BY DEF Enumerated
    <3>2. \A i \in 1 .. Len(e.members) : e.members[i] \in Nat
      BY <2>1, <2>2
    <3>. QED
      BY <2>2, <3>1, <3>2
  <2>. HIDE DEF Each
  <2>. QED
    BY <2>2, <2>3, AFunctionIsASeq
<1>. HIDE DEF Each
<1>5. DOMAIN seen = 1 .. Len(seen) /\ Len(seen) \in Nat
  BY <1>2
<1>6. parts \in [1 .. Len(seen) -> Seq(Enumerated(c))]
  BY <1>2, <1>4, <1>5
<1>. HIDE DEF parts
<1>7. parts \in Seq(Seq(Enumerated(c)))
  BY <1>5, <1>6, AFunctionIsASeq
<1>. QED
  BY <1>3, <1>7, FlattenType

LEMMA OwnRowsAre ==
    ASSUME WellFormed(header), Prepared, NEW c \in Names
    PROVE  /\ Callable(c) \in Seq(MethodOf(c)) /\ Dtors(c) \in Seq(MethodOf(c))
           /\ Enumerators(c) \in Seq(Enumerated(c)) /\ OwnRows(c) \in Seq(Members(c))
           /\ Range(Callable(c)) = {m \in Range(methods[c]) : NotPrivate(m) /\ ~Dtor(m)}
           /\ Range(Dtors(c)) = {m \in Range(methods[c]) : NotPrivate(m) /\ Dtor(m)}
           /\ Kind(c) = "class" => Distinct(Callable(c))
<1>1. methods[c] \in Seq(MethodOf(c)) /\ (Kind(c) = "class" => Distinct(methods[c]))
  BY DEF Prepared, MethodsOk, ClassOk
<1>2. Callable(c) \in Seq(MethodOf(c)) /\ Dtors(c) \in Seq(MethodOf(c))
  BY <1>1, AmongType DEF Callable, Dtors
<1>3. /\ Range(Callable(c)) = {m \in Range(methods[c]) : NotPrivate(m) /\ ~Dtor(m)}
      /\ Range(Dtors(c)) = {m \in Range(methods[c]) : NotPrivate(m) /\ Dtor(m)}
  BY <1>1, AmongRange DEF Callable, Dtors
<1>4. Kind(c) = "class" => Distinct(Callable(c))
  BY <1>1, AmongDistinct DEF Callable
<1>5. Enumerators(c) \in Seq(Enumerated(c))
  BY EnumeratorsAre
<1>. DEFINE A == Members(c)
<1>6. Callable(c) \in Seq(A) /\ Dtors(c) \in Seq(A) /\ Enumerators(c) \in Seq(A)
  <2>1. MethodOf(c) \subseteq A /\ Enumerated(c) \subseteq A
    BY DEF Members
  <2>. HIDE DEF A
  <2>. QED
    BY <1>2, <1>5, <2>1
<1>7. OwnRows(c) \in Seq(A)
  <2>. HIDE DEF A
  <2>. QED
    BY <1>6 DEF OwnRows
<1>. QED
  BY <1>2, <1>3, <1>4, <1>5, <1>7

LEMMA MembersAre ==
    ASSUME NEW c, NEW m \in Members(c)
    PROVE  m.of = c /\ (m.kind = "enum" <=> m \in Enumerated(c))
<1>1. CASE m \in MethodOf(c)
  <2>1. m.of = c /\ m.kind # "enum"
    BY <1>1 DEF MethodOf
  <2>2. \A e \in Enumerated(c) : e.kind = "enum"
    BY DEF Enumerated, Made
  <2>. QED
    BY <2>1, <2>2
<1>2. CASE m \in Enumerated(c)
  BY <1>2 DEF Enumerated, Made
<1>. QED
  BY <1>1, <1>2 DEF Members

RowOf(c, i) == [class |-> Index(c), member |-> Listed(c)[i], xcall |-> IF External(c) THEN 0 ELSE i]
AllRows == UNION {Range(Rows(c)) : c \in Names}

LEMMA RowsAre ==
    ASSUME IndexedOk, NEW c \in Names
    PROVE  /\ Listed(c) \in Seq(Members(c))
           /\ Rows(c) \in Seq(AllRows) /\ Len(Rows(c)) = Len(Listed(c))
           /\ \A i \in 1 .. Len(Listed(c)) : Rows(c)[i] = RowOf(c, i)
<1>1. WellFormed(header) /\ Prepared
  BY DEF IndexedOk
<1>2. Listed(c) \in Seq(Members(c))
  <2>1. CASE External(c)
    <3>1. Listed(c) = Among(methods[c], declared[c]) /\ methods[c] \in Seq(MethodOf(c))
      BY <1>1, <2>1 DEF Listed, Prepared, MethodsOk
    <3>2. Listed(c) \in Seq(MethodOf(c))
      BY <3>1, AmongType
    <3>3. MethodOf(c) \subseteq Members(c)
      BY DEF Members
    <3>. QED
      BY <3>2, <3>3
  <2>2. CASE ~External(c)
    BY <1>1, <2>2, OwnRowsAre DEF Listed
  <2>. QED
    BY <2>1, <2>2
<1>3. Rows(c) = [i \in DOMAIN Listed(c) |-> RowOf(c, i)]
  BY DEF Rows, RowOf, Listed, OwnRows
<1>. DEFINE n == Len(Listed(c))
<1>4. DOMAIN Listed(c) = 1 .. n /\ n \in Nat
  BY <1>2
<1>5. DOMAIN Rows(c) = 1 .. n /\ \A i \in 1 .. n : Rows(c)[i] = RowOf(c, i)
  BY <1>3, <1>4
<1>6. Rows(c) \in [1 .. n -> AllRows]
  <2>1. \A i \in 1 .. n : Rows(c)[i] \in Range(Rows(c))
    BY <1>5 DEF Range
  <2>2. Range(Rows(c)) \subseteq AllRows
    BY DEF AllRows
  <2>3. Rows(c) = [i \in 1 .. n |-> Rows(c)[i]]
    BY <1>3, <1>4
  <2>. QED
    BY <2>1, <2>2, <2>3
<1>. HIDE DEF n
<1>7. Rows(c) \in Seq(AllRows) /\ Len(Rows(c)) = n
  BY <1>4, <1>6, AFunctionIsASeq
<1>. QED
  BY <1>2, <1>5, <1>7 DEF n

TableParts == [i \in DOMAIN classIndex |-> Rows(classIndex[i])]

LEMMA TableIs ==
    ASSUME IndexedOk
    PROVE  /\ TableParts \in Seq(Seq(AllRows)) /\ Len(TableParts) = Len(classIndex)
           /\ MethodTable = FlattenSeq(TableParts) /\ MethodTable \in Seq(AllRows)
           /\ \A i \in 1 .. Len(classIndex) : TableParts[i] = Rows(classIndex[i])
<1>1. /\ DOMAIN classIndex = 1 .. Len(classIndex) /\ Len(classIndex) \in Nat
      /\ \A i \in 1 .. Len(classIndex) : classIndex[i] \in Names
  BY ClassIndexIs
<1>2. \A i \in 1 .. Len(classIndex) : TableParts[i] = Rows(classIndex[i])
  BY <1>1 DEF TableParts
<1>3. TableParts \in [1 .. Len(classIndex) -> Seq(AllRows)]
  <2>1. \A c \in Names : Rows(c) \in Seq(AllRows)
    BY RowsAre
  <2>. QED
    BY <1>1, <2>1 DEF TableParts
<1>4. TableParts \in Seq(Seq(AllRows)) /\ Len(TableParts) = Len(classIndex)
  BY <1>1, <1>3, AFunctionIsASeq
<1>5. MethodTable = FlattenSeq(TableParts)
  BY DEF MethodTable, TableParts
<1>. QED
  BY <1>2, <1>4, <1>5, FlattenType

LEMMA RowFound ==
    ASSUME IndexedOk, NEW r \in Range(MethodTable)
    PROVE  \E c \in Range(classIndex) : \E i \in 1 .. Len(Listed(c)) : r = RowOf(c, i)
<1>1. PICK k \in 1 .. Len(classIndex) : r \in Range(Rows(classIndex[k]))
  BY TableIs, FlattenRange
<1>. DEFINE c == classIndex[k]
<1>2. c \in Range(classIndex) /\ c \in Names
  BY ClassIndexIs, RangeIs
<1>. HIDE DEF c
<1>3. PICK i \in 1 .. Len(Rows(c)) : Rows(c)[i] = r
  BY <1>1, <1>2, RowsAre, RangeIs DEF c
<1>4. i \in 1 .. Len(Listed(c)) /\ r = RowOf(c, i)
  BY <1>2, <1>3, RowsAre
<1>. QED
  BY <1>2, <1>4

\* Where a sequence has x.
LEMMA HitsOne ==
    ASSUME NEW S, NEW s \in Seq(S), NEW x
    PROVE  /\ x \notin Range(s) => Hits(s, {x}) = {}
           /\ x \in Range(s) /\ Distinct(s) => \E j : Hits(s, {x}) = {j}
<1>1. x \notin Range(s) => Hits(s, {x}) = {}
  BY RangeIs DEF Hits
<1>2. ASSUME x \in Range(s), Distinct(s) PROVE \E j : Hits(s, {x}) = {j}
  <2>1. PICK j \in 1 .. Len(s) : s[j] = x
    BY <1>2, RangeIs
  <2>2. \A i \in 1 .. Len(s) : s[i] = x => i = j
    BY <1>2, <2>1 DEF Distinct
  <2>3. Hits(s, {x}) = {j}
    BY <2>1, <2>2 DEF Hits
  <2>. QED
    BY <2>3
<1>. QED
  BY <1>1, <1>2

\* A method that a generated class reimplements is listed once in its own class.
LEMMA ListedOnce ==
    ASSUME IndexedOk, NEW m \in Reimplementable, m \in Overridable
    PROVE  \E j : Hits(Listed(m.of), {m}) = {j}
<1>. DEFINE c == m.of
<1>1. /\ WellFormed(header) /\ Prepared /\ c \in Names /\ Kind(c) = "class"
      /\ m \in Range(methods[c]) /\ ~Dtor(m) /\ NotPrivate(m)
  BY DEF IndexedOk, Reimplementable, Ordinary, Dtor
<1>2. methods[c] \in Seq(MethodOf(c)) /\ Distinct(methods[c])
  BY <1>1 DEF Prepared, MethodsOk, ClassOk
<1>. HIDE DEF c
<1>3. CASE External(c)
  <2>1. m \in declared[c]
    BY <1>1 DEF IndexedOk, c
  <2>2. /\ Listed(c) \in Seq(MethodOf(c)) /\ Range(Listed(c)) = Range(methods[c]) \cap declared[c]
        /\ Distinct(Listed(c))
    BY <1>2, <1>3, AmongType, AmongRange, AmongDistinct DEF Listed
  <2>. QED
    BY <1>1, <2>1, <2>2, HitsOne DEF c
<1>4. CASE ~External(c)
  <2>. DEFINE A == Members(c)
  <2>1. /\ Callable(c) \in Seq(A) /\ Dtors(c) \in Seq(A) /\ Enumerators(c) \in Seq(A)
        /\ Callable(c) \o Enumerators(c) \in Seq(A)
    <3>1. MethodOf(c) \subseteq A /\ Enumerated(c) \subseteq A
      BY DEF Members
    <3>2. /\ Callable(c) \in Seq(MethodOf(c)) /\ Dtors(c) \in Seq(MethodOf(c))
          /\ Enumerators(c) \in Seq(Enumerated(c))
      BY <1>1, OwnRowsAre
    <3>. HIDE DEF A
    <3>. QED
      BY <3>1, <3>2
  <2>2. Range(Callable(c)) = {k \in Range(methods[c]) : NotPrivate(k) /\ ~Dtor(k)}
        /\ Range(Dtors(c)) = {k \in Range(methods[c]) : NotPrivate(k) /\ Dtor(k)}
        /\ Distinct(Callable(c))
    BY <1>1, OwnRowsAre
  <2>3. \E j : Hits(Callable(c), {m}) = {j}
    BY <1>1, <2>1, <2>2, HitsOne
  <2>4. m \notin Range(Dtors(c)) /\ m \notin Range(Enumerators(c))
    <3>1. m.kind # "enum"
      <4>1. m \in MethodOf(c)
        BY <1>1, <1>2, RangeIs
      <4>. QED
        BY <4>1 DEF MethodOf
    <3>2. \A e \in Enumerated(c) : e.kind = "enum"
      BY DEF Enumerated, Made
    <3>3. Range(Enumerators(c)) \subseteq Enumerated(c)
      BY <1>1, OwnRowsAre, RangeIs
    <3>. QED
      BY <1>1, <2>2, <3>1, <3>2, <3>3
  <2>5. Hits(Dtors(c), {m}) = {} /\ Hits(Enumerators(c), {m}) = {}
    BY <2>1, <2>4, HitsOne
  <2>. HIDE DEF A
  <2>6. \A s, t \in Seq(A) : Hits(t, {m}) = {} => Hits(s \o t, {m}) = Hits(s, {m})
    <3>. SUFFICES ASSUME NEW s \in Seq(A), NEW t \in Seq(A), Hits(t, {m}) = {}
                  PROVE  Hits(s \o t, {m}) = Hits(s, {m})
      OBVIOUS
    <3>. DEFINE M == {m}
    <3>1. Hits(t, M) = {}
      OBVIOUS
    <3>. HIDE DEF M
    <3>2. Hits(s \o t, M) = Hits(s, M)
      BY <3>1, HitsLeft
    <3>. QED
      BY <3>2 DEF M
  <2>7. Hits(Callable(c) \o Enumerators(c), {m}) = Hits(Callable(c), {m})
    BY <2>1, <2>5, <2>6
  <2>8. Hits(Listed(c), {m}) = Hits(Callable(c) \o Enumerators(c), {m})
    <3>1. Listed(c) = (Callable(c) \o Enumerators(c)) \o Dtors(c)
      BY <1>4 DEF Listed, OwnRows
    <3>. QED
      BY <2>1, <2>5, <3>1, <2>6
  <2>. QED
    BY <2>3, <2>7, <2>8 DEF c
<1>. QED
  BY <1>3, <1>4

LEMMA OneRow ==
    ASSUME IndexedOk, NEW c \in Range(included), NEW m \in Range(VirtualMethods(c))
    PROVE  Cardinality({i \in DOMAIN MethodTable : MethodTable[i].member = m}) = 1
<1>. DEFINE M == {r \in AllRows : r.member = m}
            d == m.of
            k == Index(d)
<1>1. /\ WellFormed(header) /\ Prepared /\ c \in Names /\ Kind(c) \in {"class", "namespace"}
      /\ Range(included) = Range(Keys) \cup Namespaces
  BY IncludedAre DEF IndexedOk
<1>2. m \in Reimplementable /\ Kind(c) # "namespace"
  BY <1>1, VirtualMethodsOk, RangeIs, RangeNone
<1>3. m \in Overridable
  <2>1. c \in Range(Keys)
    BY <1>1, <1>2 DEF Namespaces
  <2>. QED
    BY <2>1 DEF Overridable
<1>4. d \in Names /\ Kind(d) = "class"
  BY <1>2 DEF Reimplementable, Ordinary
<1>5. d \in Range(classIndex)
  <2>1. d \in NeededClasses(Overridable)
    BY <1>3, <1>4 DEF NeededClasses
  <2>. QED
    BY <2>1, ClassIndexIs DEF Index0
<1>. HIDE DEF d
<1>6. k \in 1 .. Len(classIndex) /\ classIndex[k] = d /\ TableParts[k] = Rows(d)
  BY <1>5, ClassIndexIs, TableIs
<1>. HIDE DEF k
<1>7. ASSUME NEW e \in Names PROVE Hits(Rows(e), M) = Hits(Listed(e), {m})
  <2>1. /\ Rows(e) \in Seq(AllRows) /\ Len(Rows(e)) = Len(Listed(e))
        /\ \A i \in 1 .. Len(Listed(e)) : Rows(e)[i] = RowOf(e, i)
    BY RowsAre
  <2>2. ASSUME NEW i \in 1 .. Len(Listed(e))
        PROVE  Rows(e)[i].member = Listed(e)[i] /\ Rows(e)[i] \in AllRows
    <3>1. Rows(e)[i] = RowOf(e, i) /\ RowOf(e, i).member = Listed(e)[i]
      BY <2>1 DEF RowOf
    <3>2. Rows(e)[i] \in AllRows
      BY <2>1
    <3>. QED
      BY <3>1, <3>2
  <2>. QED
    BY <2>1, <2>2 DEF Hits
<1>8. PICK j : Hits(Listed(d), {m}) = {j}
  BY <1>2, <1>3, ListedOnce DEF d
<1>9. ASSUME NEW e \in Names, e # d PROVE Hits(Listed(e), {m}) = {}
  <2>1. Listed(e) \in Seq(Members(e))
    BY RowsAre
  <2>2. m \notin Range(Listed(e))
    BY <1>9, <2>1, RangeIs, MembersAre DEF d
  <2>. QED
    BY <2>1, <2>2, HitsOne
<1>10. ASSUME NEW i \in 1 .. Len(TableParts), i # k PROVE Hits(TableParts[i], M) = {}
  <2>1. i \in 1 .. Len(classIndex) /\ classIndex[i] \in Names /\ TableParts[i] = Rows(classIndex[i])
    BY TableIs, ClassIndexIs
  <2>2. classIndex[i] # d
    BY <2>1, <1>6, <1>10, ClassIndexIs DEF Distinct
  <2>. QED
    BY <2>1, <2>2, <1>7, <1>9
<1>11. /\ TableParts \in Seq(Seq(AllRows)) /\ k \in 1 .. Len(TableParts)
       /\ Hits(TableParts[k], M) = {j}
  BY <1>4, <1>6, <1>7, <1>8, TableIs
<1>. HIDE DEF M
<1>12. \E p : Hits(FlattenSeq(TableParts), M) = {p}
  BY <1>10, <1>11, FlattenOnce
<1>13. {i \in DOMAIN MethodTable : MethodTable[i].member = m} = Hits(MethodTable, M)
  <2>1. MethodTable \in Seq(AllRows)
    BY TableIs
  <2>2. DOMAIN MethodTable = 1 .. Len(MethodTable) /\ \A i \in DOMAIN MethodTable : MethodTable[i] \in AllRows
    BY <2>1
  <2>. QED
    BY <2>2 DEF Hits, M
<1>14. MethodTable = FlattenSeq(TableParts)
  BY TableIs
<1>. QED
  BY <1>12, <1>13, <1>14, FS_Singleton

\* The switch of a class and its rows number the same members alike.
LEMMA SwitchRight ==
    ASSUME IndexedOk, NEW c \in Range(included), NEW i \in 1 .. Len(OwnRows(c))
    PROVE  LET own == OwnRows(c)[i] IN
           \/ i \in DOMAIN Switch(c) /\ Switch(c)[i] = own
           \/ i \notin DOMAIN Switch(c) /\ Dtor(own) /\ ~Public(own)
<1>. DEFINE A == Members(c)
            before == Callable(c) \o Enumerators(c)
<1>1. WellFormed(header) /\ Prepared /\ c \in Names /\ Kind(c) \in {"class", "namespace"}
  BY IncludedAre DEF IndexedOk
<1>2. before \in Seq(A) /\ Dtors(c) \in Seq(A) /\ OwnRows(c) = before \o Dtors(c)
  <2>1. MethodOf(c) \subseteq A /\ Enumerated(c) \subseteq A
    BY DEF Members
  <2>2. /\ Callable(c) \in Seq(MethodOf(c)) /\ Dtors(c) \in Seq(MethodOf(c))
        /\ Enumerators(c) \in Seq(Enumerated(c))
    BY <1>1, OwnRowsAre
  <2>. HIDE DEF A
  <2>3. Callable(c) \in Seq(A) /\ Enumerators(c) \in Seq(A) /\ Dtors(c) \in Seq(A)
    BY <2>1, <2>2
  <2>. QED
    BY <2>3 DEF OwnRows
<1>. HIDE DEF A, before
<1>3. CASE PublicDtor(c)
  <2>1. Switch(c) = before \o Dtors(c)
    BY <1>3 DEF Switch, before
  <2>2. DOMAIN OwnRows(c) = 1 .. Len(OwnRows(c))
    BY <1>2
  <2>. QED
    BY <1>2, <2>1, <2>2
<1>4. CASE ~PublicDtor(c)
  <2>1. Switch(c) = before
    <3>1. Switch(c) = before \o <<>>
      BY <1>4 DEF Switch, before
    <3>. QED
      BY <1>2, <3>1
  <2>2. DOMAIN before = 1 .. Len(before) /\ Len(before) \in Nat
    BY <1>2
  <2>3. CASE i <= Len(before)
    <3>1. OwnRows(c)[i] = before[i] /\ i \in DOMAIN before
      BY <1>2, <2>2, <2>3
    <3>. QED
      BY <2>1, <3>1
  <2>4. CASE ~(i <= Len(before))
    <3>. DEFINE own == OwnRows(c)[i]
    <3>1. i \notin DOMAIN before
      BY <2>2, <2>4
    <3>2. own \in Range(Dtors(c))
      <4>1. i - Len(before) \in 1 .. Len(Dtors(c)) /\ own = Dtors(c)[i - Len(before)]
        BY <1>2, <2>2, <2>4
      <4>. QED
        BY <1>2, <4>1, RangeIs
    <3>. HIDE DEF own
    <3>3. own \in Range(methods[c]) /\ Dtor(own)
      BY <1>1, <3>2, OwnRowsAre
    <3>4. MethodsOk(c, methods[c])
      BY <1>1 DEF Prepared
    <3>5. Kind(c) = "class" /\ ClassOk(c, methods[c])
      BY <1>1, <3>3, <3>4 DEF MethodsOk, Dtor
    <3>6. PICK j \in DOMAIN methods[c] : Dtor(methods[c][j]) /\ ~Public(methods[c][j])
      BY <1>4, <3>5 DEF PublicDtor, Has
    <3>7. methods[c][j] \in Range(methods[c])
      BY <3>6 DEF Range
    <3>8. own = methods[c][j]
      BY <3>3, <3>5, <3>6, <3>7 DEF ClassOk
    <3>. QED
      BY <2>1, <3>1, <3>3, <3>6, <3>8 DEF own
  <2>. QED
    BY <2>3, <2>4
<1>. QED
  BY <1>3, <1>4

-----------------------------------------------------------------------------
(* The invariant of the generator *)

DataOk == /\ data.rows = MethodTable
          /\ \A i \in 1 .. Len(classIndex) : data.classes[i].name = classIndex[i]
\* how many of the classes of included are written before file number p
Done(p) == IF p > Parts THEN Len(included) ELSE (Len(included) \div Parts) * (p - 1)
PartsWritten == /\ DOMAIN switches = Names
           /\ \A i \in 1 .. Len(included) :
                 switches[included[i]] = IF i <= Done(part) THEN Switch(included[i]) ELSE <<>>
TablesInv ==
    /\ WellFormed(header) /\ part \in 1 .. Parts + 1
    /\ stage \in {"parsed", "prepared", "indexed"} => part = 1 /\ switches = [c \in Names |-> <<>>]
    /\ stage = "prepared" => Prepared
    /\ stage \in {"indexed", "tables", "written"} => IndexedOk
    /\ stage \in {"tables", "written"} => DataOk /\ PartsWritten
    /\ stage = "tables" => part <= Parts
    /\ stage = "written" => part = Parts + 1

\* What the operators are made of does not change after preparse().
LEMMA SameMethods ==
    ASSUME header' = header, methods' = methods
    PROVE  /\ Names' = Names /\ (Prepared' <=> Prepared)
           /\ Keys' = Keys /\ Namespaces' = Namespaces /\ Overridable' = Overridable
           /\ \A virtual : NeededClasses(virtual)' = NeededClasses(virtual)
           /\ \A c : Switch(c)' = Switch(c)
<1>1. Names' = Names /\ Keys' = Keys /\ Namespaces' = Namespaces
  BY DEF Names, Keys, Namespaces, Kind
<1>2. Prepared' <=> Prepared
  BY DEF Prepared, Names, MethodsOk, Kind
<1>3. ASSUME NEW c PROVE VirtualMethods(c)' = VirtualMethods(c)
  <2>1. Collected' = Collected
    BY SMT DEF Collected, NotPrivate, Names, Bases, Virtual, Dtor
  <2>2. ASSUME NEW m PROVE Overrider(m, c)' = Overrider(m, c)
    BY SMT DEF Overrider, Same, Names, Bases, SelectInSeq
  <2>3. Latest(c)' = Latest(c)
    BY <2>1, <2>2 DEF Latest
  <2>4. Instanciable(c)' <=> Instanciable(c)
    BY SMT DEF Instanciable, Has, Ctor, NotPrivate
  <2>. QED
    BY <2>1, <2>3, <2>4, SMT DEF VirtualMethods, Has, NotPrivate, Same
<1>4. Overridable' = Overridable
  BY <1>1, <1>3 DEF Overridable
<1>5. ASSUME NEW virtual PROVE NeededClasses(virtual)' = NeededClasses(virtual)
  BY <1>1 DEF NeededClasses, SuperClasses, Bases, Kind
<1>6. ASSUME NEW c PROVE Switch(c)' = Switch(c)
  BY SMT DEF Switch, Callable, Dtors, Enumerators, PublicDtor, Kind, Dtor, NotPrivate, Has, Public, Made
<1>. QED
  BY <1>1, <1>2, <1>4, <1>5, <1>6

LEMMA SameTables ==
    ASSUME UNCHANGED <<header, methods, included, classIndex, declared>>
    PROVE  (IndexedOk' <=> IndexedOk) /\ MethodTable' = MethodTable
<1>1. Names' = Names /\ (Prepared' <=> Prepared) /\ Keys' = Keys /\ Namespaces' = Namespaces
      /\ Overridable' = Overridable
  BY SameMethods
<1>2. Index0(Overridable)' = Index0(Overridable)
  BY <1>1, SameMethods DEF Index0
<1>3. IndexedOk' <=> IndexedOk
  BY <1>1, <1>2 DEF IndexedOk
<1>4. ASSUME NEW c PROVE Rows(c)' = Rows(c)
  BY SMT DEF Rows, Callable, Dtors, Enumerators, External, Index, SelectInSeq, Dtor, NotPrivate, Made
<1>5. MethodTable' = MethodTable
  BY <1>4 DEF MethodTable
<1>. QED
  BY <1>3, <1>5

LEMMA SwitchType ==
    ASSUME IndexedOk, NEW c \in Range(included) PROVE Switch(c) \in Seq(Members(c))
<1>. DEFINE A == Members(c)
            last == IF PublicDtor(c) THEN Dtors(c) ELSE <<>>
<1>1. MethodOf(c) \subseteq A /\ Enumerated(c) \subseteq A
  BY DEF Members
<1>2. /\ Callable(c) \in Seq(MethodOf(c)) /\ Dtors(c) \in Seq(MethodOf(c))
      /\ Enumerators(c) \in Seq(Enumerated(c))
  BY IncludedAre, OwnRowsAre DEF IndexedOk
<1>. HIDE DEF A
<1>3. Callable(c) \in Seq(A) /\ Enumerators(c) \in Seq(A) /\ last \in Seq(A)
  BY <1>1, <1>2
<1>. HIDE DEF last
<1>4. Callable(c) \o Enumerators(c) \o last \in Seq(A)
  BY <1>3
<1>. QED
  BY <1>4 DEF Switch, last, A

LEMMA PartOf ==
    ASSUME NEW S, NEW s \in Seq(S), Distinct(s), NEW a \in Nat, NEW b \in 0 .. Len(s),
           NEW i \in 1 .. Len(s)
    PROVE  s[i] \in Range(SubSeq(s, a + 1, b)) <=> a + 1 <= i /\ i <= b
<1>1. Len(s) \in Nat
  OBVIOUS
<1>2. CASE a < b
  <2>. DEFINE t == SubSeq(s, a + 1, b)
  <2>1. t \in Seq(S) /\ Len(t) = b - a /\ \A k \in 1 .. b - a : t[k] = s[k + a]
    BY <1>1, <1>2
  <2>. HIDE DEF t
  <2>2. ASSUME s[i] \in Range(t) PROVE a + 1 <= i /\ i <= b
    <3>1. PICK k \in 1 .. b - a : t[k] = s[i]
      BY <2>1, <2>2, RangeIs
    <3>2. k + a \in 1 .. Len(s) /\ s[k + a] = s[i]
      BY <1>1, <1>2, <2>1, <3>1
    <3>3. k + a = i
      BY <3>2 DEF Distinct
    <3>. QED
      BY <3>1, <3>3, <1>1
  <2>3. ASSUME a + 1 <= i, i <= b PROVE s[i] \in Range(t)
    <3>1. i - a \in 1 .. b - a /\ t[i - a] = s[(i - a) + a] /\ (i - a) + a = i
      BY <1>1, <2>1, <2>3
    <3>. QED
      BY <2>1, <3>1, RangeIs
  <2>. QED
    BY <2>2, <2>3 DEF t
<1>3. CASE ~(a < b)
  <2>1. SubSeq(s, a + 1, b) = <<>>
    BY <1>1, <1>3
  <2>2. ~(a + 1 <= i /\ i <= b)
    BY <1>1, <1>3
  <2>. QED
    BY <2>1, <2>2, RangeNone
<1>. QED
  BY <1>2, <1>3

LEMMA Division ==
    ASSUME NEW n \in Nat, NEW d \in Nat \ {0}, NEW p \in 1 .. d
    PROVE  LET q == n \div d IN
           q * (p - 1) \in Nat /\ q * (p - 1) + q = q * p /\ q * p <= n /\ q * (p - 1) <= n
<1>. DEFINE q == n \div d
<1>1. q \in Nat
  BY Z3
<1>2. q * d <= n
  BY SMT
<1>. HIDE DEF q
<1>3. q * (p - 1) \in Nat /\ q * (p - 1) + q = q * p
  BY <1>1
<1>4. q * p <= q * d
  BY <1>1
<1>5. q * p <= n /\ q * (p - 1) <= n
  <2>1. q * p \in Nat /\ q * d \in Nat
    BY <1>1
  <2>. QED
    BY <1>1, <1>2, <1>3, <1>4, <2>1
<1>. QED
  BY <1>3, <1>5 DEF q

LEMMA PrepareInv == ASSUME TablesInv, Prepare PROVE TablesInv'
<1>1. /\ stage = "parsed" /\ stage' = "prepared" /\ methods' = [c \in Names |-> Preparse(c)]
      /\ UNCHANGED <<header, switches, part>>
  BY DEF Prepare
<1>2. WellFormed(header) /\ part \in 1 .. Parts + 1 /\ part = 1 /\ switches = [c \in Names |-> <<>>]
  BY <1>1 DEF TablesInv
<1>3. \A c \in Names : MethodsOk(c, Preparse(c))
  BY <1>2, PreparseOk
<1>4. Prepared' /\ Names' = Names
  BY <1>1, <1>3 DEF Prepared, Names, MethodsOk, Kind
<1>. QED
  BY <1>1, <1>2, <1>4 DEF TablesInv

LEMMA IndexClassesInv == ASSUME TablesInv, IndexClasses PROVE TablesInv'
<1>1. /\ stage = "prepared" /\ stage' = "indexed" /\ UNCHANGED <<header, methods, switches, part>>
      /\ declared' = [c \in Names |-> {m \in Overridable : m.of = c}]
      /\ classIndex' = Sorted(Index0(Overridable))
      /\ included' = Keys \o Sorted(Namespaces)
  BY DEF IndexClasses, Index0
<1>2. WellFormed(header) /\ part \in 1 .. Parts + 1 /\ part = 1 /\ switches = [c \in Names |-> <<>>]
      /\ Prepared
  BY <1>1 DEF TablesInv
<1>3. Names' = Names /\ (Prepared' <=> Prepared) /\ Keys' = Keys /\ Namespaces' = Namespaces
      /\ Overridable' = Overridable
  BY <1>1, SameMethods
<1>4. Index0(Overridable)' = Index0(Overridable)
  BY <1>1, <1>3, SameMethods DEF Index0
<1>5. IndexedOk'
  BY <1>1, <1>2, <1>3, <1>4 DEF IndexedOk
<1>. QED
  BY <1>1, <1>2, <1>3, <1>5 DEF TablesInv

LEMMA WriteDataInv == ASSUME TablesInv, WriteData PROVE TablesInv'
<1>1. /\ stage = "indexed" /\ stage' = "tables" /\ data'.rows = MethodTable /\ data'.classes = ClassRows
      /\ UNCHANGED <<header, methods, included, classIndex, declared, switches, part>>
  BY DEF WriteData
<1>2. /\ WellFormed(header) /\ part \in 1 .. Parts + 1 /\ part = 1 /\ switches = [c \in Names |-> <<>>]
      /\ IndexedOk
  BY <1>1 DEF TablesInv
<1>3. IndexedOk' /\ MethodTable' = MethodTable /\ Names' = Names
  BY <1>1, <1>2, SameTables, SameMethods
<1>4. /\ DOMAIN classIndex = 1 .. Len(classIndex)
      /\ \A i \in 1 .. Len(included) : included[i] \in Names
  BY <1>2, ClassIndexIs, IncludedAre
<1>5. DataOk'
  <2>1. \A i \in 1 .. Len(classIndex) : ClassRows[i].name = classIndex[i]
    BY <1>4 DEF ClassRows
  <2>. QED
    BY <1>1, <1>3, <2>1 DEF DataOk
<1>6. Parts \in Nat \ {0} /\ 1 <= Parts /\ Len(included) \in Nat
  BY <1>2, IncludedAre, TablesAssumption
<1>7. PartsWritten'
  <2>1. Done(1)' = 0
    <3>1. Done(1) = (Len(included) \div Parts) * (1 - 1)
      BY <1>6 DEF Done
    <3>2. (Len(included) \div Parts) * (1 - 1) = 0
      <4>. DEFINE q == Len(included) \div Parts
      <4>1. q \in Int
        BY <1>6
      <4>. HIDE DEF q
      <4>2. q * (1 - 1) = 0
        BY <4>1
      <4>. QED
        BY <4>2 DEF q
    <3>. QED
      BY <1>1, <3>1, <3>2 DEF Done
  <2>2. \A i \in 1 .. Len(included) : switches[included[i]] = <<>> /\ ~(i <= 0)
    BY <1>2, <1>4
  <2>3. Done(part)' = 0
    BY <1>1, <1>2, <2>1
  <2>. QED
    BY <1>1, <1>2, <1>3, <2>2, <2>3 DEF PartsWritten
<1>. QED
  BY <1>1, <1>2, <1>3, <1>5, <1>6, <1>7 DEF TablesInv

LEMMA WritePartInv == ASSUME TablesInv, WritePart PROVE TablesInv'
<1>. DEFINE n == Len(included)
            q == n \div Parts
            first == q * (part - 1)
            last == IF part = Parts THEN n ELSE first + q
            now == Range(SubSeq(included, first + 1, last))
<1>1. /\ stage = "tables" /\ part <= Parts /\ part' = part + 1
      /\ stage' = IF part = Parts THEN "written" ELSE stage
      /\ switches' = [c \in Names |-> IF c \in now THEN switches[c] \o Switch(c) ELSE switches[c]]
      /\ UNCHANGED <<header, methods, included, classIndex, declared, data>>
  BY DEF WritePart
<1>2. /\ WellFormed(header) /\ part \in 1 .. Parts + 1 /\ IndexedOk /\ DataOk /\ PartsWritten
      /\ Parts \in Nat \ {0}
  BY <1>1, TablesAssumption DEF TablesInv
<1>3. n \in Nat /\ included \in Seq(Names) /\ Distinct(included)
      /\ \A i \in 1 .. n : included[i] \in Names /\ included[i] \in Range(included)
  BY <1>2, IncludedAre, RangeIs
<1>4. part \in 1 .. Parts
  BY <1>1, <1>2
<1>5. first \in Nat /\ first <= n /\ last \in 0 .. n /\ first <= last
      /\ Done(part) = first /\ Done(part)' = last
  <2>1. first \in Nat /\ first + q = q * part /\ q * part <= n /\ first <= n
    BY <1>2, <1>3, <1>4, Division
  <2>2. q \in Nat
    <3>. HIDE DEF n
    <3>. QED
      BY <1>2, <1>3, Z3
  <2>3. Done(part) = first
    BY <1>2, <1>4 DEF Done
  <2>4. Done(part)' = last
    <3>1. Done(part)' = IF part + 1 > Parts THEN n ELSE q * ((part + 1) - 1)
      BY <1>1 DEF Done
    <3>2. (part + 1) - 1 = part /\ (part + 1 > Parts <=> part = Parts)
      BY <1>2, <1>4
    <3>3. Done(part)' = IF part = Parts THEN n ELSE q * part
      BY <3>1, <3>2
    <3>. HIDE DEF first, q, n
    <3>. QED
      BY <2>1, <3>3
  <2>. HIDE DEF first, q, n
  <2>. QED
    BY <1>3, <2>1, <2>2, <2>3, <2>4
<1>6. \A c : Switch(c)' = Switch(c)
  BY <1>1, SameMethods
<1>7. IndexedOk' /\ DataOk' /\ Names' = Names
  BY <1>1, <1>2, SameTables, SameMethods DEF DataOk
<1>. HIDE DEF first, last, q, n
<1>8. ASSUME NEW i \in 1 .. n
      PROVE  switches'[included[i]] = IF i <= last THEN Switch(included[i]) ELSE <<>>
  <2>. DEFINE c == included[i]
  <2>1. c \in Names /\ c \in Range(included)
    BY <1>3
  <2>2. switches[c] = IF i <= first THEN Switch(c) ELSE <<>>
    BY <1>2, <1>5 DEF PartsWritten, n
  <2>3. c \in now <=> first + 1 <= i /\ i <= last
    BY <1>3, <1>5, PartOf DEF n
  <2>. HIDE DEF c, now
  <2>4. switches'[c] = IF c \in now THEN switches[c] \o Switch(c) ELSE switches[c]
    BY <1>1, <2>1
  <2>5. Switch(c) \in Seq(Members(c))
    BY <1>2, <2>1, SwitchType
  <2>6. <<>> \o Switch(c) = Switch(c)
    BY <2>5
  <2>7. i \in Nat /\ first \in Nat /\ last \in Nat /\ first <= last
    BY <1>3, <1>5
  <2>8. CASE i <= first
    BY <2>2, <2>3, <2>4, <2>7, <2>8 DEF c
  <2>9. CASE first + 1 <= i /\ i <= last
    <3>1. c \in now /\ ~(i <= first)
      BY <2>3, <2>7, <2>9
    <3>2. switches[c] = <<>>
      BY <2>2, <3>1
    <3>3. switches'[c] = Switch(c)
      BY <2>4, <2>6, <3>1, <3>2
    <3>. QED
      BY <2>9, <3>3 DEF c
  <2>10. CASE last < i
    BY <2>2, <2>3, <2>4, <2>7, <2>10 DEF c
  <2>11. i <= first \/ (first + 1 <= i /\ i <= last) \/ last < i
    BY <2>7
  <2>. QED
    BY <2>8, <2>9, <2>10, <2>11
<1>9. PartsWritten'
  <2>1. DOMAIN switches' = Names'
    BY <1>1, <1>7
  <2>. HIDE DEF now
  <2>. QED
    BY <1>1, <1>5, <1>6, <1>8, <2>1 DEF PartsWritten, n
<1>10. part' \in 1 .. Parts + 1 /\ (part # Parts => part' <= Parts)
  BY <1>1, <1>2, <1>4
<1>. HIDE DEF now
<1>. QED
  BY <1>1, <1>2, <1>7, <1>9, <1>10 DEF TablesInv

LEMMA RegistrationStepInv ==
    ASSUME TablesInv, [RegistrationNext]_registrationVars PROVE TablesInv'
<1>1. CASE TablesNext
  BY <1>1, PrepareInv, IndexClassesInv, WriteDataInv, WritePartInv DEF TablesNext
<1>2. ASSUME UNCHANGED <<header, methods, included, classIndex, declared, data, switches, part>>,
             stage' = stage \/ stage' \in {"hierarchy", "registered"}
      PROVE  TablesInv'
  <2>1. /\ Names' = Names /\ (Prepared' <=> Prepared) /\ (IndexedOk' <=> IndexedOk)
        /\ MethodTable' = MethodTable /\ \A c : Switch(c)' = Switch(c)
    BY <1>2, SameMethods, SameTables
  <2>2. (DataOk' <=> DataOk) /\ (PartsWritten' <=> PartsWritten)
    BY <1>2, <2>1 DEF DataOk, PartsWritten, Done
  <2>. QED
    BY <1>2, <2>1, <2>2 DEF TablesInv
<1>3. CASE UNCHANGED tableVars
  BY <1>2, <1>3 DEF tableVars
<1>4. CASE HierarchyDone \/ Finish
  BY <1>2, <1>4 DEF HierarchyDone, Finish
<1>5. CASE SetupHierarchy \/ RegisterRow
  BY <1>3, <1>5 DEF SetupHierarchy, RegisterRow
<1>6. CASE UNCHANGED registrationVars
  BY <1>3, <1>6 DEF registrationVars
<1>. QED
  BY <1>1, <1>4, <1>5, <1>6 DEF RegistrationNext

LEMMA RegistrationInitInv == RegistrationInit => TablesInv
<1>. SUFFICES ASSUME RegistrationInit PROVE TablesInv
  OBVIOUS
<1>1. WellFormed(header) /\ Parts \in Nat \ {0}
  BY TablesAssumption DEF RegistrationInit, TablesInit
<1>2. stage = "parsed" /\ part = 1 /\ switches = [c \in Names |-> <<>>]
  BY DEF RegistrationInit, TablesInit, TablesStart
<1>3. part \in 1 .. Parts + 1
  BY <1>1, <1>2
<1>. QED
  BY <1>1, <1>2, <1>3 DEF TablesInv

LEMMA InvNumbers == TablesInv => NumbersAgree
<1>. SUFFICES ASSUME TablesInv, stage = "written" PROVE
        /\ \A r \in Range(data.rows) : r.xcall # 0 =>
              \/ Dispatch(r) = <<r.member>>
              \/ Dispatch(r) = <<>> /\ Dtor(r.member) /\ ~Public(r.member)
        /\ \A c \in Range(included) : \A m \in Range(VirtualMethods(c)) :
              Cardinality({i \in DOMAIN data.rows : data.rows[i].member = m}) = 1
  BY DEF NumbersAgree, Complete
<1>1. IndexedOk /\ DataOk /\ PartsWritten /\ part = Parts + 1 /\ Parts \in Nat
  BY TablesAssumption DEF TablesInv
<1>2. data.rows = MethodTable
  BY <1>1 DEF DataOk
<1>3. ASSUME NEW r \in Range(MethodTable), r.xcall # 0
      PROVE  \/ Dispatch(r) = <<r.member>>
             \/ Dispatch(r) = <<>> /\ Dtor(r.member) /\ ~Public(r.member)
  <2>1. PICK c \in Range(classIndex) : \E i \in 1 .. Len(Listed(c)) : r = RowOf(c, i)
    BY <1>1, RowFound
  <2>2. PICK i \in 1 .. Len(Listed(c)) : r = RowOf(c, i)
    BY <2>1
  <2>3. r.class = Index(c) /\ r.member = Listed(c)[i] /\ r.xcall = IF External(c) THEN 0 ELSE i
    BY <2>2 DEF RowOf
  <2>4. ~External(c) /\ r.xcall = i /\ c \in Range(included) /\ Listed(c) = OwnRows(c)
    BY <1>3, <2>3 DEF External, Listed
  <2>5. data.classes[r.class].name = c
    BY <1>1, <2>1, <2>3, ClassIndexIs DEF DataOk
  <2>6. switches[c] = Switch(c)
    <3>1. PICK k \in 1 .. Len(included) : included[k] = c
      BY <1>1, <2>4, IncludedAre, RangeIs
    <3>2. Done(part) = Len(included) /\ k <= Len(included)
      BY <1>1, <3>1, IncludedAre DEF Done
    <3>. QED
      BY <1>1, <3>1, <3>2 DEF PartsWritten
  <2>7. Dispatch(r) = IF i \in DOMAIN Switch(c) THEN <<Switch(c)[i]>> ELSE <<>>
    BY <2>4, <2>5, <2>6 DEF Dispatch
  <2>8. \/ i \in DOMAIN Switch(c) /\ Switch(c)[i] = r.member
        \/ i \notin DOMAIN Switch(c) /\ Dtor(r.member) /\ ~Public(r.member)
    BY <1>1, <2>3, <2>4, SwitchRight
  <2>. QED
    BY <2>7, <2>8
<1>. QED
  BY <1>1, <1>2, <1>3, OneRow

\* For every set of headers that a compiler accepts and every number of files: the numbers of
\* smokedata.cpp and of x_*.cpp agree, and a virtual method that a generated class reimplements
\* has exactly one row (writeSmokeDataFile.cpp:464-612, writeClasses.cpp:388-499).
THEOREM NumbersAlwaysAgree == RegistrationSpec => []NumbersAgree
<1>1. RegistrationInit => TablesInv
  BY RegistrationInitInv
<1>2. TablesInv /\ [RegistrationNext]_registrationVars => TablesInv'
  BY RegistrationStepInv
<1>3. TablesInv => NumbersAgree
  BY InvNumbers
<1>. QED
  BY <1>1, <1>2, <1>3, PTL DEF RegistrationSpec
=============================================================================
