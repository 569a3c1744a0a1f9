----------------------- MODULE WrapperReferencesProofs -----------------------
(***************************************************************************)
(* The references of WrapperLifecycle, for every number of threads, Qt     *)
(* objects and wrappers: the count of a wrapper is what the program holds, *)
(* what the calls in progress own and what deleteBlocker() took.  And, for *)
(* one thread, whom a Qt object is found under (QObjectIdentity).          *)
(*                                                                         *)
(* The calls in progress are counted by their places, the height above the *)
(* bottom of a stack, which no call and no return changes for the frames   *)
(* below it: the set of places of a kind of frame only gains and loses     *)
(* single elements, and is finite because it starts empty.  The references *)
(* of private data are counted in the same way.                            *)
(*                                                                         *)
(* An entry of the map is only left behind by private data that gives up a *)
(* live object without clear(), which is the destructor of plain private   *)
(* data, or by an object that is dying.  So the invariant of the last part *)
(* says of a QObject made from Qore that its entry leads to private data   *)
(* that stands for it and knows it is a QObject, that memory of private    *)
(* data without references points to nothing, and that a destructor of Qt  *)
(* is at work on an object only once and only while it is dying.  That     *)
(* clear() takes the entry out before it resets the pointer, and that no   *)
(* other thread comes in between, is MapInv of WrapperLifecycleProofs.     *)
(***************************************************************************)
EXTENDS WrapperLifecycleProofs, FiniteSetTheorems

-----------------------------------------------------------------------------
(* Places *)

\* m frames at the top of the stack of t are replaced by fs, m being 0 or 1
Replaces(t, m, fs) ==
    /\ \A u \in Thread \ {t} : stack'[u] = stack[u]
    /\ Len(stack'[t]) = Len(fs) + Len(stack[t]) - m
    /\ \A i \in 1..Len(fs) : stack'[t][i] = fs[i]
    /\ \A i \in 1 .. Len(stack[t]) - m : stack'[t][Len(fs) + i] = stack[t][m + i]

LEMMA CallsReplaces ==
    ASSUME TypeOK, NEW t \in Thread, stack[t] # <<>>, NEW fs \in Seq(Frame), Calls(t, fs)
    PROVE  Replaces(t, 1, fs)
<1>. DEFINE s == stack[t]
            r == Tail(s)
<1>1. s \in Seq(Frame) /\ s # <<>> /\ stack' = [stack EXCEPT ![t] = fs \o r]
  BY DEF TypeOK, Calls
<1>2. stack \in [Thread -> Seq(Frame)]
  BY DEF TypeOK
<1>3. stack'[t] = fs \o r /\ \A u \in Thread \ {t} : stack'[u] = stack[u]
  BY <1>1, <1>2
<1>4. /\ r \in Seq(Frame) /\ Len(r) = Len(s) - 1
      /\ \A i \in 1 .. Len(s) - 1 : r[i] = s[i + 1]
  BY <1>1
<1>. HIDE DEF r, s
<1>5. /\ Len(fs \o r) = Len(fs) + Len(r)
      /\ \A i \in 1..Len(fs) : (fs \o r)[i] = fs[i]
      /\ \A i \in 1..Len(r) : (fs \o r)[Len(fs) + i] = r[i]
  <2>1. r \in Seq(Frame)
    BY <1>4
  <2>2. \A x \in Seq(Frame) :
            /\ Len(fs \o x) = Len(fs) + Len(x)
            /\ \A i \in 1..Len(fs) : (fs \o x)[i] = fs[i]
            /\ \A i \in 1..Len(x) : (fs \o x)[Len(fs) + i] = x[i]
    OBVIOUS
  <2>. QED  BY <2>1, <2>2
<1>6. Len(s) \in Nat /\ Len(fs) \in Nat
  BY <1>1
<1>. QED  BY <1>3, <1>4, <1>5, <1>6 DEF Replaces, s

LEMMA EnterReplaces ==
    ASSUME TypeOK, NEW t \in Thread, NEW fs \in Seq(Frame), Enter(t, fs)
    PROVE  Replaces(t, 0, fs)
<1>1. stack \in [Thread -> Seq(Frame)]
  BY DEF TypeOK
<1>2. stack'[t] = fs \o stack[t] /\ \A u \in Thread \ {t} : stack'[u] = stack[u]
  BY <1>1 DEF Enter
<1>3. stack[t] \in Seq(Frame) /\ Len(stack[t]) \in Nat /\ Len(fs) \in Nat
  BY <1>1
<1>4. /\ Len(fs \o stack[t]) = Len(fs) + Len(stack[t])
      /\ \A i \in 1..Len(fs) : (fs \o stack[t])[i] = fs[i]
      /\ \A i \in 1..Len(stack[t]) : (fs \o stack[t])[Len(fs) + i] = stack[t][i]
  BY <1>3
<1>. QED  BY <1>2, <1>3, <1>4 DEF Replaces

PlacesIn(st, F) ==
    UNION {{<<t, Len(st[t]) - i>> : i \in {j \in DOMAIN st[t] : st[t][j] \in F}} : t \in Thread}

LEMMA PlacesNow == ASSUME NEW F PROVE Places(F) = PlacesIn(stack, F)
BY DEF Places, PlacesIn

LEMMA PlacesNext == ASSUME NEW F PROVE Places(F)' = PlacesIn(stack', F)
BY DEF Places, PlacesIn

LEMMA PlaceOf ==
    ASSUME NEW st \in [Thread -> Seq(Frame)], NEW F, NEW t \in Thread, NEW h \in Int
    PROVE  <<t, h>> \in PlacesIn(st, F) <=>
               /\ h \in 0 .. Len(st[t]) - 1
               /\ st[t][Len(st[t]) - h] \in F
<1>1. Len(st[t]) \in Nat /\ DOMAIN st[t] = 1..Len(st[t])
  BY SMT
<1>2. <<t, h>> \in PlacesIn(st, F) <=>
          \E i \in DOMAIN st[t] : st[t][i] \in F /\ h = Len(st[t]) - i
  BY DEF PlacesIn
<1>3. ASSUME NEW i \in DOMAIN st[t], st[t][i] \in F, h = Len(st[t]) - i
      PROVE  h \in 0 .. Len(st[t]) - 1 /\ st[t][Len(st[t]) - h] \in F
  <2>1. i = Len(st[t]) - h
    BY <1>1, <1>3
  <2>. QED  BY <1>1, <1>3, <2>1
<1>4. ASSUME h \in 0 .. Len(st[t]) - 1, st[t][Len(st[t]) - h] \in F
      PROVE  \E i \in DOMAIN st[t] : st[t][i] \in F /\ h = Len(st[t]) - i
  <2>1. Len(st[t]) - h \in DOMAIN st[t] /\ h = Len(st[t]) - (Len(st[t]) - h)
    BY <1>1, <1>4
  <2>. QED  BY <1>4, <2>1
<1>. QED  BY <1>2, <1>3, <1>4

LEMMA PlacesPairs ==
    ASSUME NEW st \in [Thread -> Seq(Frame)], NEW F, NEW x \in PlacesIn(st, F)
    PROVE  \E t \in Thread, h \in Int : x = <<t, h>>
<1>1. PICK t \in Thread : \E i \in DOMAIN st[t] : x = <<t, Len(st[t]) - i>>
  BY DEF PlacesIn
<1>2. \A i \in DOMAIN st[t] : Len(st[t]) - i \in Int
  BY SMT
<1>. QED  BY <1>1, <1>2

\* The frames below the replaced ones keep their places.
LEMMA PlacesAfter ==
    ASSUME TypeOK, TypeOK', NEW t \in Thread, NEW m \in 0..1, NEW fs \in Seq(Frame),
           m <= Len(stack[t]), Replaces(t, m, fs), NEW F, NEW u \in Thread, NEW h \in Int
    PROVE  <<u, h>> \in Places(F)' <=>
             \/ <<u, h>> \in Places(F) /\ ~(u = t /\ h >= Len(stack[t]) - m)
             \/ u = t /\ \E j \in 1..Len(fs) :
                            fs[j] \in F /\ h = Len(stack[t]) - m + Len(fs) - j
<1>1. /\ <<u, h>> \in Places(F)  <=> /\ h \in 0 .. Len(stack[u]) - 1
                                     /\ stack[u][Len(stack[u]) - h] \in F
      /\ <<u, h>> \in Places(F)' <=> /\ h \in 0 .. Len(stack'[u]) - 1
                                     /\ stack'[u][Len(stack'[u]) - h] \in F
  BY PlaceOf, PlacesNow, PlacesNext DEF TypeOK
<1>2. CASE u # t
  BY <1>1, <1>2 DEF Replaces
<1>3. CASE u = t
  <2>. DEFINE n == Len(stack[t])
              k == Len(fs)
              l == Len(stack'[t])
  <2>1. n \in Nat /\ k \in Nat /\ l = k + n - m /\ m \in {0, 1} /\ m <= n
    BY DEF TypeOK, Replaces
  <2>2. /\ \A i \in 1..k : stack'[t][i] = fs[i]
        /\ \A i \in 1 .. n - m : stack'[t][k + i] = stack[t][m + i]
    BY DEF Replaces
  <2>3. /\ <<t, h>> \in Places(F)  <=> h \in 0 .. n - 1 /\ stack[t][n - h] \in F
        /\ <<t, h>> \in Places(F)' <=> h \in 0 .. l - 1 /\ stack'[t][l - h] \in F
    BY <1>1, <1>3
  <2>. HIDE DEF n, k, l
  <2>4. CASE h >= n - m
    <3>1. ASSUME NEW j \in 1..k, h = n - m + k - j
          PROVE  j = l - h /\ h \in 0 .. l - 1
      BY <2>1, <2>4, <3>1
    <3>2. ASSUME h \in 0 .. l - 1
          PROVE  l - h \in 1..k /\ h = n - m + k - (l - h)
      BY <2>1, <2>4, <3>2
    <3>3. ASSUME <<t, h>> \in Places(F)'
          PROVE  \E j \in 1..k : fs[j] \in F /\ h = n - m + k - j
      BY <2>2, <2>3, <3>2, <3>3
    <3>4. ASSUME NEW j \in 1..k, fs[j] \in F, h = n - m + k - j
          PROVE  <<t, h>> \in Places(F)'
      BY <2>2, <2>3, <3>1, <3>4
    <3>. QED  BY <1>3, <2>4, <3>3, <3>4 DEF n, k
  <2>5. CASE h < n - m
    <3>1. ASSUME NEW j \in 1..k PROVE h # n - m + k - j
      BY <2>1, <2>5, <3>1
    <3>2. ASSUME h >= 0 PROVE stack'[t][l - h] = stack[t][n - h]
      <4>1. n - m - h \in 1 .. n - m /\ k + (n - m - h) = l - h /\ m + (n - m - h) = n - h
        BY <2>1, <2>5, <3>2
      <4>2. stack'[t][k + (n - m - h)] = stack[t][m + (n - m - h)]
        BY <2>2, <4>1
      <4>. QED  BY <4>1, <4>2
    <3>3. /\ h \in 0 .. n - 1 <=> h >= 0
          /\ h \in 0 .. l - 1 <=> h >= 0
          /\ ~(h >= n - m)
      BY <2>1, <2>5
    <3>. QED  BY <1>3, <2>3, <3>1, <3>2, <3>3 DEF n, k
  <2>. QED  BY <2>1, <2>4, <2>5
<1>. QED  BY <1>2, <1>3

LEMMA PlaceSets ==
    ASSUME TypeOK, NEW F, NEW x \in Places(F)
    PROVE  \E u \in Thread, h \in Int : x = <<u, h>>
BY PlacesPairs, PlacesNow DEF TypeOK

LEMMA PlaceSetsNext ==
    ASSUME TypeOK', NEW F, NEW x \in Places(F)'
    PROVE  \E u \in Thread, h \in Int : x = <<u, h>>
BY PlacesPairs, PlacesNext DEF TypeOK

LEMMA PlaceHeight ==
    ASSUME TypeOK, NEW F, NEW u \in Thread, NEW h \in Int, <<u, h>> \in Places(F)
    PROVE  h \in 0 .. Len(stack[u]) - 1
<1>1. stack \in [Thread -> Seq(Frame)] /\ <<u, h>> \in PlacesIn(stack, F)
  BY PlacesNow DEF TypeOK
<1>. QED  BY <1>1, PlaceOf

TopPlace(t) == <<t, Len(stack[t]) - 1>>

LEMMA TopPlaced ==
    ASSUME TypeOK, NEW t \in Thread, stack[t] # <<>>, NEW F
    PROVE  TopPlace(t) \in Places(F) <=> Top(t) \in F
<1>1. stack[t] \in Seq(Frame) /\ Len(stack[t]) \in Nat /\ Len(stack[t]) >= 1
  BY DEF TypeOK
<1>2. Top(t) = stack[t][1]
  BY <1>1 DEF Top
<1>3. Len(stack[t]) - 1 \in 0 .. Len(stack[t]) - 1 /\ Len(stack[t]) - (Len(stack[t]) - 1) = 1
  BY <1>1
<1>4. stack \in [Thread -> Seq(Frame)] /\ Len(stack[t]) - 1 \in Int
  BY <1>1 DEF TypeOK
<1>5. TopPlace(t) \in PlacesIn(stack, F) <=>
          /\ Len(stack[t]) - 1 \in 0 .. Len(stack[t]) - 1
          /\ stack[t][Len(stack[t]) - (Len(stack[t]) - 1)] \in F
  BY <1>4, PlaceOf DEF TopPlace
<1>. QED  BY <1>2, <1>3, <1>5, PlacesNow

\* Only the top place and those above it can come or go.
LEMMA PlacesKept ==
    ASSUME TypeOK, TypeOK', NEW t \in Thread, NEW m \in 0..1, NEW fs \in Seq(Frame),
           m <= Len(stack[t]), Replaces(t, m, fs), NEW F,
           m = 1 => Top(t) \notin F,
           \A j \in 1..Len(fs) : fs[j] \notin F
    PROVE  Places(F)' = Places(F)
<1>1. ASSUME NEW u \in Thread, NEW h \in Int
      PROVE  <<u, h>> \in Places(F)' <=> <<u, h>> \in Places(F)
  <2>1. ASSUME <<u, h>> \in Places(F), u = t, h >= Len(stack[t]) - m PROVE FALSE
    <3>1. stack[t] \in Seq(Frame) /\ Len(stack[t]) \in Nat
      BY DEF TypeOK
    <3>2. h <= Len(stack[t]) - 1
      BY <2>1, <3>1, PlaceHeight
    <3>3. m = 1 /\ h = Len(stack[t]) - 1 /\ stack[t] # <<>>
      BY <2>1, <3>1, <3>2
    <3>. QED  BY <2>1, <3>3, TopPlaced DEF TopPlace
  <2>2. <<u, h>> \in Places(F)' <=>
            \/ <<u, h>> \in Places(F) /\ ~(u = t /\ h >= Len(stack[t]) - m)
            \/ u = t /\ \E j \in 1..Len(fs) :
                           fs[j] \in F /\ h = Len(stack[t]) - m + Len(fs) - j
    BY PlacesAfter, ZenonT(60)
  <2>. QED  BY <2>1, <2>2, Zenon
<1>2. \A x \in Places(F) : x \in Places(F)'
  BY <1>1, PlaceSets
<1>3. \A x \in Places(F)' : x \in Places(F)
  BY <1>1, PlaceSetsNext
<1>. QED  BY <1>2, <1>3

LEMMA PlacesDropped ==
    ASSUME TypeOK, TypeOK', NEW t \in Thread, NEW fs \in Seq(Frame), stack[t] # <<>>,
           Replaces(t, 1, fs), NEW F, Top(t) \in F,
           \A j \in 1..Len(fs) : fs[j] \notin F
    PROVE  TopPlace(t) \in Places(F) /\ Places(F)' = Places(F) \ {TopPlace(t)}
<1>1. stack[t] \in Seq(Frame) /\ Len(stack[t]) \in Nat /\ 1 <= Len(stack[t])
  BY DEF TypeOK
<1>2. ASSUME NEW u \in Thread, NEW h \in Int
      PROVE  <<u, h>> \in Places(F)' <=> <<u, h>> \in Places(F) \ {TopPlace(t)}
  <2>1. <<u, h>> \in Places(F)' <=>
            <<u, h>> \in Places(F) /\ ~(u = t /\ h >= Len(stack[t]) - 1)
    <3>1. 1 \in 0..1
      OBVIOUS
    <3>2. <<u, h>> \in Places(F)' <=>
              \/ <<u, h>> \in Places(F) /\ ~(u = t /\ h >= Len(stack[t]) - 1)
              \/ u = t /\ \E j \in 1..Len(fs) :
                             fs[j] \in F /\ h = Len(stack[t]) - 1 + Len(fs) - j
      BY <1>1, <3>1, PlacesAfter
    <3>. QED  BY <3>2, Zenon
  <2>2. ASSUME <<u, h>> \in Places(F), u = t
        PROVE  h >= Len(stack[t]) - 1 <=> h = Len(stack[t]) - 1
    BY <1>1, <2>2, PlaceHeight
  <2>. QED  BY <2>1, <2>2 DEF TopPlace
<1>. QED  BY <1>2, PlaceSets, PlaceSetsNext, TopPlaced

NewPlace(t, m, fs, j) == <<t, Len(stack[t]) - m + Len(fs) - j>>

LEMMA PlacesAdded ==
    ASSUME TypeOK, TypeOK', NEW t \in Thread, NEW m \in 0..1, NEW fs \in Seq(Frame),
           m <= Len(stack[t]), Replaces(t, m, fs), NEW F,
           m = 1 => Top(t) \notin F,
           NEW j \in 1..Len(fs), fs[j] \in F,
           \A k \in 1..Len(fs) : fs[k] \in F => k = j
    PROVE  /\ NewPlace(t, m, fs, j) \notin Places(F)
           /\ Places(F)' = Places(F) \cup {NewPlace(t, m, fs, j)}
<1>1. stack[t] \in Seq(Frame) /\ Len(stack[t]) \in Nat /\ Len(fs) \in Nat /\ j \in Int
  BY DEF TypeOK
<1>2. ASSUME NEW u \in Thread, NEW h \in Int, <<u, h>> \in Places(F), u = t
      PROVE  ~(h >= Len(stack[t]) - m)
  <2>1. h <= Len(stack[t]) - 1
    BY <1>1, <1>2, PlaceHeight
  <2>2. ASSUME h >= Len(stack[t]) - m
        PROVE  m = 1 /\ h = Len(stack[t]) - 1 /\ stack[t] # <<>>
    BY <1>1, <2>1, <2>2
  <2>. QED  BY <1>2, <2>2, TopPlaced DEF TopPlace
<1>3. Len(stack[t]) - m + Len(fs) - j \in Int /\ Len(stack[t]) - m + Len(fs) - j >= Len(stack[t]) - m
  BY <1>1
<1>4. NewPlace(t, m, fs, j) \notin Places(F)
  BY <1>2, <1>3 DEF NewPlace
<1>5. ASSUME NEW u \in Thread, NEW h \in Int
      PROVE  <<u, h>> \in Places(F)' <=> <<u, h>> \in Places(F) \cup {NewPlace(t, m, fs, j)}
  <2>1. <<u, h>> \in Places(F)' <=>
          \/ <<u, h>> \in Places(F)
          \/ u = t /\ \E k \in 1..Len(fs) : fs[k] \in F /\ h = Len(stack[t]) - m + Len(fs) - k
    <3>1. <<u, h>> \in Places(F)' <=>
            \/ <<u, h>> \in Places(F) /\ ~(u = t /\ h >= Len(stack[t]) - m)
            \/ u = t /\ \E k \in 1..Len(fs) : fs[k] \in F /\ h = Len(stack[t]) - m + Len(fs) - k
      <4>1. m \in 0..1 /\ m <= Len(stack[t]) /\ Replaces(t, m, fs)
        OBVIOUS
      <4>2. CASE m = 0
        <5>1. Replaces(t, 0, fs) /\ 0 \in 0..1 /\ 0 <= Len(stack[t])
          BY <1>1, <4>1, <4>2
        <5>. QED  BY <4>2, <5>1, PlacesAfter
      <4>3. CASE m = 1
        <5>1. Replaces(t, 1, fs) /\ 1 \in 0..1 /\ 1 <= Len(stack[t])
          BY <1>1, <4>1, <4>3
        <5>. QED  BY <4>3, <5>1, PlacesAfter
      <4>. QED  BY <4>1, <4>2, <4>3
    <3>. QED  BY <1>2, <3>1, Zenon
  <2>2. (\E k \in 1..Len(fs) : fs[k] \in F /\ h = Len(stack[t]) - m + Len(fs) - k)
            <=> h = Len(stack[t]) - m + Len(fs) - j
    OBVIOUS
  <2>. QED  BY <2>1, <2>2 DEF NewPlace
<1>6. NewPlace(t, m, fs, j) \in Thread \X Int
  BY <1>3 DEF NewPlace
<1>. QED  BY <1>4, <1>5, <1>6, PlaceSets, PlaceSetsNext

\* One place goes and one comes: there are as many.
LEMMA PlacesSwapped ==
    ASSUME TypeOK, TypeOK', NEW t \in Thread, NEW fs \in Seq(Frame), stack[t] # <<>>,
           Replaces(t, 1, fs), NEW F, Top(t) \in F,
           NEW j \in 1..Len(fs), fs[j] \in F,
           \A k \in 1..Len(fs) : fs[k] \in F => k = j
    PROVE  /\ TopPlace(t) \in Places(F)
           /\ NewPlace(t, 1, fs, j) \notin Places(F) \ {TopPlace(t)}
           /\ Places(F)' = (Places(F) \ {TopPlace(t)}) \cup {NewPlace(t, 1, fs, j)}
<1>1. stack[t] \in Seq(Frame) /\ Len(stack[t]) \in Nat /\ 1 <= Len(stack[t])
      /\ Len(fs) \in Nat /\ j \in Int
  BY DEF TypeOK
<1>2. ASSUME NEW u \in Thread, NEW h \in Int, <<u, h>> \in Places(F), u = t
      PROVE  h >= Len(stack[t]) - 1 <=> h = Len(stack[t]) - 1
  BY <1>1, <1>2, PlaceHeight
<1>3. Len(stack[t]) - 1 + Len(fs) - j \in Int /\ Len(stack[t]) - 1 + Len(fs) - j >= Len(stack[t]) - 1
  BY <1>1
<1>4. NewPlace(t, 1, fs, j) \notin Places(F) \ {TopPlace(t)}
  BY <1>2, <1>3 DEF NewPlace, TopPlace
<1>5. ASSUME NEW u \in Thread, NEW h \in Int
      PROVE  <<u, h>> \in Places(F)' <=>
                 <<u, h>> \in (Places(F) \ {TopPlace(t)}) \cup {NewPlace(t, 1, fs, j)}
  <2>1. <<u, h>> \in Places(F)' <=>
          \/ <<u, h>> \in Places(F) /\ ~(u = t /\ h = Len(stack[t]) - 1)
          \/ u = t /\ \E k \in 1..Len(fs) : fs[k] \in F /\ h = Len(stack[t]) - 1 + Len(fs) - k
    <3>1. 1 \in 0..1
      OBVIOUS
    <3>2. <<u, h>> \in Places(F)' <=>
            \/ <<u, h>> \in Places(F) /\ ~(u = t /\ h >= Len(stack[t]) - 1)
            \/ u = t /\ \E k \in 1..Len(fs) : fs[k] \in F /\ h = Len(stack[t]) - 1 + Len(fs) - k
      BY <1>1, <3>1, PlacesAfter
    <3>. QED  BY <1>2, <3>2, Zenon
  <2>2. (\E k \in 1..Len(fs) : fs[k] \in F /\ h = Len(stack[t]) - 1 + Len(fs) - k)
            <=> h = Len(stack[t]) - 1 + Len(fs) - j
    OBVIOUS
  <2>. QED  BY <2>1, <2>2 DEF NewPlace, TopPlace
<1>6. NewPlace(t, 1, fs, j) \in Thread \X Int
  BY <1>3 DEF NewPlace
<1>. QED  BY <1>4, <1>5, <1>6, PlaceSets, PlaceSetsNext, TopPlaced

-----------------------------------------------------------------------------
(* The accounts *)

CtorFrames(w) == {WFrame("ctorBody", w)}

\* The count of w is right, and zero once the memory is free.
Accounted(w) ==
    /\ IsFiniteSet(Places(OwingFrames(w)))
    /\ wr[w].held >= 0
    /\ wr[w].refs = wr[w].held + Owed(w) + (IF pd[w].obj_ref THEN 1 ELSE 0)
    /\ wr[w].status = "free" => wr[w].refs = 0

\* The program holds what a constructor is making, and only one constructor makes it.
HeldByCtor(w) ==
    /\ \A x, y \in Places(CtorFrames(w)) : x = y
    /\ Places(CtorFrames(w)) # {} => wr[w].held >= 1

RefsInv == \A w \in Wrap : Accounted(w) /\ HeldByCtor(w)

LEMMA OwedNat ==
    ASSUME NEW w \in Wrap, IsFiniteSet(Places(OwingFrames(w)))
    PROVE  Owed(w) \in Nat
BY FS_CardinalityType DEF Owed

\* What a change of places does to the number of references owed.
LEMMA OwedKept ==
    ASSUME NEW w \in Wrap, IsFiniteSet(Places(OwingFrames(w))),
           Places(OwingFrames(w))' = Places(OwingFrames(w))
    PROVE  IsFiniteSet(Places(OwingFrames(w)))' /\ Owed(w)' = Owed(w)
BY DEF Owed

LEMMA OwedDropped ==
    ASSUME NEW w \in Wrap, IsFiniteSet(Places(OwingFrames(w))),
           NEW x \in Places(OwingFrames(w)),
           Places(OwingFrames(w))' = Places(OwingFrames(w)) \ {x}
    PROVE  IsFiniteSet(Places(OwingFrames(w)))' /\ Owed(w)' = Owed(w) - 1
BY FS_RemoveElement DEF Owed

LEMMA OwedAdded ==
    ASSUME NEW w \in Wrap, IsFiniteSet(Places(OwingFrames(w))),
           NEW x, x \notin Places(OwingFrames(w)),
           Places(OwingFrames(w))' = Places(OwingFrames(w)) \cup {x}
    PROVE  IsFiniteSet(Places(OwingFrames(w)))' /\ Owed(w)' = Owed(w) + 1
BY FS_AddElement DEF Owed

LEMMA OwedSwapped ==
    ASSUME NEW w \in Wrap, IsFiniteSet(Places(OwingFrames(w))),
           NEW x \in Places(OwingFrames(w)), NEW y, y \notin Places(OwingFrames(w)) \ {x},
           Places(OwingFrames(w))' = (Places(OwingFrames(w)) \ {x}) \cup {y}
    PROVE  IsFiniteSet(Places(OwingFrames(w)))' /\ Owed(w)' = Owed(w)
<1>. DEFINE S == Places(OwingFrames(w))
            R == S \ {x}
<1>1. IsFiniteSet(R) /\ Cardinality(R) = Cardinality(S) - 1
  BY FS_RemoveElement
<1>2. IsFiniteSet(R \cup {y}) /\ Cardinality(R \cup {y}) = Cardinality(R) + 1
  BY <1>1, FS_AddElement
<1>3. Cardinality(S) \in Nat
  BY FS_CardinalityType
<1>4. Cardinality(R \cup {y}) = Cardinality(S)
  <2>. HIDE DEF S, R
  <2>. QED  BY <1>1, <1>2, <1>3
<1>. QED  BY <1>2, <1>4 DEF Owed

\* which frames owe a reference or construct
LEMMA OwingTop ==
    ASSUME TypeOK, NEW t \in Thread, stack[t] # <<>>, NEW w \in Wrap
    PROVE  /\ Top(t) \in OwingFrames(w) <=> Top(t).op \in {"endDelete", "deref"} /\ Top(t).w = w
           /\ Top(t) \in CtorFrames(w) <=> Top(t).op = "ctorBody" /\ Top(t).w = w
<1>1. Top(t) \in Frame
  BY TopType DEF TypeOK
<1>. QED  BY <1>1 DEF OwingFrames, CtorFrames, WFrame, Frame, AOps, WOps,
     RestOps, RestDelOps, RestEndOps

LEMMA OwingWFrame ==
    ASSUME NEW op, NEW v, NEW w
    PROVE  /\ WFrame(op, v) \in OwingFrames(w) <=> op \in {"endDelete", "deref"} /\ v = w
           /\ WFrame(op, v) \in CtorFrames(w) <=> op = "ctorBody" /\ v = w
BY DEF OwingFrames, CtorFrames, WFrame

LEMMA OwingOther ==
    ASSUME NEW w \in Wrap, NEW f, f.op \notin {"ctorBody", "endDelete", "deref"}
    PROVE  f \notin OwingFrames(w) /\ f \notin CtorFrames(w)
BY DEF OwingFrames, CtorFrames, WFrame

-----------------------------------------------------------------------------
(* Steps that owe nothing new *)

CountedOps == {"ctorBody", "endDelete", "deref"}
QuietFrame == {f \in Frame : f.op \notin CountedOps}

\* the count of w and the reference of deleteBlocker() stay
Steady(w) == wr'[w] = wr[w] /\ pd'[w].obj_ref = pd[w].obj_ref
AllSteady == \A w \in Wrap : Steady(w)

LEMMA QuietFrames ==
    /\ \A op \in WOps \ CountedOps, w \in Wrap : WFrame(op, w) \in QuietFrame
    /\ \A op \in AOps, a \in Addr : AFrame(op, a) \in QuietFrame
    /\ \A op \in RestOps, a \in Addr, w \in Wrap : RestFrame(op, a, w) \in QuietFrame
    /\ \A s \in SUBSET Addr : LoopFrame(s) \in QuietFrame
<1>1. /\ \A op \in WOps \ CountedOps, w \in Wrap : WFrame(op, w) \in QuietFrame
      /\ \A op \in AOps, a \in Addr : AFrame(op, a) \in QuietFrame
  BY WFrameType, AFrameType DEF QuietFrame, CountedOps, WFrame, AFrame, AOps
<1>2. /\ \A op \in RestOps, a \in Addr, w \in Wrap : RestFrame(op, a, w) \in QuietFrame
      /\ \A s \in SUBSET Addr : LoopFrame(s) \in QuietFrame
  BY RestFrameType, LoopFrameType DEF QuietFrame, CountedOps, RestFrame, LoopFrame,
     RestOps, RestDelOps, RestEndOps
<1>. QED  BY <1>1, <1>2

LEMMA QuietSeq ==
    ASSUME NEW fs \in Seq(QuietFrame)
    PROVE  /\ fs \in Seq(Frame)
           /\ \A w \in Wrap, j \in 1..Len(fs) :
                  fs[j] \notin OwingFrames(w) /\ fs[j] \notin CtorFrames(w)
<1>1. QuietFrame \subseteq Frame
  BY DEF QuietFrame
<1>2. fs \in Seq(Frame)
  BY <1>1
<1>3. \A j \in 1..Len(fs) : fs[j].op \notin CountedOps
  BY DEF QuietFrame
<1>. QED  BY <1>2, <1>3, OwingOther DEF CountedOps

\* the account of a wrapper none of whose frames move
LEMMA PlacesStill ==
    ASSUME NEW w \in Wrap, Accounted(w), HeldByCtor(w), Steady(w),
           Places(OwingFrames(w))' = Places(OwingFrames(w)),
           Places(CtorFrames(w))' = Places(CtorFrames(w))
    PROVE  Accounted(w)' /\ HeldByCtor(w)'
<1>1. IsFiniteSet(Places(OwingFrames(w)))' /\ Owed(w)' = Owed(w)
  BY OwedKept DEF Accounted
<1>2. Accounted(w)'
  BY <1>1 DEF Accounted, Steady
<1>3. HeldByCtor(w)'
  BY DEF HeldByCtor, Steady
<1>. QED  BY <1>2, <1>3

LEMMA FramesElsewhere ==
    ASSUME TypeOK, TypeOK', NEW t \in Thread, stack[t] # <<>>, NEW fs \in Seq(Frame),
           Calls(t, fs), NEW w \in Wrap, Accounted(w), HeldByCtor(w), Steady(w),
           Top(t) \notin OwingFrames(w), Top(t) \notin CtorFrames(w),
           \A j \in 1..Len(fs) : fs[j] \notin OwingFrames(w) /\ fs[j] \notin CtorFrames(w)
    PROVE  Accounted(w)' /\ HeldByCtor(w)'
<1>1. Replaces(t, 1, fs) /\ 1 \in 0..1 /\ 1 <= Len(stack[t])
  BY CallsReplaces DEF TypeOK
<1>2. Places(OwingFrames(w))' = Places(OwingFrames(w))
  BY <1>1, PlacesKept
<1>3. Places(CtorFrames(w))' = Places(CtorFrames(w))
  BY <1>1, PlacesKept
<1>. QED  BY <1>2, <1>3, PlacesStill

LEMMA EnterElsewhere ==
    ASSUME TypeOK, TypeOK', NEW t \in Thread, NEW fs \in Seq(Frame),
           Enter(t, fs), NEW w \in Wrap, Accounted(w), HeldByCtor(w), Steady(w),
           \A j \in 1..Len(fs) : fs[j] \notin OwingFrames(w) /\ fs[j] \notin CtorFrames(w)
    PROVE  Accounted(w)' /\ HeldByCtor(w)'
<1>1. Replaces(t, 0, fs) /\ 0 \in 0..1 /\ 0 <= Len(stack[t])
  BY EnterReplaces DEF TypeOK
<1>2. Places(OwingFrames(w))' = Places(OwingFrames(w))
  BY <1>1, PlacesKept
<1>3. Places(CtorFrames(w))' = Places(CtorFrames(w))
  BY <1>1, PlacesKept
<1>. QED  BY <1>2, <1>3, PlacesStill

LEMMA QuietCalls ==
    ASSUME TypeOK, TypeOK', RefsInv, AllSteady, NEW t \in Thread, stack[t] # <<>>,
           Top(t).op \notin CountedOps, NEW fs \in Seq(QuietFrame), Calls(t, fs)
    PROVE  RefsInv'
<1>. SUFFICES ASSUME NEW w \in Wrap PROVE Accounted(w)' /\ HeldByCtor(w)'
  BY DEF RefsInv
<1>1. Accounted(w) /\ HeldByCtor(w) /\ Steady(w)
  BY DEF RefsInv, AllSteady
<1>2. Top(t) \notin OwingFrames(w) /\ Top(t) \notin CtorFrames(w)
  BY OwingOther DEF CountedOps
<1>. QED  BY <1>1, <1>2, QuietSeq, FramesElsewhere

LEMMA QuietReturn ==
    ASSUME TypeOK, TypeOK', RefsInv, AllSteady, NEW t \in Thread, stack[t] # <<>>,
           Top(t).op \notin CountedOps, Return(t)
    PROVE  RefsInv'
<1>1. <<>> \in Seq(QuietFrame) /\ Calls(t, <<>>)
  BY DEF Return
<1>. QED  BY <1>1, QuietCalls

LEMMA QuietEnter ==
    ASSUME TypeOK, TypeOK', RefsInv, AllSteady, NEW t \in Thread,
           NEW fs \in Seq(QuietFrame), Enter(t, fs)
    PROVE  RefsInv'
<1>. SUFFICES ASSUME NEW w \in Wrap PROVE Accounted(w)' /\ HeldByCtor(w)'
  BY DEF RefsInv
<1>1. Accounted(w) /\ HeldByCtor(w) /\ Steady(w)
  BY DEF RefsInv, AllSteady
<1>. QED  BY <1>1, QuietSeq, EnterElsewhere

LEMMA QuietStack ==
    ASSUME RefsInv, AllSteady, UNCHANGED stack
    PROVE  RefsInv'
<1>. SUFFICES ASSUME NEW w \in Wrap PROVE Accounted(w)' /\ HeldByCtor(w)'
  BY DEF RefsInv
<1>1. Accounted(w) /\ HeldByCtor(w) /\ Steady(w)
  BY DEF RefsInv, AllSteady
<1>2. \A F : Places(F)' = Places(F)
  BY DEF Places
<1>. QED  BY <1>1, <1>2, PlacesStill

LEMMA AbortRefs ==
    ASSUME RefsInv, NEW f, Abort(f)
    PROVE  RefsInv'
<1>1. AllSteady /\ UNCHANGED stack
  BY DEF Abort, AllSteady, Steady
<1>. QED  BY <1>1, QuietStack

LEMMA UnchangedSteady == UNCHANGED <<wr, pd>> => AllSteady
BY DEF AllSteady, Steady

\* Clearing the private data and setting another field of it leave obj_ref.
LEMMA ClearSteady ==
    ASSUME TypeOK, NEW v \in Wrap, Reset(v), UNCHANGED wr
    PROVE  AllSteady
<1>1. pd \in [Wrap -> PdRecord] /\ pd' = [pd EXCEPT ![v].obj = None]
  BY DEF TypeOK, Reset
<1>. QED  BY <1>1 DEF AllSteady, Steady, PdRecord

LEMMA ClearKeepsRef ==
    ASSUME TypeOK, NEW v \in Wrap, Reset(v), NEW w \in Wrap
    PROVE  pd'[w].obj_ref = pd[w].obj_ref
<1>1. pd \in [Wrap -> PdRecord] /\ pd' = [pd EXCEPT ![v].obj = None]
  BY DEF TypeOK, Reset
<1>. QED  BY <1>1 DEF PdRecord

LEMMA FieldSteady ==
    ASSUME TypeOK, NEW v \in Wrap, NEW x, UNCHANGED wr,
           \/ pd' = [pd EXCEPT ![v].refs = x]
           \/ pd' = [pd EXCEPT ![v].attached = x]
           \/ pd' = [pd EXCEPT ![v].eo = x]
    PROVE  AllSteady
<1>1. pd \in [Wrap -> PdRecord]
  BY DEF TypeOK
<1>. QED  BY <1>1 DEF AllSteady, Steady, PdRecord

LEMMA UserDtorEndRefs ==
    ASSUME TypeOK, TypeOK', RefsInv, NEW t \in Thread,
           UserDtorEnd(t) \/ OutOfMemory(t)
    PROVE  RefsInv'
<1>1. /\ stack[t] # <<>> /\ Top(t).op \notin CountedOps
      /\ Return(t) /\ UNCHANGED <<wr, pd>>
  BY DEF UserDtorEnd, OutOfMemory, AtTop, Running, CountedOps
<1>. QED  BY <1>1, UnchangedSteady, QuietReturn

LEMMA PdDerefRefs ==
    ASSUME TypeOK, TypeOK', RefsInv, NEW t \in Thread, PdDeref(t)
    PROVE  RefsInv'
<1>1. PICK w \in Wrap : w = Top(t).w /\ stack[t] # <<>> /\ Top(t).op \notin CountedOps
  BY TopArguments DEF PdDeref, AtTop, Running, WOps, CountedOps
<1>2. CASE pd[w].refs > 1
  <2>1. Return(t) /\ UNCHANGED wr /\ pd' = [pd EXCEPT ![w].refs = pd[w].refs - 1]
    BY <1>1, <1>2 DEF PdDeref
  <2>. QED  BY <1>1, <2>1, FieldSteady, QuietReturn
<1>3. CASE Abort("obj_ref") \/ Abort("map_del")
  BY <1>3, AbortRefs
<1>4. CASE ~(pd[w].refs > 1) /\ ~Abort("obj_ref") /\ ~Abort("map_del")
  <2>. DEFINE a == pd[w].obj
              fs == IF a # None /\ ~pd[w].eo /\
                       (pd[w].is_qobject => qt[a].parent = None)
                    THEN <<AFrame("qtDestroy", a)>> ELSE <<>>
  <2>1. /\ pd' = [pd EXCEPT ![w] = NoPd] /\ ~pd[w].obj_ref
        /\ Calls(t, fs) /\ UNCHANGED wr
    BY <1>1, <1>4 DEF PdDeref
  <2>2. a # None => AFrame("qtDestroy", a) \in QuietFrame
    BY PdFields, QuietFrames DEF AOps
  <2>3. fs \in Seq(QuietFrame)
    BY <2>2
  <2>4. AllSteady
    <3>1. pd \in [Wrap -> PdRecord] /\ pd[w].obj_ref = FALSE
      BY <2>1, PdFields DEF TypeOK
    <3>. QED  BY <2>1, <3>1 DEF AllSteady, Steady, NoPd
  <2>. HIDE DEF fs
  <2>. QED  BY <1>1, <2>1, <2>3, <2>4, QuietCalls
<1>. QED  BY <1>2, <1>3, <1>4

LEMMA CommonDestructorRefs ==
    ASSUME TypeOK, TypeOK', RefsInv, NEW t \in Thread, CommonDestructor(t)
    PROVE  RefsInv'
<1>1. PICK w \in Wrap : w = Top(t).w /\ stack[t] # <<>> /\ Top(t).op \notin CountedOps
  BY TopArguments DEF CommonDestructor, AtTop, Running, WOps, CountedOps
<1>2. PICK a \in Addr \cup {None} : a = pd[w].obj
  BY PdFields
<1>3. /\ WFrame("pdDeref", w) \in QuietFrame /\ LoopFrame(qwm.set) \in QuietFrame
      /\ a # None => RestFrame("dtorRest", a, w) \in QuietFrame
  <2>1. qwm.set \in SUBSET Addr
    BY DEF TypeOK
  <2>. QED  BY <1>2, <2>1, QuietFrames DEF WOps, RestOps, CountedOps
<1>4. CASE Return(t) /\ UNCHANGED <<wr, pd>>
  BY <1>1, <1>4, UnchangedSteady, QuietReturn
<1>5. CASE Abort("qwm_deleteAll")
  BY <1>5, AbortRefs
<1>6. CASE ~(Return(t) /\ UNCHANGED <<wr, pd>>) /\ ~Abort("qwm_deleteAll")
  <2>1. /\ pd' = [pd EXCEPT ![w].attached = FALSE] /\ UNCHANGED wr
        /\ \/ Calls(t, <<WFrame("pdDeref", w)>>)
           \/ a # None /\ Calls(t, <<LoopFrame(qwm.set), RestFrame("dtorRest", a, w), WFrame("pdDeref", w)>>)
           \/ a # None /\ Calls(t, <<RestFrame("dtorRest", a, w), WFrame("pdDeref", w)>>)
    BY <1>1, <1>2, <1>6 DEF CommonDestructor
  <2>2. /\ <<WFrame("pdDeref", w)>> \in Seq(QuietFrame)
        /\ a # None => /\ <<LoopFrame(qwm.set), RestFrame("dtorRest", a, w), WFrame("pdDeref", w)>>
                              \in Seq(QuietFrame)
                       /\ <<RestFrame("dtorRest", a, w), WFrame("pdDeref", w)>> \in Seq(QuietFrame)
    BY <1>3, Seqs
  <2>3. AllSteady
    BY <2>1, FieldSteady
  <2>. QED  BY <1>1, <2>1, <2>2, <2>3, QuietCalls
<1>. QED  BY <1>4, <1>5, <1>6

LEMMA DeleteAllRefs ==
    ASSUME TypeOK, TypeOK', RefsInv, NEW t \in Thread, DeleteAll(t)
    PROVE  RefsInv'
<1>1. PICK s \in SUBSET Addr :
        s = Top(t).s /\ stack[t] # <<>> /\ Top(t).op \notin CountedOps
  BY TopArguments DEF DeleteAll, AtTop, Running, CountedOps
<1>2. CASE s = {}
  <2>1. Return(t) /\ UNCHANGED <<wr, pd>>
    BY <1>1, <1>2 DEF DeleteAll
  <2>. QED  BY <1>1, <2>1, UnchangedSteady, QuietReturn
<1>3. CASE s # {}
  <2>1. PICK a \in s :
          IF qt[a].state = "free" THEN Abort("deleteAll_dangling")
          ELSE /\ Calls(t, IF qt[a].parent = None
                           THEN <<AFrame("qtDestroy", a), LoopFrame(s \ {a})>>
                           ELSE <<LoopFrame(s \ {a})>>)
               /\ UNCHANGED <<qt, wr, pd, map, qwm, fault>>
    BY <1>1, <1>3 DEF DeleteAll
  <2>2. CASE qt[a].state = "free"
    BY <2>1, <2>2, AbortRefs
  <2>3. CASE qt[a].state # "free"
    <3>. DEFINE fs == IF qt[a].parent = None
                      THEN <<AFrame("qtDestroy", a), LoopFrame(s \ {a})>>
                      ELSE <<LoopFrame(s \ {a})>>
    <3>1. AFrame("qtDestroy", a) \in QuietFrame /\ LoopFrame(s \ {a}) \in QuietFrame
      BY QuietFrames DEF AOps
    <3>2. fs \in Seq(QuietFrame)
      BY <3>1, Seqs
    <3>3. Calls(t, fs) /\ UNCHANGED <<wr, pd>>
      BY <2>1, <2>3
    <3>. HIDE DEF fs
    <3>. QED  BY <1>1, <3>2, <3>3, UnchangedSteady, QuietCalls
  <2>. QED  BY <2>2, <2>3
<1>. QED  BY <1>2, <1>3

LEMMA DtorRestRefs ==
    ASSUME TypeOK, TypeOK', RefsInv, NEW t \in Thread, DtorRest(t)
    PROVE  RefsInv'
<1>1. PICK w \in Wrap, a \in Addr :
        w = Top(t).w /\ a = Top(t).a /\ stack[t] # <<>> /\ Top(t).op \notin CountedOps
  BY TopArguments DEF DtorRest, AtTop, Running, CountedOps, RestOps
<1>2. CASE Abort("dangling_qt") \/ Abort(ClearFault(w))
  BY <1>2, AbortRefs
<1>3. CASE ~Abort("dangling_qt") /\ ~Abort(ClearFault(w))
  <2>. DEFINE way == IF pd[w].is_qobject /\ qt[a].parent # None THEN "keepDel"
                     ELSE IF pd[w].eo THEN "dropDel" ELSE "takeDel"
  <2>1. Calls(t, <<RestFrame(way, a, w)>>) /\ UNCHANGED <<wr, pd>> /\ way \in RestDelOps
    BY <1>1, <1>3 DEF DtorRest, RestDelOps
  <2>. HIDE DEF way
  <2>2. <<RestFrame(way, a, w)>> \in Seq(QuietFrame)
    <3>1. RestFrame(way, a, w) \in QuietFrame
      BY <2>1, QuietFrames DEF RestOps
    <3>. QED  BY <3>1
  <2>. QED  BY <1>1, <2>1, <2>2, UnchangedSteady, QuietCalls
<1>. QED  BY <1>2, <1>3

LEMMA DtorRestEndRefs ==
    ASSUME TypeOK, TypeOK', RefsInv, NEW t \in Thread, DtorRestEnd(t)
    PROVE  RefsInv'
<1>1. PICK w \in Wrap, a \in Addr :
        w = Top(t).w /\ a = Top(t).a /\ stack[t] # <<>> /\ Top(t).op \notin CountedOps
  BY TopArguments DEF DtorRestEnd, Running, CountedOps, RestOps, RestEndOps
<1>2. /\ Reset(w) /\ UNCHANGED wr
      /\ \/ Calls(t, <<>>)
         \/ Calls(t, <<WFrame("objRefDrop", w)>>)
         \/ Calls(t, <<WFrame("objRefDrop", w), AFrame("qtDestroy", a)>>)
  BY <1>1 DEF DtorRestEnd, RestEndOps
<1>3. WFrame("objRefDrop", w) \in QuietFrame /\ AFrame("qtDestroy", a) \in QuietFrame
  BY QuietFrames DEF AOps, WOps, CountedOps
<1>4. /\ <<>> \in Seq(QuietFrame) /\ <<WFrame("objRefDrop", w)>> \in Seq(QuietFrame)
      /\ <<WFrame("objRefDrop", w), AFrame("qtDestroy", a)>> \in Seq(QuietFrame)
  BY <1>3, Seqs
<1>5. AllSteady
  BY <1>2, ClearSteady
<1>. QED  BY <1>1, <1>2, <1>4, <1>5, QuietCalls

\* The frame that clears private data goes on in its place.
LEMMA MapDelStep ==
    ASSUME TypeOK, NEW t \in Thread, MapDel(t)
    PROVE  /\ stack[t] # <<>> /\ Top(t).op \in DelOps /\ Top(t).w \in Wrap
           /\ \/ \E g : Abort(g)
              \/ \E g \in Frame :
                    /\ g = [Top(t) EXCEPT !.op = EndOf(Top(t).op)]
                    /\ g.op \in EndOps /\ g.w = Top(t).w /\ Calls(t, <<g>>)
                    /\ DelFault(Top(t).w) = None
                    /\ map' = IF pd[Top(t).w].obj = None THEN map
                              ELSE [map EXCEPT ![pd[Top(t).w].obj] = None]
                    /\ UNCHANGED <<qt, wr, pd, qwm, fault>>
<1>. DEFINE f == [Top(t) EXCEPT !.op = EndOf(Top(t).op)]
<1>1. stack[t] # <<>> /\ Top(t).op \in DelOps /\ Top(t) \in Frame
  BY TopType DEF MapDel, AtDel, Running, TypeOK
<1>2. f \in Frame /\ f.op \in EndOps /\ f.w = Top(t).w /\ Top(t).w \in Wrap
  BY <1>1, EndFrameType
<1>3. CASE Abort(DelFault(Top(t).w))
  BY <1>1, <1>2, <1>3
<1>4. CASE ~Abort(DelFault(Top(t).w))
  <2>1. /\ Calls(t, <<f>>) /\ DelFault(Top(t).w) = None
        /\ map' = IF pd[Top(t).w].obj = None THEN map
                  ELSE [map EXCEPT ![pd[Top(t).w].obj] = None]
        /\ UNCHANGED <<qt, wr, pd, qwm, fault>>
    BY <1>4 DEF MapDel
  <2>. HIDE DEF f
  <2>2. f = [Top(t) EXCEPT !.op = EndOf(Top(t).op)]
    BY DEF f
  <2>. QED  BY <1>1, <1>2, <2>1, <2>2
<1>. QED  BY <1>3, <1>4

LEMMA MapDelRefs ==
    ASSUME TypeOK, TypeOK', RefsInv, NEW t \in Thread, MapDel(t)
    PROVE  RefsInv'
<1>1. CASE \E g : Abort(g)
  BY <1>1, AbortRefs
<1>2. CASE \E g \in Frame : g.op \in EndOps /\ Calls(t, <<g>>) /\ UNCHANGED <<wr, pd>>
  <2>1. PICK g \in Frame : g.op \in EndOps /\ Calls(t, <<g>>) /\ UNCHANGED <<wr, pd>>
    BY <1>2
  <2>2. g \in QuietFrame
    BY <2>1 DEF QuietFrame, CountedOps, EndOps, RestEndOps
  <2>3. <<g>> \in Seq(QuietFrame)
    BY <2>2
  <2>4. stack[t] # <<>> /\ Top(t).op \notin CountedOps
    BY MapDelStep DEF CountedOps, DelOps, RestDelOps
  <2>. QED  BY <2>1, <2>3, <2>4, UnchangedSteady, QuietCalls
<1>. QED  BY <1>1, <1>2, MapDelStep

LEMMA QtDestroyRefs ==
    ASSUME TypeOK, TypeOK', RefsInv, NEW t \in Thread, QtDestroy(t)
    PROVE  RefsInv'
<1>1. PICK a \in Addr : a = Top(t).a /\ stack[t] # <<>> /\ Top(t).op \notin CountedOps
  BY TopArguments DEF QtDestroy, AtTop, Running, AOps, CountedOps
<1>2. CASE ~Live(a)
  BY <1>1, <1>2, AbortRefs DEF QtDestroy
<1>3. CASE Live(a)
  <2>. DEFINE fs == IF qt[a].bound
                    THEN <<AFrame("deleted", a), AFrame("qtFree", a)>>
                    ELSE <<AFrame("qtFree", a)>>
  <2>1. Calls(t, fs) /\ UNCHANGED <<wr, pd>>
    BY <1>1, <1>3 DEF QtDestroy
  <2>2. AFrame("deleted", a) \in QuietFrame /\ AFrame("qtFree", a) \in QuietFrame
    BY QuietFrames DEF AOps
  <2>3. fs \in Seq(QuietFrame)
    BY <2>2, Seqs
  <2>. HIDE DEF fs
  <2>. QED  BY <1>1, <2>1, <2>3, UnchangedSteady, QuietCalls
<1>. QED  BY <1>2, <1>3

LEMMA QtFreeRefs ==
    ASSUME TypeOK, TypeOK', RefsInv, NEW t \in Thread, QtFree(t)
    PROVE  RefsInv'
<1>1. PICK a \in Addr : a = Top(t).a /\ stack[t] # <<>> /\ Top(t).op \notin CountedOps
  BY TopArguments DEF QtFree, AtTop, Running, AOps, CountedOps
<1>2. AllSteady
  <2>1. /\ pd' = [w \in Wrap |-> IF pd[w].obj = a /\ pd[w].is_qobject
                                 THEN [pd[w] EXCEPT !.obj = None] ELSE pd[w]]
        /\ UNCHANGED wr
    BY <1>1 DEF QtFree
  <2>2. pd \in [Wrap -> PdRecord]
    BY DEF TypeOK
  <2>. QED  BY <2>1, <2>2 DEF AllSteady, Steady, PdRecord
<1>3. Return(t) \/ \E c \in Addr : Enter(t, <<AFrame("qtDestroy", c)>>)
  BY <1>1 DEF QtFree, Children
<1>4. \A c \in Addr : <<AFrame("qtDestroy", c)>> \in Seq(QuietFrame)
  BY QuietFrames DEF AOps
<1>. QED  BY <1>1, <1>2, <1>3, <1>4, QuietReturn, QuietEnter

LEMMA DeletedRefs ==
    ASSUME TypeOK, TypeOK', RefsInv, NEW t \in Thread, Deleted(t)
    PROVE  RefsInv'
<1>1. PICK a \in Addr : a = Top(t).a /\ stack[t] # <<>> /\ Top(t).op \notin CountedOps
  BY TopArguments DEF Deleted, AtTop, Running, AOps, CountedOps
<1>2. PICK w \in Wrap \cup {None} : w = map[a]
  BY DEF TypeOK
<1>3. Calls(t, IF w = None THEN <<>> ELSE <<WFrame("hold", w)>>) /\ UNCHANGED <<wr, pd>>
  BY <1>1, <1>2 DEF Deleted
<1>4. /\ <<>> \in Seq(QuietFrame)
      /\ w \in Wrap => <<WFrame("hold", w)>> \in Seq(QuietFrame)
  BY QuietFrames DEF WOps, CountedOps
<1>5. CASE w = None
  BY <1>1, <1>3, <1>4, <1>5, UnchangedSteady, QuietCalls
<1>6. CASE w # None
  BY <1>1, <1>3, <1>4, <1>6, UnchangedSteady, QuietCalls
<1>. QED  BY <1>5, <1>6

LEMMA HoldRefs ==
    ASSUME TypeOK, TypeOK', RefsInv, NEW t \in Thread, Hold(t)
    PROVE  RefsInv'
<1>1. PICK w \in Wrap : w = Top(t).w /\ stack[t] # <<>> /\ Top(t).op \notin CountedOps
  BY TopArguments DEF Hold, AtTop, Running, WOps, CountedOps
<1>2. CASE Abort("wrapper_gone")
  BY <1>2, AbortRefs
<1>3. CASE Return(t) /\ UNCHANGED <<wr, pd>>
  BY <1>1, <1>3, UnchangedSteady, QuietReturn
<1>4. CASE /\ pd' = [pd EXCEPT ![w].refs = pd[w].refs + 1] /\ UNCHANGED wr
           /\ Calls(t, <<WFrame("externalDelete", w), WFrame("pdDeref", w)>>)
  <2>1. WFrame("externalDelete", w) \in QuietFrame /\ WFrame("pdDeref", w) \in QuietFrame
    BY QuietFrames DEF WOps, CountedOps
  <2>2. <<WFrame("externalDelete", w), WFrame("pdDeref", w)>> \in Seq(QuietFrame)
    BY <2>1, Seqs
  <2>3. AllSteady
    BY <1>4, FieldSteady
  <2>. QED  BY <1>1, <1>4, <2>2, <2>3, QuietCalls
<1>. QED  BY <1>1, <1>2, <1>3, <1>4 DEF Hold

LEMMA ExternalDeleteRefs ==
    ASSUME TypeOK, TypeOK', RefsInv, NEW t \in Thread, ExternalDelete(t)
    PROVE  RefsInv'
<1>1. PICK w \in Wrap : w = Top(t).w /\ stack[t] # <<>> /\ Top(t).op \notin CountedOps
  BY TopArguments DEF ExternalDelete, AtTop, Running, WOps, CountedOps
<1>2. CASE Abort(ClearFault(w))
  BY <1>2, AbortRefs
<1>3. CASE ~Abort(ClearFault(w))
  <2>1. PICK op \in {"externalDel", "objRefDrop"} :
          Calls(t, <<WFrame(op, w)>>) /\ UNCHANGED <<wr, pd>>
    BY <1>1, <1>3 DEF ExternalDelete
  <2>2. <<WFrame(op, w)>> \in Seq(QuietFrame)
    BY QuietFrames DEF WOps, CountedOps
  <2>. QED  BY <1>1, <2>1, <2>2, UnchangedSteady, QuietCalls
<1>. QED  BY <1>2, <1>3

LEMMA ReturnToQtEndRefs ==
    ASSUME TypeOK, TypeOK', RefsInv, NEW t \in Thread, ReturnToQtEnd(t)
    PROVE  RefsInv'
<1>1. PICK w \in Wrap : w = Top(t).w /\ stack[t] # <<>> /\ Top(t).op \notin CountedOps
  BY TopArguments DEF ReturnToQtEnd, AtTop, Running, WOps, CountedOps
<1>2. Reset(w) /\ Return(t) /\ UNCHANGED wr
  BY <1>1 DEF ReturnToQtEnd
<1>. QED  BY <1>1, <1>2, ClearSteady, QuietReturn

LEMMA MethodCallRefs ==
    ASSUME TypeOK, TypeOK', RefsInv, NEW t \in Thread, MethodCall(t)
    PROVE  RefsInv'
<1>1. stack[t] # <<>> /\ Top(t).op \notin CountedOps
  BY DEF MethodCall, AtTop, Running, CountedOps
<1>2. CASE Abort("null_this") \/ Abort("dangling_this")
  BY <1>2, AbortRefs
<1>3. CASE Return(t) /\ UNCHANGED <<wr, pd>>
  BY <1>1, <1>3, UnchangedSteady, QuietReturn
<1>. QED  BY <1>2, <1>3 DEF MethodCall

\* Qt by itself, and the calls of the program that only enter quiet frames
LEMMA QtActsRefs ==
    ASSUME TypeOK, TypeOK', RefsInv, NEW t \in Thread, QtActs(t)
    PROVE  RefsInv'
<1>1. CASE \E a \in Addr : QtDelete(t, a)
  <2>1. PICK a \in Addr : Enter(t, <<AFrame("qtDestroy", a)>>) /\ UNCHANGED <<wr, pd>>
    BY <1>1 DEF QtDelete
  <2>2. <<AFrame("qtDestroy", a)>> \in Seq(QuietFrame)
    BY QuietFrames DEF AOps
  <2>. QED  BY <2>1, <2>2, UnchangedSteady, QuietEnter
<1>2. CASE UNCHANGED <<wr, pd, stack>>
  BY <1>2, UnchangedSteady, QuietStack
<1>. QED  BY <1>1, <1>2 DEF QtActs, QtReparent, QtCreate

LEMMA OwnershipRefs ==
    ASSUME TypeOK, TypeOK', RefsInv, NEW t \in Thread, NEW w \in Wrap,
           \/ SetExternallyOwned(t, w)
           \/ \E p \in Addr \cup {None} : SetParent(t, w, p)
    PROVE  RefsInv'
<1>1. CASE SetExternallyOwned(t, w)
  BY <1>1, FieldSteady, QuietStack DEF SetExternallyOwned
<1>2. CASE \E p \in Addr \cup {None} : SetParent(t, w, p)
  <2>1. CASE Abort("qwm_add")
    BY <2>1, AbortRefs
  <2>2. CASE UNCHANGED <<wr, pd, stack>>
    BY <2>2, UnchangedSteady, QuietStack
  <2>. QED  BY <1>2, <2>1, <2>2 DEF SetParent
<1>. QED  BY <1>1, <1>2

LEMMA CommonMethodRefs ==
    ASSUME TypeOK, TypeOK', RefsInv, NEW t \in Thread, NEW w \in Wrap, CommonMethod(t, w)
    PROVE  RefsInv'
<1>1. /\ Enter(t, <<WFrame("methodCall", w), WFrame("pdDeref", w)>>) /\ UNCHANGED wr
      /\ pd' = [pd EXCEPT ![w].refs = pd[w].refs + 1]
  BY DEF CommonMethod
<1>2. WFrame("methodCall", w) \in QuietFrame /\ WFrame("pdDeref", w) \in QuietFrame
  BY QuietFrames DEF WOps, CountedOps
<1>3. <<WFrame("methodCall", w), WFrame("pdDeref", w)>> \in Seq(QuietFrame)
  BY <1>2, Seqs
<1>4. AllSteady
  BY <1>1, FieldSteady
<1>. QED  BY <1>1, <1>3, <1>4, QuietEnter

LEMMA LookupQuiet ==
    ASSUME TypeOK, NEW a \in Addr, NEW miss \in {"mapMiss", "mapMissOwned", "mapMissCopy"}
    PROVE  <<Lookup(a, miss)>> \in Seq(QuietFrame)
<1>1. Lookup(a, miss) \in QuietFrame
  BY QuietFrames DEF Lookup, WOps, AOps, CountedOps, TypeOK
<1>. QED  BY <1>1

LEMMA ReturnsRefs ==
    ASSUME TypeOK, TypeOK', RefsInv, NEW t \in Thread, NEW a \in Addr,
           ReturnByValue(t, a) \/ \E const \in BOOLEAN : ReturnObject(t, a, const)
    PROVE  RefsInv'
<1>1. /\ UNCHANGED <<wr, pd>>
      /\ \E miss \in {"mapMiss", "mapMissOwned", "mapMissCopy"} : Enter(t, <<Lookup(a, miss)>>)
  BY DEF ReturnByValue, ReturnObject
<1>. QED  BY <1>1, LookupQuiet, UnchangedSteady, QuietEnter

-----------------------------------------------------------------------------
(* Steps that owe, give back or construct *)

\* fs owes one reference, to v, and constructs nothing
OwesOnce(fs, v) ==
    /\ fs \in Seq(Frame)
    /\ \A w \in Wrap \ {v}, j \in 1..Len(fs) : fs[j] \notin OwingFrames(w)
    /\ \A w \in Wrap, j \in 1..Len(fs) : fs[j] \notin CtorFrames(w)
    /\ \E j \in 1..Len(fs) : /\ fs[j] \in OwingFrames(v)
                             /\ \A k \in 1..Len(fs) : fs[k] \in OwingFrames(v) => k = j

LEMMA OwesOnceFrames ==
    ASSUME NEW v \in Wrap
    PROVE  /\ OwesOnce(<<WFrame("deref", v)>>, v)
           /\ OwesOnce(<<WFrame("pdDeref", v), WFrame("deref", v)>>, v)
           /\ OwesOnce(<<WFrame("returnDel", v), WFrame("pdDeref", v), WFrame("deref", v)>>, v)
           /\ OwesOnce(DestructorFrames(v), v)
           /\ OwesOnce(Append(DestructorFrames(v), WFrame("objRefDrop", v)), v)
<1>. DEFINE d == WFrame("deref", v)
            p == WFrame("pdDeref", v)
            u == WFrame("userDtor", v)
            c == WFrame("commonDtor", v)
            e == WFrame("endDelete", v)
            o == WFrame("objRefDrop", v)
            r == WFrame("returnDel", v)
<1>1. {d, p, u, c, e, o, r} \subseteq Frame
  BY WFrameType DEF WOps
<1>2. /\ d \in OwingFrames(v) /\ e \in OwingFrames(v)
      /\ \A w \in Wrap : \A f \in {p, u, c, o, r} : f \notin OwingFrames(w)
      /\ \A w \in Wrap : \A f \in {d, p, u, c, e, o, r} : f \notin CtorFrames(w)
      /\ \A w \in Wrap \ {v} : d \notin OwingFrames(w) /\ e \notin OwingFrames(w)
  <2>1. \A op, w : /\ WFrame(op, v) \in OwingFrames(w) <=> op \in {"endDelete", "deref"} /\ v = w
                   /\ WFrame(op, v) \in CtorFrames(w) <=> op = "ctorBody" /\ v = w
    BY OwingWFrame
  <2>2. d \in OwingFrames(v) /\ e \in OwingFrames(v)
    BY <2>1
  <2>3. ASSUME NEW w \in Wrap
        PROVE  /\ p \notin OwingFrames(w) /\ u \notin OwingFrames(w)
               /\ c \notin OwingFrames(w) /\ o \notin OwingFrames(w)
               /\ r \notin OwingFrames(w)
    BY <2>1
  <2>4. ASSUME NEW w \in Wrap
        PROVE  /\ d \notin CtorFrames(w) /\ p \notin CtorFrames(w) /\ u \notin CtorFrames(w)
               /\ c \notin CtorFrames(w) /\ e \notin CtorFrames(w) /\ o \notin CtorFrames(w)
               /\ r \notin CtorFrames(w)
    BY <2>1
  <2>5. \A w \in Wrap \ {v} : d \notin OwingFrames(w) /\ e \notin OwingFrames(w)
    BY <2>1
  <2>. HIDE DEF d, p, u, c, e, o, r
  <2>. QED  BY <2>2, <2>3, <2>4, <2>5
<1>3. DestructorFrames(v) = <<u, c, e>>
  BY DEF DestructorFrames
<1>. HIDE DEF d, p, u, c, e, o, r
<1>4. OwesOnce(<<d>>, v)
  <2>1. <<d>> \in Seq(Frame) /\ Len(<<d>>) = 1 /\ <<d>>[1] = d
    BY <1>1
  <2>. QED  BY <1>2, <2>1 DEF OwesOnce
<1>5. OwesOnce(<<p, d>>, v)
  <2>. DEFINE s == <<p, d>>
  <2>1. s \in Seq(Frame) /\ Len(s) = 2 /\ s[1] = p /\ s[2] = d
    BY <1>1
  <2>. HIDE DEF s
  <2>2. OwesOnce(s, v)
    BY <1>2, <2>1 DEF OwesOnce
  <2>. QED  BY <2>2 DEF s
<1>6. OwesOnce(<<u, c, e>>, v)
  <2>. DEFINE s == <<u, c, e>>
  <2>1. s \in Seq(Frame) /\ Len(s) = 3 /\ s[1] = u /\ s[2] = c /\ s[3] = e
    BY <1>1
  <2>. HIDE DEF s
  <2>2. OwesOnce(s, v)
    BY <1>2, <2>1 DEF OwesOnce
  <2>. QED  BY <2>2 DEF s
<1>7. OwesOnce(Append(<<u, c, e>>, o), v)
  <2>. DEFINE s == Append(<<u, c, e>>, o)
  <2>1. s \in Seq(Frame) /\ Len(s) = 4 /\ s[1] = u /\ s[2] = c /\ s[3] = e /\ s[4] = o
    BY <1>1
  <2>. HIDE DEF s
  <2>2. OwesOnce(s, v)
    BY <1>2, <2>1 DEF OwesOnce
  <2>. QED  BY <2>2 DEF s
<1>8. OwesOnce(<<r, p, d>>, v)
  <2>. DEFINE s == <<r, p, d>>
  <2>1. s \in Seq(Frame) /\ Len(s) = 3 /\ s[1] = r /\ s[2] = p /\ s[3] = d
    BY <1>1
  <2>. HIDE DEF s
  <2>2. OwesOnce(s, v)
    BY <1>2, <2>1 DEF OwesOnce
  <2>. QED  BY <2>2 DEF s
<1>. QED  BY <1>3, <1>4, <1>5, <1>6, <1>7, <1>8 DEF d, p, u, c, e, o, r

LEMMA CallsOwing ==
    ASSUME TypeOK, TypeOK', NEW t \in Thread, stack[t] # <<>>, NEW v \in Wrap, NEW fs,
           OwesOnce(fs, v), Calls(t, fs), IsFiniteSet(Places(OwingFrames(v)))
    PROVE  /\ IsFiniteSet(Places(OwingFrames(v)))'
           /\ Top(t) \in OwingFrames(v) => Owed(v)' = Owed(v) /\ Owed(v) >= 1
           /\ Top(t) \notin OwingFrames(v) => Owed(v)' = Owed(v) + 1
<1>1. Replaces(t, 1, fs) /\ 1 \in 0..1 /\ 1 <= Len(stack[t]) /\ fs \in Seq(Frame)
  BY CallsReplaces DEF TypeOK, OwesOnce
<1>2. PICK j \in 1..Len(fs) : /\ fs[j] \in OwingFrames(v)
                              /\ \A k \in 1..Len(fs) : fs[k] \in OwingFrames(v) => k = j
  BY DEF OwesOnce
<1>3. CASE Top(t) \in OwingFrames(v)
  <2>1. /\ TopPlace(t) \in Places(OwingFrames(v))
        /\ NewPlace(t, 1, fs, j) \notin Places(OwingFrames(v)) \ {TopPlace(t)}
        /\ Places(OwingFrames(v))' =
               (Places(OwingFrames(v)) \ {TopPlace(t)}) \cup {NewPlace(t, 1, fs, j)}
    BY <1>1, <1>2, <1>3, PlacesSwapped
  <2>2. Cardinality(Places(OwingFrames(v))) \in Nat /\ Cardinality(Places(OwingFrames(v))) # 0
    BY <2>1, FS_EmptySet, FS_CardinalityType
  <2>3. Owed(v) >= 1
    BY <2>2 DEF Owed
  <2>. QED  BY <1>3, <2>1, <2>3, OwedSwapped
<1>4. CASE Top(t) \notin OwingFrames(v)
  <2>1. /\ NewPlace(t, 1, fs, j) \notin Places(OwingFrames(v))
        /\ Places(OwingFrames(v))' = Places(OwingFrames(v)) \cup {NewPlace(t, 1, fs, j)}
    BY <1>1, <1>2, <1>4, PlacesAdded
  <2>. QED  BY <1>4, <2>1, OwedAdded
<1>. QED  BY <1>3, <1>4

LEMMA EnterOwing ==
    ASSUME TypeOK, TypeOK', NEW t \in Thread, NEW v \in Wrap, NEW fs,
           OwesOnce(fs, v), Enter(t, fs), IsFiniteSet(Places(OwingFrames(v)))
    PROVE  IsFiniteSet(Places(OwingFrames(v)))' /\ Owed(v)' = Owed(v) + 1
<1>1. Replaces(t, 0, fs) /\ 0 \in 0..1 /\ 0 <= Len(stack[t]) /\ fs \in Seq(Frame)
  BY EnterReplaces DEF TypeOK, OwesOnce
<1>2. PICK j \in 1..Len(fs) : /\ fs[j] \in OwingFrames(v)
                              /\ \A k \in 1..Len(fs) : fs[k] \in OwingFrames(v) => k = j
  BY DEF OwesOnce
<1>3. /\ NewPlace(t, 0, fs, j) \notin Places(OwingFrames(v))
      /\ Places(OwingFrames(v))' = Places(OwingFrames(v)) \cup {NewPlace(t, 0, fs, j)}
  BY <1>1, <1>2, PlacesAdded
<1>. QED  BY <1>3, OwedAdded

LEMMA CallsNotOwing ==
    ASSUME TypeOK, TypeOK', NEW t \in Thread, stack[t] # <<>>, NEW v \in Wrap,
           NEW fs \in Seq(QuietFrame), Calls(t, fs), IsFiniteSet(Places(OwingFrames(v)))
    PROVE  /\ IsFiniteSet(Places(OwingFrames(v)))'
           /\ Top(t) \in OwingFrames(v) => Owed(v)' = Owed(v) - 1
           /\ Top(t) \notin OwingFrames(v) => Owed(v)' = Owed(v)
<1>1. /\ Replaces(t, 1, fs) /\ 1 \in 0..1 /\ 1 <= Len(stack[t]) /\ fs \in Seq(Frame)
      /\ \A j \in 1..Len(fs) : fs[j] \notin OwingFrames(v)
  BY CallsReplaces, QuietSeq DEF TypeOK
<1>2. CASE Top(t) \in OwingFrames(v)
  <2>1. /\ TopPlace(t) \in Places(OwingFrames(v))
        /\ Places(OwingFrames(v))' = Places(OwingFrames(v)) \ {TopPlace(t)}
    BY <1>1, <1>2, PlacesDropped
  <2>. QED  BY <1>2, <2>1, OwedDropped
<1>3. CASE Top(t) \notin OwingFrames(v)
  <2>1. Places(OwingFrames(v))' = Places(OwingFrames(v))
    BY <1>1, <1>3, PlacesKept
  <2>. QED  BY <1>3, <2>1, OwedKept
<1>. QED  BY <1>2, <1>3

\* Calls that construct nothing leave the constructions, or end the one at the top.
LEMMA CallsCtors ==
    ASSUME TypeOK, TypeOK', NEW t \in Thread, stack[t] # <<>>, NEW w \in Wrap,
           NEW fs \in Seq(Frame), \A j \in 1..Len(fs) : fs[j] \notin CtorFrames(w),
           Calls(t, fs), HeldByCtor(w)
    PROVE  /\ Top(t) \notin CtorFrames(w) => Places(CtorFrames(w))' = Places(CtorFrames(w))
           /\ Top(t) \in CtorFrames(w) => /\ wr[w].held >= 1
                                          /\ Places(CtorFrames(w))' = {}
<1>1. Replaces(t, 1, fs) /\ 1 \in 0..1 /\ 1 <= Len(stack[t])
  BY CallsReplaces DEF TypeOK
<1>2. CASE Top(t) \notin CtorFrames(w)
  BY <1>1, <1>2, PlacesKept
<1>3. CASE Top(t) \in CtorFrames(w)
  <2>1. /\ TopPlace(t) \in Places(CtorFrames(w))
        /\ Places(CtorFrames(w))' = Places(CtorFrames(w)) \ {TopPlace(t)}
    BY <1>1, <1>3, PlacesDropped
  <2>2. Places(CtorFrames(w)) = {TopPlace(t)}
    BY <2>1 DEF HeldByCtor
  <2>. QED  BY <1>3, <2>1, <2>2 DEF HeldByCtor
<1>. QED  BY <1>2, <1>3

LEMMA EnterCtors ==
    ASSUME TypeOK, TypeOK', NEW t \in Thread, NEW w \in Wrap,
           NEW fs \in Seq(Frame), \A j \in 1..Len(fs) : fs[j] \notin CtorFrames(w),
           Enter(t, fs)
    PROVE  Places(CtorFrames(w))' = Places(CtorFrames(w))
<1>1. Replaces(t, 0, fs) /\ 0 \in 0..1 /\ 0 <= Len(stack[t])
  BY EnterReplaces DEF TypeOK
<1>. QED  BY <1>1, PlacesKept

\* the wrappers that are not concerned
LEMMA OthersCalls ==
    ASSUME TypeOK, TypeOK', RefsInv, NEW t \in Thread, stack[t] # <<>>, NEW v \in Wrap,
           Top(t).op \in CountedOps => Top(t).w = v, NEW fs,
           OwesOnce(fs, v) \/ fs \in Seq(QuietFrame), Calls(t, fs),
           NEW w \in Wrap \ {v}, Steady(w)
    PROVE  Accounted(w)' /\ HeldByCtor(w)'
<1>1. Accounted(w) /\ HeldByCtor(w)
  BY DEF RefsInv
<1>2. Top(t) \notin OwingFrames(w) /\ Top(t) \notin CtorFrames(w)
  BY OwingTop DEF CountedOps
<1>3. /\ fs \in Seq(Frame)
      /\ \A j \in 1..Len(fs) : fs[j] \notin OwingFrames(w) /\ fs[j] \notin CtorFrames(w)
  BY QuietSeq DEF OwesOnce
<1>. QED  BY <1>1, <1>2, <1>3, FramesElsewhere

LEMMA OthersEnter ==
    ASSUME TypeOK, TypeOK', RefsInv, NEW t \in Thread, NEW v \in Wrap, NEW fs,
           OwesOnce(fs, v), Enter(t, fs), NEW w \in Wrap \ {v}, Steady(w)
    PROVE  Accounted(w)' /\ HeldByCtor(w)'
<1>1. Accounted(w) /\ HeldByCtor(w)
  BY DEF RefsInv
<1>2. /\ fs \in Seq(Frame)
      /\ \A j \in 1..Len(fs) : fs[j] \notin OwingFrames(w) /\ fs[j] \notin CtorFrames(w)
  BY DEF OwesOnce
<1>. QED  BY <1>1, <1>2, EnterElsewhere

\* the numbers of an account
LEMMA AccountNumbers ==
    ASSUME TypeOK, NEW w \in Wrap, Accounted(w)
    PROVE  /\ wr[w].refs \in Int /\ wr[w].held \in Int /\ Owed(w) \in Nat
           /\ wr[w].refs >= wr[w].held + Owed(w)
           /\ pd[w].obj_ref => wr[w].refs = wr[w].held + Owed(w) + 1
           /\ ~pd[w].obj_ref => wr[w].refs = wr[w].held + Owed(w)
<1>1. Owed(w) \in Nat /\ wr[w].refs \in Int /\ wr[w].held \in Int
  BY OwedNat, WrFields DEF Accounted
<1>. QED  BY <1>1 DEF Accounted

LEMMA EndDeleteRefs ==
    ASSUME TypeOK, TypeOK', RefsInv, NEW t \in Thread, EndDelete(t)
    PROVE  RefsInv'
<1>1. PICK v \in Wrap : v = Top(t).w /\ stack[t] # <<>> /\ Top(t).op = "endDelete"
  BY TopArguments DEF EndDelete, AtTop, Running, WOps
<1>2. /\ wr' = [wr EXCEPT ![v].status = "deleted"] /\ UNCHANGED pd
      /\ Calls(t, <<WFrame("deref", v)>>) /\ OwesOnce(<<WFrame("deref", v)>>, v)
  BY <1>1, OwesOnceFrames DEF EndDelete
<1>3. Top(t) \in OwingFrames(v) /\ Top(t) \notin CtorFrames(v)
  BY <1>1, OwingTop
<1>4. wr \in [Wrap -> WrRecord]
  BY DEF TypeOK
<1>5. /\ wr'[v].held = wr[v].held /\ wr'[v].refs = wr[v].refs /\ wr'[v].status = "deleted"
      /\ \A w \in Wrap \ {v} : Steady(w)
  BY <1>2, <1>4 DEF WrRecord, Steady
<1>6. Accounted(v) /\ HeldByCtor(v)
  BY DEF RefsInv
<1>7. IsFiniteSet(Places(OwingFrames(v)))' /\ Owed(v)' = Owed(v)
  BY <1>1, <1>2, <1>3, <1>6, CallsOwing DEF Accounted
<1>8. Accounted(v)'
  BY <1>2, <1>5, <1>6, <1>7 DEF Accounted
<1>9. Places(CtorFrames(v))' = Places(CtorFrames(v))
  BY <1>1, <1>2, <1>3, <1>6, CallsCtors DEF OwesOnce
<1>10. HeldByCtor(v)'
  BY <1>5, <1>6, <1>9 DEF HeldByCtor
<1>11. \A w \in Wrap \ {v} : Accounted(w)' /\ HeldByCtor(w)'
  BY <1>1, <1>2, <1>5, OthersCalls
<1>. QED  BY <1>8, <1>10, <1>11 DEF RefsInv

LEMMA DerefRefs ==
    ASSUME TypeOK, TypeOK', RefsInv, NEW t \in Thread, Deref(t)
    PROVE  RefsInv'
<1>1. PICK v \in Wrap : v = Top(t).w /\ stack[t] # <<>> /\ Top(t).op = "deref"
  BY TopArguments DEF Deref, AtTop, Running, WOps
<1>2. Top(t) \in OwingFrames(v) /\ Top(t) \notin CtorFrames(v)
  BY <1>1, OwingTop
<1>3. wr \in [Wrap -> WrRecord] /\ pd \in [Wrap -> PdRecord] /\ pd[v].obj_ref \in BOOLEAN
  BY PdFields DEF TypeOK
<1>4. Accounted(v) /\ HeldByCtor(v)
  BY DEF RefsInv
<1>5. /\ wr[v].refs \in Int /\ wr[v].held \in Int /\ Owed(v) \in Nat /\ wr[v].held >= 0
      /\ pd[v].obj_ref => wr[v].refs = wr[v].held + Owed(v) + 1
      /\ ~pd[v].obj_ref => wr[v].refs = wr[v].held + Owed(v)
  BY <1>4, AccountNumbers DEF Accounted
<1>6. <<>> \in Seq(QuietFrame)
  OBVIOUS
<1>7. Owed(v) >= 1
  <2>1. TopPlace(t) \in Places(OwingFrames(v)) /\ IsFiniteSet(Places(OwingFrames(v)))
    BY <1>1, <1>2, <1>4, TopPlaced DEF Accounted
  <2>2. Owed(v) # 0
    BY <2>1, FS_EmptySet DEF Owed
  <2>. QED  BY <1>5, <2>2
<1>0. ASSUME Return(t)
      PROVE  /\ Calls(t, <<>>)
             /\ IsFiniteSet(Places(OwingFrames(v)))' /\ Owed(v)' = Owed(v) - 1
             /\ Places(CtorFrames(v))' = Places(CtorFrames(v))
  <2>1. Calls(t, <<>>)
    BY <1>0 DEF Return
  <2>2. IsFiniteSet(Places(OwingFrames(v)))' /\ Owed(v)' = Owed(v) - 1
    BY <1>1, <1>2, <1>4, <1>6, <2>1, CallsNotOwing DEF Accounted
  <2>3. Places(CtorFrames(v))' = Places(CtorFrames(v))
    BY <1>1, <1>2, <1>4, <1>6, <2>1, CallsCtors, QuietSeq
  <2>. QED  BY <2>1, <2>2, <2>3
<1>8. CASE Abort("wrapper_gone")
  BY <1>8, AbortRefs
<1>9. CASE wr[v].refs > 1 /\ wr' = [wr EXCEPT ![v].refs = wr[v].refs - 1]
           /\ UNCHANGED pd /\ Return(t) /\ wr[v].status # "free"
  <2>2. Calls(t, <<>>)
    BY <1>0, <1>9
  <2>3. /\ wr'[v].held = wr[v].held /\ wr'[v].refs = wr[v].refs - 1
        /\ wr'[v].status # "free" /\ \A w \in Wrap \ {v} : Steady(w)
    BY <1>3, <1>9 DEF WrRecord, Steady
  <2>4. IsFiniteSet(Places(OwingFrames(v)))' /\ Owed(v)' = Owed(v) - 1
    BY <1>0, <1>9
  <2>5. Accounted(v)'
    BY <1>5, <1>9, <2>3, <2>4 DEF Accounted
  <2>6. Places(CtorFrames(v))' = Places(CtorFrames(v))
    BY <1>0, <1>9
  <2>7. HeldByCtor(v)'
    BY <1>4, <2>3, <2>6 DEF HeldByCtor
  <2>8. \A w \in Wrap \ {v} : Accounted(w)' /\ HeldByCtor(w)'
    BY <1>1, <1>6, <2>2, <2>3, OthersCalls DEF CountedOps
  <2>. QED  BY <2>5, <2>7, <2>8 DEF RefsInv
<1>10. CASE /\ wr[v].refs <= 1 /\ wr[v].status = "ok"
            /\ wr' = [wr EXCEPT ![v].refs = IF pd[v].obj_ref THEN 0 ELSE 1]
            /\ pd' = [pd EXCEPT ![v].obj_ref = TRUE] /\ Return(t)
  <2>1. ~pd[v].obj_ref /\ wr[v].held = 0 /\ Owed(v) = 1
    BY <1>3, <1>5, <1>7, <1>10
  <2>2. Calls(t, <<>>)
    BY <1>0, <1>10
  <2>3. /\ wr'[v].held = 0 /\ wr'[v].refs = 1 /\ pd'[v].obj_ref = TRUE
        /\ wr'[v].status # "free" /\ \A w \in Wrap \ {v} : Steady(w)
    BY <1>3, <1>10, <2>1 DEF WrRecord, PdRecord, Steady
  <2>4. IsFiniteSet(Places(OwingFrames(v)))' /\ Owed(v)' = 0
    <3>1. IsFiniteSet(Places(OwingFrames(v)))' /\ Owed(v)' = Owed(v) - 1
      BY <1>0, <1>10
    <3>. QED  BY <2>1, <3>1
  <2>5. Accounted(v)'
    BY <2>3, <2>4 DEF Accounted
  <2>6. Places(CtorFrames(v))' = Places(CtorFrames(v))
    BY <1>0, <1>10
  <2>7. HeldByCtor(v)'
    BY <1>4, <2>1, <2>3, <2>6 DEF HeldByCtor
  <2>8. \A w \in Wrap \ {v} : Accounted(w)' /\ HeldByCtor(w)'
    BY <1>1, <1>6, <2>2, <2>3, OthersCalls DEF CountedOps
  <2>. QED  BY <2>5, <2>7, <2>8 DEF RefsInv
<1>11. CASE /\ wr[v].refs <= 1 /\ wr[v].status = "ok"
            /\ wr' = [wr EXCEPT ![v] = Wr("deleting", 1, wr[v].held)]
            /\ UNCHANGED pd /\ Calls(t, DestructorFrames(v))
  <2>1. ~pd[v].obj_ref /\ wr[v].held = 0 /\ Owed(v) = 1
    BY <1>3, <1>5, <1>7, <1>11
  <2>2. OwesOnce(DestructorFrames(v), v)
    BY OwesOnceFrames
  <2>3. /\ wr'[v].held = 0 /\ wr'[v].refs = 1 /\ pd'[v].obj_ref = FALSE
        /\ wr'[v].status # "free" /\ \A w \in Wrap \ {v} : Steady(w)
    BY <1>3, <1>11, <2>1 DEF Wr, Steady
  <2>4. IsFiniteSet(Places(OwingFrames(v)))' /\ Owed(v)' = 1
    BY <1>1, <1>2, <1>4, <1>11, <2>1, <2>2, CallsOwing DEF Accounted
  <2>5. Accounted(v)'
    BY <2>3, <2>4 DEF Accounted
  <2>6. Places(CtorFrames(v))' = Places(CtorFrames(v))
    BY <1>1, <1>2, <1>4, <1>11, <2>2, CallsCtors DEF OwesOnce
  <2>7. HeldByCtor(v)'
    BY <1>4, <2>1, <2>3, <2>6 DEF HeldByCtor
  <2>8. \A w \in Wrap \ {v} : Accounted(w)' /\ HeldByCtor(w)'
    BY <1>1, <1>11, <2>2, <2>3, OthersCalls DEF CountedOps
  <2>. QED  BY <2>5, <2>7, <2>8 DEF RefsInv
<1>12. CASE /\ wr[v].refs <= 1
            /\ wr' = [wr EXCEPT ![v] = NoWr] /\ UNCHANGED pd /\ Return(t)
  <2>1. ~pd[v].obj_ref /\ wr[v].held = 0 /\ Owed(v) = 1
    BY <1>3, <1>5, <1>7, <1>12
  <2>2. Calls(t, <<>>)
    BY <1>0, <1>12
  <2>3. /\ wr'[v].held = 0 /\ wr'[v].refs = 0 /\ pd'[v].obj_ref = FALSE
        /\ \A w \in Wrap \ {v} : Steady(w)
    BY <1>3, <1>12, <2>1 DEF NoWr, Wr, Steady
  <2>4. IsFiniteSet(Places(OwingFrames(v)))' /\ Owed(v)' = 0
    <3>1. IsFiniteSet(Places(OwingFrames(v)))' /\ Owed(v)' = Owed(v) - 1
      BY <1>0, <1>12
    <3>. QED  BY <2>1, <3>1
  <2>5. Accounted(v)'
    BY <2>3, <2>4 DEF Accounted
  <2>6. Places(CtorFrames(v))' = Places(CtorFrames(v))
    BY <1>0, <1>12
  <2>7. HeldByCtor(v)'
    BY <1>4, <2>1, <2>3, <2>6 DEF HeldByCtor
  <2>8. \A w \in Wrap \ {v} : Accounted(w)' /\ HeldByCtor(w)'
    BY <1>1, <1>6, <2>2, <2>3, OthersCalls DEF CountedOps
  <2>. QED  BY <2>5, <2>7, <2>8 DEF RefsInv
<1>. QED  BY <1>1, <1>8, <1>9, <1>10, <1>11, <1>12 DEF Deref

LEMMA ObjRefDropRefs ==
    ASSUME TypeOK, TypeOK', RefsInv, NEW t \in Thread, ObjRefDrop(t)
    PROVE  RefsInv'
<1>1. PICK v \in Wrap : v = Top(t).w /\ stack[t] # <<>> /\ Top(t).op = "objRefDrop"
  BY TopArguments DEF ObjRefDrop, AtTop, Running, WOps
<1>2. /\ pd' = [pd EXCEPT ![v].obj_ref = FALSE] /\ UNCHANGED wr
      /\ Calls(t, IF pd[v].obj_ref THEN <<WFrame("deref", v)>> ELSE <<>>)
  BY <1>1 DEF ObjRefDrop
<1>3. pd \in [Wrap -> PdRecord] /\ pd[v].obj_ref \in BOOLEAN
  BY PdFields DEF TypeOK
<1>4. pd'[v].obj_ref = FALSE /\ \A w \in Wrap \ {v} : Steady(w)
  BY <1>2, <1>3 DEF PdRecord, Steady
<1>5. CASE ~pd[v].obj_ref
  <2>1. AllSteady /\ Return(t)
    BY <1>2, <1>3, <1>4, <1>5 DEF AllSteady, Steady, Return
  <2>. QED  BY <1>1, <2>1, QuietReturn DEF CountedOps
<1>6. CASE pd[v].obj_ref
  <2>1. Calls(t, <<WFrame("deref", v)>>) /\ OwesOnce(<<WFrame("deref", v)>>, v)
    BY <1>2, <1>6, OwesOnceFrames
  <2>2. Accounted(v) /\ HeldByCtor(v)
    BY DEF RefsInv
  <2>3. Top(t) \notin OwingFrames(v) /\ Top(t) \notin CtorFrames(v)
    BY <1>1, OwingTop
  <2>4. IsFiniteSet(Places(OwingFrames(v)))' /\ Owed(v)' = Owed(v) + 1
    BY <1>1, <2>1, <2>2, <2>3, CallsOwing DEF Accounted
  <2>5. wr[v].refs = wr[v].held + Owed(v) + 1 /\ wr[v].held \in Int /\ Owed(v) \in Nat
    BY <1>6, <2>2, AccountNumbers
  <2>6. Accounted(v)'
    BY <1>2, <1>4, <2>2, <2>4, <2>5 DEF Accounted
  <2>7. Places(CtorFrames(v))' = Places(CtorFrames(v))
    BY <1>1, <2>1, <2>2, <2>3, CallsCtors DEF OwesOnce
  <2>8. HeldByCtor(v)'
    BY <1>2, <2>2, <2>7 DEF HeldByCtor
  <2>9. \A w \in Wrap \ {v} : Accounted(w)' /\ HeldByCtor(w)'
    BY <1>1, <1>4, <2>1, OthersCalls DEF CountedOps
  <2>. QED  BY <2>6, <2>8, <2>9 DEF RefsInv
<1>. QED  BY <1>5, <1>6

LEMMA ExternalDeleteEndRefs ==
    ASSUME TypeOK, TypeOK', RefsInv, NEW t \in Thread, ExternalDeleteEnd(t)
    PROVE  RefsInv'
<1>1. PICK v \in Wrap : v = Top(t).w /\ stack[t] # <<>> /\ Top(t).op = "externalEnd"
  BY TopArguments DEF ExternalDeleteEnd, AtTop, Running, WOps
<1>2. CASE Abort("wrapper_gone")
  BY <1>2, AbortRefs
<1>3. CASE Reset(v) /\ UNCHANGED wr /\ Calls(t, <<WFrame("objRefDrop", v)>>)
  <2>1. WFrame("objRefDrop", v) \in QuietFrame
    BY QuietFrames DEF WOps, CountedOps
  <2>2. <<WFrame("objRefDrop", v)>> \in Seq(QuietFrame)
    BY <2>1
  <2>. QED  BY <1>1, <1>3, <2>2, ClearSteady, QuietCalls DEF CountedOps
<1>4. CASE /\ Reset(v) /\ wr[v].status = "ok"
           /\ wr' = [wr EXCEPT ![v] = Wr("deleting", wr[v].refs + 1, wr[v].held)]
           /\ Calls(t, Append(DestructorFrames(v), WFrame("objRefDrop", v)))
  <2>. DEFINE fs == Append(DestructorFrames(v), WFrame("objRefDrop", v))
  <2>1. Calls(t, fs) /\ OwesOnce(fs, v)
    BY <1>4, OwesOnceFrames
  <2>2. Accounted(v) /\ HeldByCtor(v)
    BY DEF RefsInv
  <2>3. Top(t) \notin OwingFrames(v) /\ Top(t) \notin CtorFrames(v)
    BY <1>1, OwingTop
  <2>. HIDE DEF fs
  <2>4. wr \in [Wrap -> WrRecord]
    BY DEF TypeOK
  <2>5. /\ wr'[v].refs = wr[v].refs + 1 /\ wr'[v].held = wr[v].held /\ wr'[v].status # "free"
        /\ \A w \in Wrap \ {v} : wr'[w] = wr[w]
    BY <1>4, <2>4 DEF Wr
  <2>6. \A w \in Wrap : pd'[w].obj_ref = pd[w].obj_ref
    BY <1>4, ClearKeepsRef
  <2>7. IsFiniteSet(Places(OwingFrames(v)))' /\ Owed(v)' = Owed(v) + 1
    BY <1>1, <2>1, <2>2, <2>3, CallsOwing DEF Accounted
  <2>8. wr[v].held \in Int /\ Owed(v) \in Nat
    BY <2>2, AccountNumbers
  <2>9. Accounted(v)'
    BY <2>2, <2>5, <2>6, <2>7, <2>8 DEF Accounted
  <2>10. Places(CtorFrames(v))' = Places(CtorFrames(v))
    BY <1>1, <2>1, <2>2, <2>3, CallsCtors DEF OwesOnce
  <2>11. HeldByCtor(v)'
    BY <2>2, <2>5, <2>10 DEF HeldByCtor
  <2>12. \A w \in Wrap \ {v} : Steady(w)
    BY <2>5, <2>6 DEF Steady
  <2>13. \A w \in Wrap \ {v} : Accounted(w)' /\ HeldByCtor(w)'
    BY <1>1, <2>1, <2>12, OthersCalls DEF CountedOps
  <2>. QED  BY <2>9, <2>11, <2>13 DEF RefsInv
<1>. QED  BY <1>1, <1>2, <1>3, <1>4 DEF ExternalDeleteEnd

LEMMA ConstructorReturnsRefs ==
    ASSUME TypeOK, TypeOK', RefsInv, NEW t \in Thread, ConstructorReturns(t)
    PROVE  RefsInv'
<1>1. PICK v \in Wrap : v = Top(t).w /\ stack[t] # <<>> /\ Top(t).op = "ctorBody"
  BY TopArguments DEF ConstructorReturns, AtTop, Running, WOps
<1>2. Calls(t, <<>>) /\ UNCHANGED <<wr, pd>> /\ <<>> \in Seq(QuietFrame)
  BY DEF ConstructorReturns, Return
<1>3. Accounted(v) /\ HeldByCtor(v)
  BY DEF RefsInv
<1>4. Top(t) \notin OwingFrames(v) /\ Top(t) \in CtorFrames(v)
  BY <1>1, OwingTop
<1>5. IsFiniteSet(Places(OwingFrames(v)))' /\ Owed(v)' = Owed(v)
  BY <1>1, <1>2, <1>3, <1>4, CallsNotOwing DEF Accounted
<1>6. Places(CtorFrames(v))' = {}
  BY <1>1, <1>2, <1>3, <1>4, CallsCtors, QuietSeq
<1>7. Accounted(v)' /\ HeldByCtor(v)'
  BY <1>2, <1>3, <1>5, <1>6 DEF Accounted, HeldByCtor
<1>8. \A w \in Wrap \ {v} : Accounted(w)' /\ HeldByCtor(w)'
  BY <1>1, <1>2, OthersCalls DEF CountedOps, Steady
<1>. QED  BY <1>7, <1>8 DEF RefsInv

LEMMA ConstructorThrowsRefs ==
    ASSUME TypeOK, TypeOK', RefsInv, NEW t \in Thread, ConstructorThrows(t)
    PROVE  RefsInv'
<1>1. PICK v \in Wrap : v = Top(t).w /\ stack[t] # <<>> /\ Top(t).op = "ctorBody"
  BY TopArguments DEF ConstructorThrows, AtTop, Running, WOps
<1>2. PICK fs \in {<<WFrame("pdDeref", v), WFrame("deref", v)>>, <<WFrame("deref", v)>>} :
        /\ Calls(t, fs)
        /\ \/ /\ wr[v].refs = 1 /\ wr' = [wr EXCEPT ![v] = Wr("deleted", wr[v].refs, 0)]
              /\ pd' = [pd EXCEPT ![v].attached = FALSE]
           \/ wr' = [wr EXCEPT ![v].held = wr[v].held - 1] /\ UNCHANGED pd
  <2>1. CASE wr[v].refs = 1 /\ wr[v].status = "ok"
    <3>1. /\ wr' = [wr EXCEPT ![v] = Wr("deleted", wr[v].refs, 0)]
          /\ pd' = [pd EXCEPT ![v].attached = FALSE]
          /\ Calls(t, IF pd[v].attached
                      THEN <<WFrame("pdDeref", v), WFrame("deref", v)>>
                      ELSE <<WFrame("deref", v)>>)
      BY <1>1, <2>1 DEF ConstructorThrows
    <3>2. CASE pd[v].attached
      BY <2>1, <3>1, <3>2
    <3>3. CASE ~pd[v].attached
      BY <2>1, <3>1, <3>3
    <3>. QED  BY <3>2, <3>3
  <2>2. CASE ~(wr[v].refs = 1 /\ wr[v].status = "ok")
    BY <1>1, <2>2 DEF ConstructorThrows
  <2>. QED  BY <2>1, <2>2
<1>3. OwesOnce(fs, v)
  BY OwesOnceFrames
<1>4. Accounted(v) /\ HeldByCtor(v)
  BY DEF RefsInv
<1>5. Top(t) \notin OwingFrames(v) /\ Top(t) \in CtorFrames(v)
  BY <1>1, OwingTop
<1>6. IsFiniteSet(Places(OwingFrames(v)))' /\ Owed(v)' = Owed(v) + 1
  BY <1>1, <1>2, <1>3, <1>4, <1>5, CallsOwing DEF Accounted
<1>7. wr[v].held >= 1 /\ Places(CtorFrames(v))' = {}
  BY <1>1, <1>2, <1>3, <1>4, <1>5, CallsCtors DEF OwesOnce
<1>8. /\ wr[v].refs \in Int /\ wr[v].held \in Int /\ Owed(v) \in Nat
      /\ pd[v].obj_ref => wr[v].refs = wr[v].held + Owed(v) + 1
      /\ ~pd[v].obj_ref => wr[v].refs = wr[v].held + Owed(v)
      /\ pd[v].obj_ref \in BOOLEAN
  BY <1>4, AccountNumbers, PdFields
<1>9. wr \in [Wrap -> WrRecord] /\ pd \in [Wrap -> PdRecord]
  BY DEF TypeOK
<1>10. \A w \in Wrap : pd'[w].obj_ref = pd[w].obj_ref
  BY <1>2, <1>9 DEF PdRecord
<1>11. \A w \in Wrap \ {v} : wr'[w] = wr[w]
  BY <1>2, <1>9
<1>12. Accounted(v)'
  <2>1. CASE wr[v].refs = 1 /\ wr' = [wr EXCEPT ![v] = Wr("deleted", wr[v].refs, 0)]
    <3>1. wr'[v].refs = 1 /\ wr'[v].held = 0 /\ wr'[v].status = "deleted"
      BY <1>9, <2>1 DEF Wr
    <3>2. wr[v].held = 1 /\ Owed(v) = 0 /\ ~pd[v].obj_ref
      BY <1>7, <1>8, <2>1
    <3>. QED  BY <1>6, <1>10, <3>1, <3>2 DEF Accounted
  <2>2. CASE wr' = [wr EXCEPT ![v].held = wr[v].held - 1]
    <3>1. /\ wr'[v].refs = wr[v].refs /\ wr'[v].held = wr[v].held - 1
          /\ wr'[v].status = wr[v].status
      BY <1>9, <2>2 DEF WrRecord
    <3>. QED  BY <1>4, <1>6, <1>7, <1>8, <1>10, <3>1 DEF Accounted
  <2>. QED  BY <1>2, <2>1, <2>2
<1>13. HeldByCtor(v)'
  BY <1>7 DEF HeldByCtor
<1>14. \A w \in Wrap \ {v} : Steady(w)
  BY <1>10, <1>11 DEF Steady
<1>15. \A w \in Wrap \ {v} : Accounted(w)' /\ HeldByCtor(w)'
  BY <1>1, <1>2, <1>3, <1>14, OthersCalls
<1>. QED  BY <1>12, <1>13, <1>15 DEF RefsInv

LEMMA ReleaseRefs ==
    ASSUME TypeOK, TypeOK', RefsInv, NEW t \in Thread, NEW v \in Wrap, Release(t, v)
    PROVE  RefsInv'
<1>1. /\ wr' = [wr EXCEPT ![v].held = wr[v].held - 1] /\ UNCHANGED pd
      /\ wr[v].held > IF UnderConstruction(v) THEN 1 ELSE 0
      /\ Enter(t, <<WFrame("deref", v)>>) /\ OwesOnce(<<WFrame("deref", v)>>, v)
  BY OwesOnceFrames DEF Release
<1>2. wr \in [Wrap -> WrRecord] /\ stack \in [Thread -> Seq(Frame)]
  BY DEF TypeOK
<1>3. Accounted(v) /\ HeldByCtor(v)
  BY DEF RefsInv
<1>4. /\ wr[v].refs \in Int /\ wr[v].held \in Int /\ Owed(v) \in Nat
      /\ wr[v].held >= 1 /\ wr[v].refs >= wr[v].held + Owed(v)
  BY <1>1, <1>3, AccountNumbers
<1>5. Places(CtorFrames(v)) # {} => UnderConstruction(v)
  <2>1. ASSUME NEW u \in Thread, NEW i \in DOMAIN stack[u], stack[u][i] \in CtorFrames(v)
        PROVE  UnderConstruction(v)
    BY <2>1 DEF UnderConstruction, CtorFrames, WFrame
  <2>. QED  BY <2>1 DEF Places
<1>6. IsFiniteSet(Places(OwingFrames(v)))' /\ Owed(v)' = Owed(v) + 1
  BY <1>1, <1>3, EnterOwing DEF Accounted
<1>7. Places(CtorFrames(v))' = Places(CtorFrames(v))
  BY <1>1, EnterCtors DEF OwesOnce
<1>8. /\ wr'[v].refs = wr[v].refs /\ wr'[v].held = wr[v].held - 1
      /\ wr'[v].status = wr[v].status /\ \A w \in Wrap \ {v} : Steady(w)
  BY <1>1, <1>2 DEF WrRecord, Steady
<1>9. Accounted(v)'
  BY <1>1, <1>3, <1>4, <1>6, <1>8 DEF Accounted
<1>10. HeldByCtor(v)'
  <2>1. UnderConstruction(v) => wr[v].held - 1 >= 1
    BY <1>1, <1>4
  <2>. QED  BY <1>3, <1>5, <1>7, <1>8, <2>1 DEF HeldByCtor
<1>11. \A w \in Wrap \ {v} : Accounted(w)' /\ HeldByCtor(w)'
  BY <1>1, <1>8, OthersEnter
<1>. QED  BY <1>9, <1>10, <1>11 DEF RefsInv

LEMMA ReturnToQtRefs ==
    ASSUME TypeOK, TypeOK', RefsInv, NEW t \in Thread, NEW v \in Wrap, ReturnToQt(t, v)
    PROVE  RefsInv'
<1>. DEFINE fs == <<WFrame("returnDel", v), WFrame("pdDeref", v), WFrame("deref", v)>>
<1>1. /\ wr' = [wr EXCEPT ![v].held = wr[v].held - 1]
      /\ pd' = [pd EXCEPT ![v].refs = pd[v].refs + 1]
      /\ wr[v].held > 0 /\ ~UnderConstruction(v)
      /\ Enter(t, fs) /\ OwesOnce(fs, v)
  BY OwesOnceFrames DEF ReturnToQt, Usable
<1>. HIDE DEF fs
<1>2. wr \in [Wrap -> WrRecord] /\ pd \in [Wrap -> PdRecord]
  BY DEF TypeOK
<1>3. Accounted(v) /\ HeldByCtor(v)
  BY DEF RefsInv
<1>4. /\ wr[v].refs \in Int /\ wr[v].held \in Int /\ Owed(v) \in Nat
      /\ wr[v].held >= 1 /\ wr[v].refs >= wr[v].held + Owed(v)
  BY <1>1, <1>3, AccountNumbers
<1>5. Places(CtorFrames(v)) # {} => UnderConstruction(v)
  <2>1. ASSUME NEW u \in Thread, NEW i \in DOMAIN stack[u], stack[u][i] \in CtorFrames(v)
        PROVE  UnderConstruction(v)
    BY <2>1 DEF UnderConstruction, CtorFrames, WFrame
  <2>. QED  BY <2>1 DEF Places
<1>6. IsFiniteSet(Places(OwingFrames(v)))' /\ Owed(v)' = Owed(v) + 1
  BY <1>1, <1>3, EnterOwing DEF Accounted
<1>7. Places(CtorFrames(v))' = Places(CtorFrames(v))
  BY <1>1, EnterCtors DEF OwesOnce
<1>8. /\ wr'[v].refs = wr[v].refs /\ wr'[v].held = wr[v].held - 1
      /\ wr'[v].status = wr[v].status /\ pd'[v].obj_ref = pd[v].obj_ref
      /\ \A w \in Wrap \ {v} : Steady(w)
  BY <1>1, <1>2 DEF WrRecord, PdRecord, Steady
<1>9. Accounted(v)'
  BY <1>1, <1>3, <1>4, <1>6, <1>8 DEF Accounted
<1>10. HeldByCtor(v)'
  BY <1>1, <1>3, <1>5, <1>7 DEF HeldByCtor
<1>11. \A w \in Wrap \ {v} : Accounted(w)' /\ HeldByCtor(w)'
  BY <1>1, <1>8, OthersEnter
<1>. QED  BY <1>9, <1>10, <1>11 DEF RefsInv

LEMMA DeleteRefs ==
    ASSUME TypeOK, TypeOK', RefsInv, NEW t \in Thread, NEW v \in Wrap, Delete(t, v)
    PROVE  RefsInv'
<1>1. /\ wr' = [wr EXCEPT ![v] = Wr("deleting", wr[v].refs + 1, wr[v].held)]
      /\ UNCHANGED pd
      /\ Enter(t, DestructorFrames(v)) /\ OwesOnce(DestructorFrames(v), v)
  BY OwesOnceFrames DEF Delete
<1>2. wr \in [Wrap -> WrRecord]
  BY DEF TypeOK
<1>3. Accounted(v) /\ HeldByCtor(v)
  BY DEF RefsInv
<1>4. wr[v].refs \in Int /\ wr[v].held \in Int /\ Owed(v) \in Nat
  BY <1>3, AccountNumbers
<1>5. IsFiniteSet(Places(OwingFrames(v)))' /\ Owed(v)' = Owed(v) + 1
  BY <1>1, <1>3, EnterOwing DEF Accounted
<1>6. Places(CtorFrames(v))' = Places(CtorFrames(v))
  BY <1>1, EnterCtors DEF OwesOnce
<1>7. /\ wr'[v].refs = wr[v].refs + 1 /\ wr'[v].held = wr[v].held
      /\ wr'[v].status = "deleting" /\ \A w \in Wrap \ {v} : Steady(w)
  BY <1>1, <1>2 DEF Wr, Steady
<1>8. Accounted(v)' /\ HeldByCtor(v)'
  BY <1>1, <1>3, <1>4, <1>5, <1>6, <1>7 DEF Accounted, HeldByCtor
<1>9. \A w \in Wrap \ {v} : Accounted(w)' /\ HeldByCtor(w)'
  BY <1>1, <1>7, OthersEnter
<1>. QED  BY <1>8, <1>9 DEF RefsInv

\* No frame that is counted comes or goes.
LEMMA ReturnPlaces ==
    ASSUME TypeOK, TypeOK', NEW t \in Thread, stack[t] # <<>>,
           Top(t).op \notin CountedOps, Return(t), NEW w \in Wrap
    PROVE  /\ Places(OwingFrames(w))' = Places(OwingFrames(w))
           /\ Places(CtorFrames(w))' = Places(CtorFrames(w))
<1>. DEFINE fs == <<>>
<1>1. fs \in Seq(Frame) /\ Calls(t, fs) /\ Len(fs) = 0
  BY DEF Return
<1>2. \A j \in 1..Len(fs) : FALSE
  BY <1>1
<1>. HIDE DEF fs
<1>3. Replaces(t, 1, fs) /\ 1 \in 0..1 /\ 1 <= Len(stack[t])
  <2>1. Replaces(t, 1, fs)
    BY <1>1, CallsReplaces
  <2>2. Len(stack[t]) \in Nat /\ Len(stack[t]) # 0
    BY DEF TypeOK
  <2>. QED  BY <2>1, <2>2
<1>4. Top(t) \notin OwingFrames(w) /\ Top(t) \notin CtorFrames(w)
  BY OwingOther DEF CountedOps
<1>5. Places(OwingFrames(w))' = Places(OwingFrames(w))
  BY <1>1, <1>2, <1>3, <1>4, PlacesKept
<1>6. Places(CtorFrames(w))' = Places(CtorFrames(w))
  BY <1>1, <1>2, <1>3, <1>4, PlacesKept
<1>. QED  BY <1>5, <1>6

LEMMA MapHitRefs ==
    ASSUME TypeOK, TypeOK', RefsInv, NEW t \in Thread, MapHit(t)
    PROVE  RefsInv'
<1>1. PICK v \in Wrap : v = Top(t).w /\ stack[t] # <<>> /\ Top(t).op \notin CountedOps
  BY TopArguments DEF MapHit, AtTop, Running, WOps, CountedOps
<1>2. CASE Abort("wrapper_gone")
  BY <1>2, AbortRefs
<1>3. CASE ~Abort("wrapper_gone")
  <2>1. /\ wr' = [wr EXCEPT ![v] = Wr(wr[v].status, wr[v].refs + 1, wr[v].held + 1)]
        /\ wr[v].status # "free" /\ Return(t) /\ UNCHANGED pd
    BY <1>1, <1>3 DEF MapHit
  <2>2. wr \in [Wrap -> WrRecord]
    BY DEF TypeOK
  <2>3. \A w \in Wrap : Accounted(w) /\ HeldByCtor(w)
    BY DEF RefsInv
  <2>4. wr[v].refs \in Int /\ wr[v].held \in Int /\ Owed(v) \in Nat /\ wr[v].held >= 0
    BY <2>3, AccountNumbers DEF Accounted
  <2>5. /\ wr'[v].refs = wr[v].refs + 1 /\ wr'[v].held = wr[v].held + 1
        /\ wr'[v].status # "free" /\ \A w \in Wrap \ {v} : Steady(w)
    BY <2>1, <2>2 DEF Wr, Steady
  <2>6. \A w \in Wrap : /\ Places(OwingFrames(w))' = Places(OwingFrames(w))
                        /\ Places(CtorFrames(w))' = Places(CtorFrames(w))
    BY <1>1, <2>1, ReturnPlaces
  <2>7. IsFiniteSet(Places(OwingFrames(v)))' /\ Owed(v)' = Owed(v)
    BY <2>3, <2>6, OwedKept DEF Accounted
  <2>8. Accounted(v)'
    BY <2>1, <2>3, <2>4, <2>5, <2>7 DEF Accounted
  <2>9. HeldByCtor(v)'
    BY <2>3, <2>4, <2>5, <2>6 DEF HeldByCtor
  <2>10. \A w \in Wrap \ {v} : Accounted(w)' /\ HeldByCtor(w)'
    BY <2>3, <2>5, <2>6, PlacesStill
  <2>. QED  BY <2>8, <2>9, <2>10 DEF RefsInv
<1>. QED  BY <1>2, <1>3

\* A new wrapper: nothing referred to the memory it is made in.
LEMMA FreshAccount ==
    ASSUME TypeOK, RefsInv, NEW v \in Wrap, FreeWrap(v)
    PROVE  /\ IsFiniteSet(Places(OwingFrames(v))) /\ Owed(v) = 0
           /\ Places(CtorFrames(v)) = {}
<1>1. Accounted(v) /\ HeldByCtor(v) /\ wr[v].refs = 0
  BY DEF RefsInv, FreeWrap, Accounted
<1>2. /\ wr[v].refs \in Int /\ wr[v].held \in Int /\ Owed(v) \in Nat
      /\ wr[v].held >= 0 /\ wr[v].refs >= wr[v].held + Owed(v)
  BY <1>1, AccountNumbers DEF Accounted
<1>3. Owed(v) = 0 /\ wr[v].held = 0
  BY <1>1, <1>2
<1>. QED  BY <1>1, <1>3 DEF Accounted, HeldByCtor

LEMMA NewPrivateFields ==
    ASSUME TypeOK, NEW v \in Wrap, NEW a, NEW kind, NEW p, NEW eo, NewPrivate(v, a, kind, p, eo)
    PROVE  /\ wr'[v].refs = 1 /\ wr'[v].held = 1 /\ wr'[v].status = "ok"
           /\ pd'[v].obj_ref = FALSE
           /\ \A w \in Wrap \ {v} : Steady(w)
BY DEF TypeOK, NewPrivate, Wr, Steady

LEMMA MapMissRefs ==
    ASSUME TypeOK, TypeOK', RefsInv, NEW t \in Thread, NEW v \in Wrap,
           MapMiss(t, v) \/ \E b \in Addr : MapMissCopy(t, v, b)
    PROVE  RefsInv'
<1>1. stack[t] # <<>> /\ Top(t).op \notin CountedOps /\ FreeWrap(v)
  BY DEF MapMiss, MapMissCopy, AtTop, Running, CountedOps
<1>2. CASE \E f : Abort(f)
  BY <1>2, AbortRefs
<1>3. CASE Return(t) /\ \E a, kind, p, eo : NewPrivate(v, a, kind, p, eo)
  <2>1. /\ wr'[v].refs = 1 /\ wr'[v].held = 1 /\ wr'[v].status = "ok"
        /\ pd'[v].obj_ref = FALSE
        /\ \A w \in Wrap \ {v} : Steady(w)
    BY <1>3, NewPrivateFields
  <2>2. \A w \in Wrap : /\ Places(OwingFrames(w))' = Places(OwingFrames(w))
                        /\ Places(CtorFrames(w))' = Places(CtorFrames(w))
    BY <1>1, <1>3, ReturnPlaces
  <2>3. IsFiniteSet(Places(OwingFrames(v)))' /\ Owed(v)' = 0
    BY <1>1, <2>2, FreshAccount, OwedKept
  <2>4. Accounted(v)' /\ HeldByCtor(v)'
    BY <1>1, <2>1, <2>2, <2>3, FreshAccount DEF Accounted, HeldByCtor
  <2>5. \A w \in Wrap \ {v} : Accounted(w)' /\ HeldByCtor(w)'
    BY <2>1, <2>2, PlacesStill DEF RefsInv
  <2>. QED  BY <2>4, <2>5 DEF RefsInv
<1>4. CASE MapMiss(t, v)
  BY <1>2, <1>3, <1>4 DEF MapMiss
<1>5. CASE \E b \in Addr : MapMissCopy(t, v, b)
  BY <1>2, <1>3, <1>5 DEF MapMissCopy
<1>. QED  BY <1>4, <1>5

LEMMA CommonConstructorRefs ==
    ASSUME TypeOK, TypeOK', RefsInv, NEW t \in Thread, NEW v \in Wrap, NEW a \in Addr,
           NEW kind \in Kinds, NEW p \in Addr \cup {None}, CommonConstructor(t, a, v, kind, p)
    PROVE  RefsInv'
<1>1. CASE Abort(PrivateFault(a, kind, p))
  BY <1>1, AbortRefs
<1>2. CASE ~Abort(PrivateFault(a, kind, p))
  <2>. DEFINE fs == <<WFrame("ctorBody", v)>>
  <2>1. FreeWrap(v) /\ NewPrivate(v, a, kind, p, FALSE) /\ Enter(t, fs)
    BY <1>2 DEF CommonConstructor
  <2>2. /\ wr'[v].refs = 1 /\ wr'[v].held = 1 /\ wr'[v].status = "ok"
        /\ pd'[v].obj_ref = FALSE
        /\ \A w \in Wrap \ {v} : Steady(w)
    BY <2>1, NewPrivateFields
  <2>3. /\ fs \in Seq(Frame) /\ Len(fs) = 1 /\ 1 \in 1..Len(fs)
        /\ fs[1] = WFrame("ctorBody", v)
    BY WFrameType DEF WOps
  <2>4. /\ fs[1] \in CtorFrames(v) /\ \A w \in Wrap \ {v} : fs[1] \notin CtorFrames(w)
        /\ \A w \in Wrap : fs[1] \notin OwingFrames(w)
    BY <2>3, OwingWFrame
  <2>5. \A j \in 1..Len(fs) : j = 1
    BY <2>3
  <2>. HIDE DEF fs
  <2>6. Replaces(t, 0, fs) /\ 0 \in 0..1 /\ 0 <= Len(stack[t])
    BY <2>1, <2>3, EnterReplaces DEF TypeOK
  <2>7. Places(OwingFrames(v))' = Places(OwingFrames(v))
    BY <2>3, <2>4, <2>5, <2>6, PlacesKept
  <2>8. Places(CtorFrames(v))' = Places(CtorFrames(v)) \cup {NewPlace(t, 0, fs, 1)}
    <3>1. \A k \in 1..Len(fs) : fs[k] \in CtorFrames(v) => k = 1
      BY <2>5
    <3>2. fs \in Seq(Frame) /\ 1 \in 1..Len(fs) /\ fs[1] \in CtorFrames(v)
      BY <2>3, <2>4
    <3>. QED  BY <2>6, <3>1, <3>2, PlacesAdded
  <2>9. Places(CtorFrames(v)) = {} /\ IsFiniteSet(Places(OwingFrames(v)))' /\ Owed(v)' = 0
    BY <2>1, <2>7, FreshAccount, OwedKept
  <2>10. Accounted(v)'
    BY <2>2, <2>9 DEF Accounted
  <2>11. HeldByCtor(v)'
    BY <2>2, <2>8, <2>9 DEF HeldByCtor
  <2>12. ASSUME NEW w \in Wrap \ {v} PROVE Accounted(w)' /\ HeldByCtor(w)'
    <3>1. \A j \in 1..Len(fs) : fs[j] \notin OwingFrames(w) /\ fs[j] \notin CtorFrames(w)
      BY <2>4, <2>5
    <3>2. Accounted(w) /\ HeldByCtor(w) /\ Steady(w)
      BY <2>2 DEF RefsInv
    <3>. QED  BY <2>1, <2>3, <3>1, <3>2, EnterElsewhere
  <2>. QED  BY <2>10, <2>11, <2>12 DEF RefsInv
<1>. QED  BY <1>1, <1>2

-----------------------------------------------------------------------------
(* The theorem *)

LEMMA InitRefs == Init => RefsInv
<1>. SUFFICES ASSUME Init, NEW w \in Wrap PROVE Accounted(w) /\ HeldByCtor(w)
  BY DEF RefsInv
<1>1. \A F : Places(F) = {}
  <2>1. \A t \in Thread : stack[t] = <<>> /\ DOMAIN stack[t] = {}
    BY DEF Init
  <2>. QED  BY <2>1 DEF Places
<1>2. IsFiniteSet(Places(OwingFrames(w))) /\ Owed(w) = 0
  BY <1>1, FS_EmptySet DEF Owed
<1>3. /\ wr[w].refs = 0 /\ wr[w].held = 0 /\ wr[w].status = "free"
      /\ pd[w].obj_ref = FALSE
  BY DEF Init, NoWr, Wr, NoPd
<1>. QED  BY <1>1, <1>2, <1>3 DEF Accounted, HeldByCtor

LEMMA UnwindRefs ==
    ASSUME TypeOK, TypeOK', RefsInv, NEW t \in Thread, Unwind(t)
    PROVE  RefsInv'
<1>1. CASE ConstructorReturns(t) \/ ConstructorThrows(t) \/ UserDtorEnd(t)
           \/ Deref(t) \/ EndDelete(t) \/ PdDeref(t) \/ ObjRefDrop(t)
  BY <1>1, ConstructorReturnsRefs, ConstructorThrowsRefs, UserDtorEndRefs, DerefRefs,
     EndDeleteRefs, PdDerefRefs, ObjRefDropRefs
<1>2. CASE CommonDestructor(t) \/ DeleteAll(t) \/ DtorRest(t) \/ DtorRestEnd(t)
           \/ QtDestroy(t) \/ QtFree(t) \/ Deleted(t) \/ Hold(t)
  BY <1>2, CommonDestructorRefs, DeleteAllRefs, DtorRestRefs, DtorRestEndRefs, QtDestroyRefs,
     QtFreeRefs, DeletedRefs, HoldRefs
<1>3. CASE \/ MethodCall(t) \/ MapHit(t) \/ OutOfMemory(t)
           \/ \E w \in Wrap : MapMiss(t, w)
           \/ \E w \in Wrap, b \in Addr : MapMissCopy(t, w, b)
  BY <1>3, MethodCallRefs, MapHitRefs, UserDtorEndRefs, MapMissRefs
<1>4. CASE ExternalDelete(t) \/ ExternalDeleteEnd(t) \/ ReturnToQtEnd(t) \/ MapDel(t)
  BY <1>4, ExternalDeleteRefs, ExternalDeleteEndRefs, ReturnToQtEndRefs, MapDelRefs
<1>. QED  BY <1>1, <1>2, <1>3, <1>4 DEF Unwind

LEMMA ProgramActsRefs ==
    ASSUME TypeOK, TypeOK', RefsInv, NEW t \in Thread, ProgramActs(t)
    PROVE  RefsInv'
<1>1. CASE \E w \in Wrap : Release(t, w) \/ ReturnToQt(t, w) \/ Delete(t, w) \/ CommonMethod(t, w)
  BY <1>1, ReleaseRefs, ReturnToQtRefs, DeleteRefs, CommonMethodRefs
<1>2. CASE \E w \in Wrap : \/ SetExternallyOwned(t, w)
                           \/ \E p \in Addr \cup {None} : SetParent(t, w, p)
  BY <1>2, OwnershipRefs
<1>3. CASE \E w \in Wrap, p \in Addr \cup {None}, a \in Addr, kind \in Kinds :
             CommonConstructor(t, a, w, kind, p)
  BY <1>3, CommonConstructorRefs
<1>4. CASE \E a \in Addr : \/ ReturnByValue(t, a)
                           \/ \E const \in BOOLEAN : ReturnObject(t, a, const)
  BY <1>4, ReturnsRefs
<1>. QED  BY <1>1, <1>2, <1>3, <1>4 DEF ProgramActs

LEMMA StepRefs == TypeOK /\ TypeOK' /\ RefsInv /\ [Next]_vars => RefsInv'
<1>. SUFFICES ASSUME TypeOK, TypeOK', RefsInv, [Next]_vars PROVE RefsInv'
  OBVIOUS
<1>1. CASE UNCHANGED vars
  BY <1>1, UnchangedSteady, QuietStack DEF vars
<1>2. CASE QtActs(GuiThread)
  BY <1>2, ThreadAssumption, QtActsRefs
<1>3. CASE \E t \in Thread : Unwind(t) \/ ProgramActs(t)
  BY <1>3, UnwindRefs, ProgramActsRefs
<1>. QED  BY <1>1, <1>2, <1>3 DEF Next

\* The reference count of a wrapper is always what the program holds, what the
\* calls in progress own and the reference that deleteBlocker() took: no
\* interleaving of threads and no nesting of destructors and callbacks gives a
\* reference back twice or forgets one.
THEOREM CountsRight == Spec => []ReferencesAccounted
<1>1. RefsInv => ReferencesAccounted
  BY DEF RefsInv, Accounted, ReferencesAccounted
<1>2. Init => RefsInv
  BY InitRefs
<1>3. TypeOK /\ TypeOK' /\ RefsInv /\ [Next]_vars => RefsInv'
  BY StepRefs
<1>. QED  BY <1>1, <1>2, <1>3, TypeCorrect, PTL DEF Spec

\* The memory of a wrapper is free only when nobody refers to it: when the last
\* reference goes, no variable and no call in progress has one left.
NobodyRefersToFree ==
    \A w \in Wrap : wr[w].status = "free" =>
        /\ wr[w].held = 0 /\ ~pd[w].obj_ref
        /\ Places(OwingFrames(w)) = {} /\ ~UnderConstruction(w)

LEMMA NobodyNow == TypeOK /\ RefsInv => NobodyRefersToFree
<1>. SUFFICES ASSUME TypeOK, RefsInv, NEW w \in Wrap, wr[w].status = "free"
              PROVE  /\ wr[w].held = 0 /\ ~pd[w].obj_ref
                     /\ Places(OwingFrames(w)) = {} /\ ~UnderConstruction(w)
  BY DEF NobodyRefersToFree
<1>1. Accounted(w) /\ HeldByCtor(w) /\ wr[w].refs = 0 /\ wr[w].held >= 0
  BY DEF RefsInv, Accounted
<1>2. /\ wr[w].refs \in Int /\ wr[w].held \in Int /\ Owed(w) \in Nat
      /\ pd[w].obj_ref => wr[w].refs = wr[w].held + Owed(w) + 1
      /\ wr[w].refs >= wr[w].held + Owed(w) /\ pd[w].obj_ref \in BOOLEAN
  BY <1>1, AccountNumbers, PdFields
<1>3. wr[w].held = 0 /\ ~pd[w].obj_ref /\ Owed(w) = 0
  BY <1>1, <1>2
<1>4. Places(OwingFrames(w)) = {}
  BY <1>1, <1>3, FS_EmptySet DEF Owed, Accounted
<1>5. Places(CtorFrames(w)) = {}
  BY <1>1, <1>3 DEF HeldByCtor
<1>6. ASSUME NEW t \in Thread, NEW i \in DOMAIN stack[t],
             stack[t][i].op = "ctorBody", stack[t][i].w = w
      PROVE  FALSE
  <2>1. stack[t][i] \in Frame
    BY DEF TypeOK
  <2>2. stack[t][i] \in CtorFrames(w)
    BY <1>6, <2>1 DEF CtorFrames, WFrame, Frame, AOps, WOps,
       RestOps, RestDelOps, RestEndOps
  <2>3. <<t, Len(stack[t]) - i>> \in Places(CtorFrames(w))
    BY <2>2 DEF Places
  <2>. QED  BY <1>5, <2>3
<1>. QED  BY <1>3, <1>4, <1>5, <1>6 DEF UnderConstruction

\* A wrapper is freed with its last reference: in no reachable state does a
\* variable, an object or a call in progress refer to freed memory of a wrapper.
THEOREM FreeUnreferenced == Spec => []NobodyRefersToFree
<1>1. TypeOK /\ RefsInv => NobodyRefersToFree
  BY NobodyNow
<1>2. Init => RefsInv
  BY InitRefs
<1>3. TypeOK /\ TypeOK' /\ RefsInv /\ [Next]_vars => RefsInv'
  BY StepRefs
<1>. QED  BY <1>1, <1>2, <1>3, TypeCorrect, PTL DEF Spec

-----------------------------------------------------------------------------
(* The references of private data *)

UseFrames(w) == {WFrame("pdDeref", w)}
Uses(w) == Cardinality(Places(UseFrames(w)))

UseOk(w) ==
    /\ IsFiniteSet(Places(UseFrames(w)))
    /\ pd[w].refs = (IF pd[w].attached THEN 1 ELSE 0) + Uses(w)

SameUse(w) == pd'[w].refs = pd[w].refs /\ pd'[w].attached = pd[w].attached

\* frames that use no private data
IdleFrame == {f \in Frame : f.op # "pdDeref"}

LEMMA IdleFrames ==
    /\ \A op \in WOps \ {"pdDeref"}, w \in Wrap : WFrame(op, w) \in IdleFrame
    /\ \A op \in AOps, a \in Addr : AFrame(op, a) \in IdleFrame
    /\ \A op \in RestOps, a \in Addr, w \in Wrap : RestFrame(op, a, w) \in IdleFrame
    /\ \A s \in SUBSET Addr : LoopFrame(s) \in IdleFrame
<1>1. /\ \A op \in WOps \ {"pdDeref"}, w \in Wrap : WFrame(op, w) \in IdleFrame
      /\ \A op \in AOps, a \in Addr : AFrame(op, a) \in IdleFrame
  BY WFrameType, AFrameType DEF IdleFrame, WFrame, AFrame, AOps
<1>2. /\ \A op \in RestOps, a \in Addr, w \in Wrap : RestFrame(op, a, w) \in IdleFrame
      /\ \A s \in SUBSET Addr : LoopFrame(s) \in IdleFrame
  BY RestFrameType, LoopFrameType DEF IdleFrame, RestFrame, LoopFrame, RestOps, RestDelOps, RestEndOps
<1>. QED  BY <1>1, <1>2

LEMMA IdleSeq ==
    ASSUME NEW fs \in Seq(IdleFrame), NEW w \in Wrap
    PROVE  fs \in Seq(Frame) /\ \A j \in 1..Len(fs) : fs[j] \notin UseFrames(w)
<1>1. IdleFrame \subseteq Frame /\ \A f \in IdleFrame : f \notin UseFrames(w)
  BY DEF IdleFrame, UseFrames, WFrame
<1>2. fs \in Seq(Frame) /\ \A j \in 1..Len(fs) : fs[j] \in IdleFrame
  BY <1>1
<1>. QED  BY <1>1, <1>2

LEMMA UsesNat ==
    ASSUME NEW w \in Wrap, UseOk(w)
    PROVE  Uses(w) \in Nat /\ (Uses(w) = 0 => Places(UseFrames(w)) = {})
BY FS_CardinalityType, FS_EmptySet DEF Uses, UseOk

LEMMA UsesKept ==
    ASSUME NEW w \in Wrap, UseOk(w), Places(UseFrames(w))' = Places(UseFrames(w))
    PROVE  IsFiniteSet(Places(UseFrames(w)))' /\ Uses(w)' = Uses(w)
BY DEF Uses, UseOk

LEMMA UseStays ==
    ASSUME NEW w \in Wrap, UseOk(w), SameUse(w),
           Places(UseFrames(w))' = Places(UseFrames(w))
    PROVE  UseOk(w)'
BY UsesKept DEF UseOk, SameUse

\* what the step does to the stack of t, calls that use private data apart
IdleStep(t) ==
    \/ UNCHANGED stack
    \/ \E fs \in Seq(IdleFrame) : Enter(t, fs)
    \/ stack[t] # <<>> /\ Top(t).op # "pdDeref" /\ \E fs \in Seq(IdleFrame) : Calls(t, fs)

LEMMA IdlePlaces ==
    ASSUME TypeOK, TypeOK', NEW t \in Thread, IdleStep(t), NEW w \in Wrap
    PROVE  Places(UseFrames(w))' = Places(UseFrames(w))
<1>1. CASE UNCHANGED stack
  BY <1>1 DEF Places
<1>2. CASE \E fs \in Seq(IdleFrame) : Enter(t, fs)
  <2>1. PICK fs \in Seq(IdleFrame) : Enter(t, fs)
    BY <1>2
  <2>2. fs \in Seq(Frame) /\ \A j \in 1..Len(fs) : fs[j] \notin UseFrames(w)
    BY IdleSeq
  <2>3. Replaces(t, 0, fs) /\ 0 \in 0..1 /\ 0 <= Len(stack[t])
    BY <2>1, <2>2, EnterReplaces DEF TypeOK
  <2>. QED  BY <2>2, <2>3, PlacesKept
<1>3. CASE stack[t] # <<>> /\ Top(t).op # "pdDeref" /\ \E fs \in Seq(IdleFrame) : Calls(t, fs)
  <2>1. PICK fs \in Seq(IdleFrame) : Calls(t, fs)
    BY <1>3
  <2>2. fs \in Seq(Frame) /\ \A j \in 1..Len(fs) : fs[j] \notin UseFrames(w)
    BY IdleSeq
  <2>3. Replaces(t, 1, fs) /\ 1 \in 0..1 /\ 1 <= Len(stack[t])
    <3>1. Replaces(t, 1, fs)
      BY <1>3, <2>1, <2>2, CallsReplaces
    <3>2. stack[t] \in Seq(Frame) /\ Len(stack[t]) \in Nat /\ Len(stack[t]) # 0
      BY <1>3 DEF TypeOK
    <3>. QED  BY <3>1, <3>2
  <2>4. Top(t) \notin UseFrames(w)
    BY <1>3 DEF UseFrames, WFrame
  <2>. QED  BY <2>2, <2>3, <2>4, PlacesKept
<1>. QED  BY <1>1, <1>2, <1>3 DEF IdleStep

LEMMA IdleKeeps ==
    ASSUME TypeOK, TypeOK', NEW t \in Thread, IdleStep(t),
           \A w \in Wrap : UseOk(w), \A w \in Wrap : SameUse(w)
    PROVE  \A w \in Wrap : UseOk(w)'
BY IdlePlaces, UseStays

LEMMA IdleReturn ==
    ASSUME NEW t \in Thread, stack[t] # <<>>, Top(t).op # "pdDeref", Return(t)
    PROVE  IdleStep(t)
<1>1. <<>> \in Seq(IdleFrame) /\ Calls(t, <<>>)
  BY DEF Return
<1>. QED  BY <1>1 DEF IdleStep

LEMMA IdleDestructor ==
    ASSUME NEW w \in Wrap
    PROVE  /\ DestructorFrames(w) \in Seq(IdleFrame)
           /\ Append(DestructorFrames(w), WFrame("objRefDrop", w)) \in Seq(IdleFrame)
<1>1. /\ WFrame("userDtor", w) \in IdleFrame /\ WFrame("commonDtor", w) \in IdleFrame
      /\ WFrame("endDelete", w) \in IdleFrame /\ WFrame("objRefDrop", w) \in IdleFrame
  BY IdleFrames DEF WOps
<1>2. DestructorFrames(w) \in Seq(IdleFrame)
  BY <1>1, Seqs DEF DestructorFrames
<1>3. Append(DestructorFrames(w), WFrame("objRefDrop", w)) \in Seq(IdleFrame)
  BY <1>1, <1>2
<1>. QED  BY <1>2, <1>3

\* One more call uses the private data of v, and it was counted.
LEMMA UseAdded ==
    ASSUME TypeOK, TypeOK', NEW t \in Thread, NEW m \in 0..1, NEW fs \in Seq(Frame),
           m <= Len(stack[t]), Replaces(t, m, fs), m = 1 => Top(t).op # "pdDeref",
           NEW v \in Wrap, NEW j \in 1..Len(fs), fs[j] = WFrame("pdDeref", v),
           \A k \in 1..Len(fs) : fs[k].op = "pdDeref" => k = j,
           \A w \in Wrap : UseOk(w), \A w \in Wrap \ {v} : SameUse(w),
           (pd'[v].refs - IF pd'[v].attached THEN 1 ELSE 0)
               = (pd[v].refs - IF pd[v].attached THEN 1 ELSE 0) + 1
    PROVE  \A w \in Wrap : UseOk(w)'
<1>. TAKE w \in Wrap
<1>1. /\ UseOk(w) /\ pd[w].refs \in Int /\ pd'[w].refs \in Int /\ Uses(w) \in Nat
      /\ pd[w].attached \in BOOLEAN /\ pd'[w].attached \in BOOLEAN
  BY PdFields, UsesNat DEF TypeOK, PdRecord
<1>2. m = 1 => Top(t) \notin UseFrames(w)
  BY DEF UseFrames, WFrame
<1>3. CASE w = v
  <2>1. fs[j] \in UseFrames(w) /\ \A k \in 1..Len(fs) : fs[k] \in UseFrames(w) => k = j
    BY <1>3 DEF UseFrames, WFrame
  <2>2. /\ NewPlace(t, m, fs, j) \notin Places(UseFrames(w))
        /\ Places(UseFrames(w))' = Places(UseFrames(w)) \cup {NewPlace(t, m, fs, j)}
    BY <1>2, <2>1, PlacesAdded
  <2>3. IsFiniteSet(Places(UseFrames(w)))' /\ Uses(w)' = Uses(w) + 1
    BY <1>1, <2>2, FS_AddElement DEF Uses, UseOk
  <2>. QED  BY <1>1, <1>3, <2>3 DEF UseOk
<1>4. CASE w # v
  <2>1. \A k \in 1..Len(fs) : fs[k] \notin UseFrames(w)
    BY <1>4 DEF UseFrames, WFrame
  <2>2. Places(UseFrames(w))' = Places(UseFrames(w))
    BY <1>2, <2>1, PlacesKept
  <2>3. SameUse(w)
    BY <1>4
  <2>. QED  BY <1>1, <2>2, <2>3, UseStays
<1>. QED  BY <1>3, <1>4

LEMMA ClearFields ==
    ASSUME TypeOK, NEW w \in Wrap, Reset(w)
    PROVE  /\ pd'[w].obj = None
           /\ pd'[w].refs = pd[w].refs /\ pd'[w].attached = pd[w].attached
           /\ pd'[w].is_qobject = pd[w].is_qobject /\ pd'[w].obj_ref = pd[w].obj_ref
           /\ \A x \in Wrap \ {w} : pd'[x] = pd[x]
<1>1. pd \in [Wrap -> PdRecord] /\ pd' = [pd EXCEPT ![w].obj = None]
  BY DEF TypeOK, Reset
<1>. QED  BY <1>1 DEF PdRecord

LEMMA SameUses ==
    ASSUME TypeOK, NEW v \in Wrap,
           \/ UNCHANGED pd \/ Reset(v)
           \/ \E b \in BOOLEAN : \/ pd' = [pd EXCEPT ![v].obj_ref = b]
                                 \/ pd' = [pd EXCEPT ![v].eo = b]
    PROVE  \A w \in Wrap : SameUse(w)
<1>1. pd \in [Wrap -> PdRecord]
  BY DEF TypeOK
<1>2. CASE UNCHANGED pd
  BY <1>2 DEF SameUse
<1>3. CASE Reset(v)
  BY <1>3, ClearFields DEF SameUse
<1>4. ASSUME NEW b \in BOOLEAN,
             pd' = [pd EXCEPT ![v].obj_ref = b] \/ pd' = [pd EXCEPT ![v].eo = b]
      PROVE  \A w \in Wrap : SameUse(w)
  BY <1>1, <1>4 DEF SameUse, PdRecord
<1>. QED  BY <1>2, <1>3, <1>4

\* the calls that end, and those that go on with calls on the wrapper
LEMMA UnwindIdle ==
    ASSUME TypeOK, NEW t \in Thread,
           \/ ConstructorReturns(t) \/ UserDtorEnd(t) \/ Deref(t) \/ EndDelete(t)
           \/ ObjRefDrop(t) \/ MethodCall(t) \/ MapHit(t) \/ OutOfMemory(t)
           \/ ExternalDelete(t) \/ ExternalDeleteEnd(t) \/ ReturnToQtEnd(t)
    PROVE  IdleStep(t) /\ \A w \in Wrap : SameUse(w)
<1>1. CASE \E f : Abort(f)
  BY <1>1 DEF Abort, IdleStep, SameUse
<1>2. CASE \/ ConstructorReturns(t) \/ UserDtorEnd(t) \/ OutOfMemory(t)
  <2>1. stack[t] # <<>> /\ Top(t).op # "pdDeref" /\ Return(t) /\ UNCHANGED pd
    BY <1>2 DEF ConstructorReturns, UserDtorEnd, OutOfMemory, AtTop, Running
  <2>. QED  BY <2>1, IdleReturn DEF SameUse
<1>3. CASE ~(\E f : Abort(f)) /\ (MethodCall(t) \/ MapHit(t))
  <2>1. stack[t] # <<>> /\ Top(t).op # "pdDeref" /\ Return(t) /\ UNCHANGED pd
    BY <1>3 DEF MethodCall, MapHit, AtTop, Running
  <2>. QED  BY <2>1, IdleReturn DEF SameUse
<1>4. CASE ~(\E f : Abort(f)) /\ (\/ Deref(t) \/ EndDelete(t) \/ ObjRefDrop(t)
                                 \/ ExternalDelete(t) \/ ExternalDeleteEnd(t) \/ ReturnToQtEnd(t))
  <2>1. PICK w \in Wrap : w = Top(t).w /\ stack[t] # <<>> /\ Top(t).op # "pdDeref"
    BY <1>4, TopArguments DEF Deref, EndDelete, ObjRefDrop, ExternalDelete,
       ExternalDeleteEnd, ReturnToQtEnd, AtTop, Running, WOps
  <2>2. /\ \/ Return(t)
           \/ Calls(t, DestructorFrames(w))
           \/ Calls(t, <<WFrame("deref", w)>>)
           \/ Calls(t, <<WFrame("objRefDrop", w)>>)
           \/ Calls(t, <<WFrame("externalDel", w)>>)
           \/ Calls(t, Append(DestructorFrames(w), WFrame("objRefDrop", w)))
        /\ \/ UNCHANGED pd \/ Reset(w)
           \/ \E b \in BOOLEAN : pd' = [pd EXCEPT ![w].obj_ref = b]
    <3>1. CASE Deref(t)
      BY <1>4, <2>1, <3>1 DEF Deref
    <3>2. CASE EndDelete(t)
      BY <2>1, <3>2 DEF EndDelete
    <3>3. CASE ObjRefDrop(t)
      <4>1. /\ pd' = [pd EXCEPT ![w].obj_ref = FALSE]
            /\ Calls(t, IF pd[w].obj_ref THEN <<WFrame("deref", w)>> ELSE <<>>)
        BY <2>1, <3>3 DEF ObjRefDrop
      <4>2. CASE pd[w].obj_ref
        BY <4>1, <4>2
      <4>3. CASE ~pd[w].obj_ref
        BY <4>1, <4>3 DEF Return
      <4>. QED  BY <4>2, <4>3
    <3>4. CASE ExternalDelete(t)
      <4>. DEFINE op == IF pd[w].obj # None THEN "externalDel" ELSE "objRefDrop"
      <4>1. Calls(t, <<WFrame(op, w)>>) /\ UNCHANGED pd
        BY <1>4, <2>1, <3>4 DEF ExternalDelete
      <4>. QED  BY <4>1
    <3>5. CASE ExternalDeleteEnd(t)
      BY <1>4, <2>1, <3>5 DEF ExternalDeleteEnd
    <3>6. CASE ReturnToQtEnd(t)
      BY <2>1, <3>6 DEF ReturnToQtEnd
    <3>. QED  BY <1>4, <3>1, <3>2, <3>3, <3>4, <3>5, <3>6
  <2>3. /\ <<WFrame("deref", w)>> \in Seq(IdleFrame)
        /\ <<WFrame("objRefDrop", w)>> \in Seq(IdleFrame)
        /\ <<WFrame("externalDel", w)>> \in Seq(IdleFrame)
    <3>1. /\ WFrame("deref", w) \in IdleFrame /\ WFrame("objRefDrop", w) \in IdleFrame
          /\ WFrame("externalDel", w) \in IdleFrame
      BY IdleFrames DEF WOps
    <3>. QED  BY <3>1, Seqs
  <2>4. IdleStep(t)
    BY <2>1, <2>2, <2>3, IdleDestructor, IdleReturn DEF IdleStep
  <2>. QED  BY <2>2, <2>4, SameUses
<1>. QED  BY <1>1, <1>2, <1>3, <1>4

\* the calls that go on with the destructor of a Qt object
LEMMA QtIdle ==
    ASSUME TypeOK, NEW t \in Thread,
           \/ DeleteAll(t) \/ DtorRest(t) \/ DtorRestEnd(t) \/ QtDestroy(t) \/ QtFree(t)
           \/ Deleted(t) \/ MapDel(t)
    PROVE  IdleStep(t) /\ \A w \in Wrap : SameUse(w)
<1>1. CASE \E f : Abort(f)
  BY <1>1 DEF Abort, IdleStep, SameUse
<1>2. CASE ~(\E f : Abort(f)) /\ DeleteAll(t)
  <2>1. PICK s \in SUBSET Addr : s = Top(t).s /\ stack[t] # <<>> /\ Top(t).op # "pdDeref"
    BY <1>2, TopArguments DEF DeleteAll, AtTop, Running
  <2>2. /\ UNCHANGED pd
        /\ \/ Return(t)
           \/ \E a \in s : \/ Calls(t, <<AFrame("qtDestroy", a), LoopFrame(s \ {a})>>)
                           \/ Calls(t, <<LoopFrame(s \ {a})>>)
    BY <1>2, <2>1 DEF DeleteAll
  <2>3. ASSUME NEW a \in s
        PROVE  /\ <<AFrame("qtDestroy", a), LoopFrame(s \ {a})>> \in Seq(IdleFrame)
               /\ <<LoopFrame(s \ {a})>> \in Seq(IdleFrame)
    <3>1. AFrame("qtDestroy", a) \in IdleFrame /\ LoopFrame(s \ {a}) \in IdleFrame
      BY IdleFrames DEF AOps
    <3>. QED  BY <3>1, Seqs
  <2>4. IdleStep(t)
    BY <2>1, <2>2, <2>3, IdleReturn DEF IdleStep
  <2>. QED  BY <2>2, <2>4 DEF SameUse
<1>3. CASE ~(\E f : Abort(f)) /\ DtorRest(t)
  <2>1. PICK w \in Wrap, a \in Addr :
          w = Top(t).w /\ a = Top(t).a /\ stack[t] # <<>> /\ Top(t).op # "pdDeref"
    BY <1>3, TopArguments DEF DtorRest, AtTop, Running, RestOps
  <2>. DEFINE way == IF pd[w].is_qobject /\ qt[a].parent # None THEN "keepDel"
                     ELSE IF pd[w].eo THEN "dropDel" ELSE "takeDel"
  <2>2. UNCHANGED pd /\ Calls(t, <<RestFrame(way, a, w)>>) /\ way \in RestDelOps
    BY <1>3, <2>1 DEF DtorRest, RestDelOps
  <2>. HIDE DEF way
  <2>3. <<RestFrame(way, a, w)>> \in Seq(IdleFrame)
    <3>1. RestFrame(way, a, w) \in IdleFrame
      BY <2>2, IdleFrames DEF RestOps
    <3>. QED  BY <3>1
  <2>4. IdleStep(t)
    BY <2>1, <2>2, <2>3 DEF IdleStep
  <2>. QED  BY <2>2, <2>4 DEF SameUse
<1>4. CASE DtorRestEnd(t)
  <2>1. PICK w \in Wrap, a \in Addr :
          w = Top(t).w /\ a = Top(t).a /\ stack[t] # <<>> /\ Top(t).op # "pdDeref"
    BY <1>4, TopArguments DEF DtorRestEnd, Running, RestOps, RestEndOps
  <2>2. /\ Reset(w)
        /\ \/ Calls(t, <<>>) \/ Calls(t, <<WFrame("objRefDrop", w)>>)
           \/ Calls(t, <<WFrame("objRefDrop", w), AFrame("qtDestroy", a)>>)
    BY <1>4, <2>1 DEF DtorRestEnd, RestEndOps
  <2>3. WFrame("objRefDrop", w) \in IdleFrame /\ AFrame("qtDestroy", a) \in IdleFrame
    BY IdleFrames DEF AOps, WOps
  <2>4. /\ <<>> \in Seq(IdleFrame) /\ <<WFrame("objRefDrop", w)>> \in Seq(IdleFrame)
        /\ <<WFrame("objRefDrop", w), AFrame("qtDestroy", a)>> \in Seq(IdleFrame)
    BY <2>3, Seqs
  <2>5. IdleStep(t)
    BY <2>1, <2>2, <2>4 DEF IdleStep
  <2>. QED  BY <2>2, <2>5, SameUses
<1>5. CASE Deleted(t)
  <2>1. PICK a \in Addr : a = Top(t).a /\ stack[t] # <<>> /\ Top(t).op # "pdDeref"
    BY <1>5, TopArguments DEF Deleted, AtTop, Running, AOps
  <2>2. PICK w \in Wrap \cup {None} : w = map[a]
    BY DEF TypeOK
  <2>3. /\ UNCHANGED pd
        /\ Calls(t, <<>>) \/ (w \in Wrap /\ Calls(t, <<WFrame("hold", w)>>))
    BY <1>5, <2>1, <2>2 DEF Deleted
  <2>4. /\ <<>> \in Seq(IdleFrame)
        /\ w \in Wrap => <<WFrame("hold", w)>> \in Seq(IdleFrame)
    BY IdleFrames DEF WOps
  <2>. QED  BY <2>1, <2>3, <2>4 DEF IdleStep, SameUse
<1>6. CASE ~(\E f : Abort(f)) /\ MapDel(t)
  <2>1. PICK g \in Frame : g.op \in EndOps /\ Calls(t, <<g>>) /\ UNCHANGED pd
    BY <1>6, MapDelStep
  <2>2. g \in IdleFrame
    BY <2>1 DEF IdleFrame, EndOps, RestEndOps
  <2>3. <<g>> \in Seq(IdleFrame)
    BY <2>2
  <2>4. stack[t] # <<>> /\ Top(t).op # "pdDeref"
    BY <1>6, MapDelStep DEF DelOps, RestDelOps
  <2>. QED  BY <2>1, <2>3, <2>4 DEF IdleStep, SameUse
<1>7. CASE ~(\E f : Abort(f)) /\ QtDestroy(t)
  <2>1. PICK a \in Addr : a = Top(t).a /\ stack[t] # <<>> /\ Top(t).op # "pdDeref"
    BY <1>7, TopArguments DEF QtDestroy, AtTop, Running, AOps
  <2>2. /\ UNCHANGED pd
        /\ \/ Calls(t, <<AFrame("deleted", a), AFrame("qtFree", a)>>)
           \/ Calls(t, <<AFrame("qtFree", a)>>)
    BY <1>7, <2>1 DEF QtDestroy
  <2>3. AFrame("deleted", a) \in IdleFrame /\ AFrame("qtFree", a) \in IdleFrame
    BY IdleFrames DEF AOps
  <2>4. /\ <<AFrame("qtFree", a)>> \in Seq(IdleFrame)
        /\ <<AFrame("deleted", a), AFrame("qtFree", a)>> \in Seq(IdleFrame)
    BY <2>3, Seqs
  <2>. QED  BY <2>1, <2>2, <2>4 DEF IdleStep, SameUse
<1>8. CASE QtFree(t)
  <2>1. PICK a \in Addr : a = Top(t).a /\ stack[t] # <<>> /\ Top(t).op # "pdDeref"
    BY <1>8, TopArguments DEF QtFree, AtTop, Running, AOps
  <2>2. /\ pd' = [w \in Wrap |-> IF pd[w].obj = a /\ pd[w].is_qobject
                                 THEN [pd[w] EXCEPT !.obj = None] ELSE pd[w]]
        /\ Return(t) \/ \E c \in Addr : Enter(t, <<AFrame("qtDestroy", c)>>)
    BY <1>8, <2>1 DEF QtFree, Children
  <2>3. \A c \in Addr : <<AFrame("qtDestroy", c)>> \in Seq(IdleFrame)
    BY IdleFrames, Seqs DEF AOps
  <2>4. \A w \in Wrap : SameUse(w)
    BY <2>2 DEF SameUse, TypeOK, PdRecord
  <2>. QED  BY <2>1, <2>2, <2>3, <2>4, IdleReturn DEF IdleStep
<1>. QED  BY <1>1, <1>2, <1>3, <1>4, <1>5, <1>6, <1>7, <1>8

LEMMA QtActsIdle ==
    ASSUME TypeOK, NEW t \in Thread, QtActs(t)
    PROVE  IdleStep(t) /\ \A w \in Wrap : SameUse(w)
<1>1. /\ UNCHANGED pd
      /\ UNCHANGED stack \/ \E a \in Addr : Enter(t, <<AFrame("qtDestroy", a)>>)
  BY DEF QtActs, QtDelete, QtReparent, QtCreate
<1>2. \A a \in Addr : <<AFrame("qtDestroy", a)>> \in Seq(IdleFrame)
  BY IdleFrames, Seqs DEF AOps
<1>. QED  BY <1>1, <1>2 DEF IdleStep, SameUse

LEMMA ProgramIdle ==
    ASSUME TypeOK, NEW t \in Thread,
           \/ \E w \in Wrap :
                 \/ Release(t, w) \/ Delete(t, w) \/ SetExternallyOwned(t, w)
                 \/ \E p \in Addr \cup {None} : SetParent(t, w, p)
           \/ \E a \in Addr : \/ ReturnByValue(t, a)
                              \/ \E const \in BOOLEAN : ReturnObject(t, a, const)
    PROVE  IdleStep(t) /\ \A w \in Wrap : SameUse(w)
<1>1. ASSUME NEW w \in Wrap, Release(t, w) \/ Delete(t, w)
      PROVE  IdleStep(t) /\ UNCHANGED pd
  <2>1. <<WFrame("deref", w)>> \in Seq(IdleFrame)
    BY IdleFrames, Seqs DEF WOps
  <2>2. /\ Enter(t, <<WFrame("deref", w)>>) \/ Enter(t, DestructorFrames(w))
        /\ UNCHANGED pd
    BY <1>1 DEF Release, Delete
  <2>. QED  BY <2>1, <2>2, IdleDestructor DEF IdleStep
<1>2. ASSUME NEW w \in Wrap,
             \/ SetExternallyOwned(t, w)
             \/ \E p \in Addr \cup {None} : SetParent(t, w, p)
      PROVE  IdleStep(t) /\ \A x \in Wrap : SameUse(x)
  <2>1. /\ UNCHANGED stack
        /\ UNCHANGED pd \/ \E b \in BOOLEAN : pd' = [pd EXCEPT ![w].eo = b]
    BY <1>2 DEF SetExternallyOwned, SetParent, Abort
  <2>. QED  BY <2>1, SameUses DEF IdleStep
<1>3. ASSUME NEW a \in Addr,
             ReturnByValue(t, a) \/ \E const \in BOOLEAN : ReturnObject(t, a, const)
      PROVE  IdleStep(t) /\ UNCHANGED pd
  <2>1. PICK miss \in AOps : Enter(t, <<Lookup(a, miss)>>) /\ UNCHANGED pd
    BY <1>3 DEF ReturnByValue, ReturnObject, AOps
  <2>2. Lookup(a, miss) \in IdleFrame
    BY IdleFrames DEF Lookup, WOps, TypeOK
  <2>3. <<Lookup(a, miss)>> \in Seq(IdleFrame)
    BY <2>2, Seqs
  <2>. QED  BY <2>1, <2>3 DEF IdleStep
<1>. QED  BY <1>1, <1>2, <1>3 DEF SameUse

\* Private data in memory that nobody uses begins with the reference of its key.
LEMMA NewPrivateUse ==
    ASSUME TypeOK, TypeOK', \A w \in Wrap : UseOk(w), NEW t \in Thread, IdleStep(t),
           NEW v \in Wrap, FreeWrap(v), NEW a, NEW kind, NEW p, NEW eo,
           NewPrivate(v, a, kind, p, eo)
    PROVE  \A w \in Wrap : UseOk(w)'
<1>1. /\ pd'[v].refs = 1 /\ pd'[v].attached = TRUE
      /\ \A w \in Wrap \ {v} : SameUse(w)
  BY DEF NewPrivate, SameUse, TypeOK
<1>2. /\ UseOk(v) /\ Uses(v) \in Nat /\ pd[v].refs = 0 /\ pd[v].attached \in BOOLEAN
  BY UsesNat, PdFields DEF FreeWrap
<1>3. Uses(v) = 0
  BY <1>2 DEF UseOk
<1>4. IsFiniteSet(Places(UseFrames(v)))' /\ Uses(v)' = 0
  BY <1>2, <1>3, IdlePlaces, UsesKept
<1>5. UseOk(v)'
  BY <1>1, <1>4 DEF UseOk
<1>6. \A w \in Wrap \ {v} : UseOk(w)'
  BY <1>1, IdlePlaces, UseStays
<1>. QED  BY <1>5, <1>6

LEMMA MakeUse ==
    ASSUME TypeOK, TypeOK', \A w \in Wrap : UseOk(w), NEW t \in Thread, NEW v \in Wrap,
           \/ MapMiss(t, v) \/ \E b \in Addr : MapMissCopy(t, v, b)
           \/ \E a \in Addr, kind \in Kinds, p \in Addr \cup {None} :
                 CommonConstructor(t, a, v, kind, p)
    PROVE  \A w \in Wrap : UseOk(w)'
<1>1. CASE \E f : Abort(f)
  <2>1. IdleStep(t) /\ \A w \in Wrap : SameUse(w)
    BY <1>1 DEF Abort, IdleStep, SameUse
  <2>. QED  BY <2>1, IdleKeeps
<1>2. CASE ~(\E f : Abort(f)) /\ (MapMiss(t, v) \/ \E b \in Addr : MapMissCopy(t, v, b))
  <2>1. /\ stack[t] # <<>> /\ Top(t).op # "pdDeref" /\ Return(t) /\ FreeWrap(v)
        /\ \E a, kind, p, eo : NewPrivate(v, a, kind, p, eo)
    <3>1. CASE MapMiss(t, v)
      BY <1>2, <3>1 DEF MapMiss, AtTop, Running
    <3>2. CASE \E b \in Addr : MapMissCopy(t, v, b)
      BY <1>2, <3>2 DEF MapMissCopy, AtTop, Running
    <3>. QED  BY <1>2, <3>1, <3>2
  <2>. QED  BY <2>1, IdleReturn, NewPrivateUse
<1>3. ASSUME ~(\E f : Abort(f)),
             NEW a \in Addr, NEW kind \in Kinds, NEW p \in Addr \cup {None},
             CommonConstructor(t, a, v, kind, p)
      PROVE  \A w \in Wrap : UseOk(w)'
  <2>1. /\ FreeWrap(v) /\ NewPrivate(v, a, kind, p, FALSE)
        /\ Enter(t, <<WFrame("ctorBody", v)>>)
    BY <1>3 DEF CommonConstructor
  <2>2. <<WFrame("ctorBody", v)>> \in Seq(IdleFrame)
    BY IdleFrames, Seqs DEF WOps
  <2>3. IdleStep(t)
    BY <2>1, <2>2 DEF IdleStep
  <2>. QED  BY <2>1, <2>3, NewPrivateUse
<1>. QED  BY <1>1, <1>2, <1>3

LEMMA UseReturns ==
    ASSUME TypeOK, TypeOK', \A w \in Wrap : UseOk(w), NEW t \in Thread, PdDeref(t)
    PROVE  \A w \in Wrap : UseOk(w)'
<1>1. PICK v \in Wrap : v = Top(t).w /\ stack[t] # <<>> /\ Top(t).op = "pdDeref"
  BY TopArguments DEF PdDeref, AtTop, Running, WOps
<1>2. CASE \E f : Abort(f)
  <2>1. IdleStep(t) /\ \A w \in Wrap : SameUse(w)
    BY <1>2 DEF Abort, IdleStep, SameUse
  <2>. QED  BY <2>1, IdleKeeps
<1>3. CASE ~(\E f : Abort(f))
  <2>1. PICK fs \in Seq(IdleFrame) : Calls(t, fs)
    <3>. DEFINE a == pd[v].obj
                more == IF a # None /\ ~pd[v].eo /\
                           (pd[v].is_qobject => qt[a].parent = None)
                        THEN <<AFrame("qtDestroy", a)>> ELSE <<>>
    <3>1. ~Abort("obj_ref") /\ ~Abort("map_del")
      BY <1>3
    <3>2. CASE pd[v].refs > 1
      <4>1. <<>> \in Seq(IdleFrame) /\ Calls(t, <<>>)
        BY <1>1, <3>2 DEF PdDeref, Return
      <4>. QED  BY <4>1
    <3>3. CASE ~(pd[v].refs > 1)
      <4>1. Calls(t, more)
        BY <1>1, <3>1, <3>3 DEF PdDeref
      <4>2. a # None => AFrame("qtDestroy", a) \in IdleFrame
        BY PdFields, IdleFrames DEF AOps
      <4>3. more \in Seq(IdleFrame)
        BY <4>2
      <4>. HIDE DEF more
      <4>. QED  BY <4>1, <4>3
    <3>. QED  BY <3>2, <3>3
  <2>2. Replaces(t, 1, fs) /\ fs \in Seq(Frame)
    BY <1>1, <2>1, IdleSeq, CallsReplaces
  <2>3. Top(t) \in Frame
    BY <1>1, TopType DEF TypeOK
  <2>4. Top(t) = WFrame("pdDeref", v)
    BY <1>1, TopArguments DEF WOps
  <2>5. /\ TopPlace(t) \in Places(UseFrames(v))
        /\ Places(UseFrames(v))' = Places(UseFrames(v)) \ {TopPlace(t)}
    <3>1. Top(t) \in UseFrames(v) /\ \A j \in 1..Len(fs) : fs[j] \notin UseFrames(v)
      BY <2>4, IdleSeq DEF UseFrames
    <3>. QED  BY <1>1, <2>2, <3>1, PlacesDropped
  <2>6. IsFiniteSet(Places(UseFrames(v)))' /\ Uses(v)' = Uses(v) - 1 /\ Uses(v) # 0
    BY <2>5, FS_RemoveElement, FS_EmptySet DEF Uses, UseOk
  <2>7. UseOk(v) /\ Uses(v) \in Nat /\ pd[v].attached \in BOOLEAN /\ pd \in [Wrap -> PdRecord]
    BY UsesNat, PdFields DEF TypeOK
  <2>8. UseOk(v)' /\ \A w \in Wrap \ {v} : SameUse(w)
    <3>1. CASE pd[v].refs > 1
      <4>1. pd' = [pd EXCEPT ![v].refs = pd[v].refs - 1]
        BY <1>1, <3>1 DEF PdDeref
      <4>2. /\ pd'[v].refs = pd[v].refs - 1 /\ pd'[v].attached = pd[v].attached
            /\ \A w \in Wrap \ {v} : SameUse(w)
        BY <2>7, <4>1 DEF SameUse, PdRecord
      <4>. QED  BY <2>6, <2>7, <4>2 DEF UseOk
    <3>2. CASE ~(pd[v].refs > 1)
      <4>1. pd' = [pd EXCEPT ![v] = NoPd]
        BY <1>1, <1>3, <3>2 DEF PdDeref
      <4>2. /\ pd'[v].refs = 0 /\ pd'[v].attached = FALSE
            /\ \A w \in Wrap \ {v} : SameUse(w)
        BY <2>7, <4>1 DEF SameUse, NoPd
      <4>3. Uses(v) = 1
        BY <2>6, <2>7, <3>2 DEF UseOk
      <4>. QED  BY <2>6, <4>2, <4>3 DEF UseOk
    <3>. QED  BY <3>1, <3>2
  <2>9. ASSUME NEW w \in Wrap \ {v} PROVE UseOk(w)'
    <3>1. Top(t) \notin UseFrames(w) /\ \A j \in 1..Len(fs) : fs[j] \notin UseFrames(w)
      BY <2>4, IdleSeq DEF UseFrames, WFrame
    <3>2. 1 \in 0..1 /\ 1 <= Len(stack[t])
      BY <1>1 DEF TypeOK
    <3>3. Places(UseFrames(w))' = Places(UseFrames(w))
      BY <2>2, <3>1, <3>2, PlacesKept
    <3>. QED  BY <2>8, <3>3, UseStays
  <2>. QED  BY <2>8, <2>9
<1>. QED  BY <1>2, <1>3

\* UseAdded for the two ways to put calls on a stack
LEMMA UseCalls ==
    ASSUME TypeOK, TypeOK', NEW t \in Thread, NEW fs \in Seq(Frame),
           stack[t] # <<>>, Top(t).op # "pdDeref", Calls(t, fs),
           NEW v \in Wrap, NEW j \in 1..Len(fs), fs[j] = WFrame("pdDeref", v),
           \A k \in 1..Len(fs) : fs[k].op = "pdDeref" => k = j,
           \A w \in Wrap : UseOk(w), \A w \in Wrap \ {v} : SameUse(w),
           (pd'[v].refs - IF pd'[v].attached THEN 1 ELSE 0)
               = (pd[v].refs - IF pd[v].attached THEN 1 ELSE 0) + 1
    PROVE  \A w \in Wrap : UseOk(w)'
<1>1. stack[t] \in Seq(Frame) /\ 1 <= Len(stack[t]) /\ 1 \in 0..1
  BY DEF TypeOK
<1>2. Replaces(t, 1, fs)
  BY CallsReplaces
<1>. QED  BY <1>1, <1>2, UseAdded

LEMMA UseEnter ==
    ASSUME TypeOK, TypeOK', NEW t \in Thread, NEW fs \in Seq(Frame), Enter(t, fs),
           NEW v \in Wrap, NEW j \in 1..Len(fs), fs[j] = WFrame("pdDeref", v),
           \A k \in 1..Len(fs) : fs[k].op = "pdDeref" => k = j,
           \A w \in Wrap : UseOk(w), \A w \in Wrap \ {v} : SameUse(w),
           (pd'[v].refs - IF pd'[v].attached THEN 1 ELSE 0)
               = (pd[v].refs - IF pd[v].attached THEN 1 ELSE 0) + 1
    PROVE  \A w \in Wrap : UseOk(w)'
<1>1. stack[t] \in Seq(Frame) /\ 0 <= Len(stack[t]) /\ 0 \in 0..1 /\ 0 # 1
  BY DEF TypeOK
<1>2. Replaces(t, 0, fs)
  BY EnterReplaces
<1>. QED  BY <1>1, <1>2, UseAdded

LEMMA CommonMethodUse ==
    ASSUME TypeOK, TypeOK', \A w \in Wrap : UseOk(w), NEW t \in Thread, NEW v \in Wrap,
           CommonMethod(t, v)
    PROVE  \A w \in Wrap : UseOk(w)'
<1>. DEFINE fs == <<WFrame("methodCall", v), WFrame("pdDeref", v)>>
<1>1. fs \in Seq(Frame) /\ Len(fs) = 2 /\ fs[1].op # "pdDeref" /\ fs[2] = WFrame("pdDeref", v)
  <2>1. WFrame("methodCall", v) \in Frame /\ WFrame("pdDeref", v) \in Frame
    BY WFrameType DEF WOps
  <2>. QED  BY <2>1, Seqs DEF WFrame
<1>2. Enter(t, fs) /\ pd' = [pd EXCEPT ![v].refs = pd[v].refs + 1]
  BY DEF CommonMethod
<1>3. /\ pd'[v].refs = pd[v].refs + 1 /\ pd'[v].attached = pd[v].attached
      /\ pd[v].refs \in Int /\ \A w \in Wrap \ {v} : SameUse(w)
  BY <1>2 DEF TypeOK, PdRecord, SameUse
<1>. HIDE DEF fs
<1>4. 2 \in 1..Len(fs) /\ \A k \in 1..Len(fs) : fs[k].op = "pdDeref" => k = 2
  BY <1>1
<1>5. (pd'[v].refs - IF pd'[v].attached THEN 1 ELSE 0)
          = (pd[v].refs - IF pd[v].attached THEN 1 ELSE 0) + 1
  BY <1>3
<1>. QED  BY <1>1, <1>2, <1>3, <1>4, <1>5, UseEnter

LEMMA ReturnToQtUse ==
    ASSUME TypeOK, TypeOK', \A w \in Wrap : UseOk(w), NEW t \in Thread, NEW v \in Wrap,
           ReturnToQt(t, v)
    PROVE  \A w \in Wrap : UseOk(w)'
<1>. DEFINE fs == <<WFrame("returnDel", v), WFrame("pdDeref", v), WFrame("deref", v)>>
<1>1. /\ fs \in Seq(Frame) /\ Len(fs) = 3
      /\ fs[1].op # "pdDeref" /\ fs[2] = WFrame("pdDeref", v) /\ fs[3].op # "pdDeref"
  <2>1. /\ WFrame("returnDel", v) \in Frame /\ WFrame("pdDeref", v) \in Frame
        /\ WFrame("deref", v) \in Frame
    BY WFrameType DEF WOps
  <2>. QED  BY <2>1, Seqs DEF WFrame
<1>2. Enter(t, fs) /\ pd' = [pd EXCEPT ![v].refs = pd[v].refs + 1]
  BY DEF ReturnToQt
<1>3. /\ pd'[v].refs = pd[v].refs + 1 /\ pd'[v].attached = pd[v].attached
      /\ pd[v].refs \in Int /\ \A w \in Wrap \ {v} : SameUse(w)
  BY <1>2 DEF TypeOK, PdRecord, SameUse
<1>. HIDE DEF fs
<1>4. 2 \in 1..Len(fs) /\ \A k \in 1..Len(fs) : fs[k].op = "pdDeref" => k = 2
  BY <1>1
<1>5. (pd'[v].refs - IF pd'[v].attached THEN 1 ELSE 0)
          = (pd[v].refs - IF pd[v].attached THEN 1 ELSE 0) + 1
  BY <1>3
<1>. QED  BY <1>1, <1>2, <1>3, <1>4, <1>5, UseEnter

LEMMA HoldUse ==
    ASSUME TypeOK, TypeOK', \A w \in Wrap : UseOk(w), NEW t \in Thread, Hold(t)
    PROVE  \A w \in Wrap : UseOk(w)'
<1>1. PICK v \in Wrap : v = Top(t).w /\ stack[t] # <<>> /\ Top(t).op # "pdDeref"
  BY TopArguments DEF Hold, AtTop, Running, WOps
<1>2. CASE \E f : Abort(f)
  <2>1. IdleStep(t) /\ \A w \in Wrap : SameUse(w)
    BY <1>2 DEF Abort, IdleStep, SameUse
  <2>. QED  BY <2>1, IdleKeeps
<1>3. CASE Return(t) /\ UNCHANGED pd
  <2>1. IdleStep(t) /\ \A w \in Wrap : SameUse(w)
    BY <1>1, <1>3, IdleReturn DEF SameUse
  <2>. QED  BY <2>1, IdleKeeps
<1>4. CASE ~(\E f : Abort(f)) /\ ~(Return(t) /\ UNCHANGED pd)
  <2>. DEFINE fs == <<WFrame("externalDelete", v), WFrame("pdDeref", v)>>
  <2>1. pd' = [pd EXCEPT ![v].refs = pd[v].refs + 1] /\ Calls(t, fs)
    BY <1>1, <1>4 DEF Hold
  <2>2. fs \in Seq(Frame) /\ Len(fs) = 2 /\ fs[1].op # "pdDeref" /\ fs[2] = WFrame("pdDeref", v)
    <3>1. WFrame("externalDelete", v) \in Frame /\ WFrame("pdDeref", v) \in Frame
      BY WFrameType DEF WOps
    <3>. QED  BY <3>1, Seqs DEF WFrame
  <2>3. /\ pd'[v].refs = pd[v].refs + 1 /\ pd'[v].attached = pd[v].attached
        /\ pd[v].refs \in Int /\ \A w \in Wrap \ {v} : SameUse(w)
    BY <2>1 DEF TypeOK, PdRecord, SameUse
  <2>. HIDE DEF fs
  <2>4. 2 \in 1..Len(fs) /\ \A k \in 1..Len(fs) : fs[k].op = "pdDeref" => k = 2
    BY <2>2
  <2>5. (pd'[v].refs - IF pd'[v].attached THEN 1 ELSE 0)
            = (pd[v].refs - IF pd[v].attached THEN 1 ELSE 0) + 1
    BY <2>3
  <2>. QED  BY <1>1, <2>1, <2>2, <2>3, <2>4, <2>5, UseCalls
<1>. QED  BY <1>2, <1>3, <1>4

\* the private data leaves its key, and the call that releases it has its
\* reference
LEMMA UseDetached ==
    ASSUME TypeOK, TypeOK', \A w \in Wrap : UseOk(w), NEW t \in Thread, NEW v \in Wrap,
           stack[t] # <<>>, Top(t).op # "pdDeref",
           NEW fs \in Seq(Frame), Calls(t, fs),
           NEW j \in 1..Len(fs), fs[j] = WFrame("pdDeref", v),
           \A k \in 1..Len(fs) : fs[k].op = "pdDeref" => k = j,
           pd[v].attached, pd' = [pd EXCEPT ![v].attached = FALSE]
    PROVE  \A w \in Wrap : UseOk(w)'
<1>1. /\ pd'[v].refs = pd[v].refs /\ pd'[v].attached = FALSE
      /\ pd[v].refs \in Int /\ \A w \in Wrap \ {v} : SameUse(w)
  BY DEF TypeOK, PdRecord, SameUse
<1>2. (pd'[v].refs - IF pd'[v].attached THEN 1 ELSE 0)
          = (pd[v].refs - IF pd[v].attached THEN 1 ELSE 0) + 1
  BY <1>1
<1>. QED  BY <1>1, <1>2, UseCalls

LEMMA CommonDestructorUse ==
    ASSUME TypeOK, TypeOK', \A w \in Wrap : UseOk(w), NEW t \in Thread, CommonDestructor(t)
    PROVE  \A w \in Wrap : UseOk(w)'
<1>1. PICK v \in Wrap : v = Top(t).w /\ stack[t] # <<>> /\ Top(t).op # "pdDeref"
  BY TopArguments DEF CommonDestructor, AtTop, Running, WOps
<1>2. CASE \E f : Abort(f)
  <2>1. IdleStep(t) /\ \A w \in Wrap : SameUse(w)
    BY <1>2 DEF Abort, IdleStep, SameUse
  <2>. QED  BY <2>1, IdleKeeps
<1>3. CASE Return(t) /\ UNCHANGED pd
  <2>1. IdleStep(t) /\ \A w \in Wrap : SameUse(w)
    BY <1>1, <1>3, IdleReturn DEF SameUse
  <2>. QED  BY <2>1, IdleKeeps
<1>4. CASE ~(\E f : Abort(f)) /\ ~(Return(t) /\ UNCHANGED pd)
  <2>. DEFINE a == pd[v].obj
              use == WFrame("pdDeref", v)
              rest == RestFrame("dtorRest", a, v)
              loop == LoopFrame(qwm.set)
  <2>1. ~Abort("qwm_deleteAll")
    BY <1>4
  <2>2. /\ pd[v].attached /\ pd' = [pd EXCEPT ![v].attached = FALSE]
        /\ \/ Calls(t, <<use>>)
           \/ a # None /\ Calls(t, <<rest, use>>)
           \/ a # None /\ Calls(t, <<loop, rest, use>>)
    BY <1>1, <1>4, <2>1 DEF CommonDestructor
  <2>3. use \in Frame /\ loop \in Frame /\ (a # None => rest \in Frame)
    BY WFrameType, LoopFrameType, RestFrameType, PdFields DEF TypeOK, WOps, RestOps
  <2>4. rest.op # "pdDeref" /\ loop.op # "pdDeref" /\ use = WFrame("pdDeref", v)
    BY DEF RestFrame, LoopFrame
  <2>. HIDE DEF use, rest, loop
  <2>5. pd[v].attached /\ pd' = [pd EXCEPT ![v].attached = FALSE]
    BY <2>2
  <2>6. CASE Calls(t, <<use>>)
    <3>. DEFINE fs == <<use>>
    <3>1. fs \in Seq(Frame) /\ Len(fs) = 1 /\ fs[1] = use
      BY <2>3
    <3>2. Calls(t, fs)
      BY <2>6
    <3>. HIDE DEF fs
    <3>3. /\ 1 \in 1..Len(fs) /\ fs[1] = WFrame("pdDeref", v)
          /\ \A k \in 1..Len(fs) : fs[k].op = "pdDeref" => k = 1
      BY <2>4, <3>1
    <3>4. fs \in Seq(Frame)
      BY <3>1
    <3>. QED  BY <1>1, <2>5, <3>2, <3>3, <3>4, UseDetached
  <2>7. CASE a # None /\ Calls(t, <<rest, use>>)
    <3>. DEFINE fs == <<rest, use>>
    <3>1. fs \in Seq(Frame) /\ Len(fs) = 2 /\ fs[1] = rest /\ fs[2] = use
      BY <2>3, <2>7
    <3>2. Calls(t, fs)
      BY <2>7
    <3>. HIDE DEF fs
    <3>3. /\ 2 \in 1..Len(fs) /\ fs[2] = WFrame("pdDeref", v)
          /\ \A k \in 1..Len(fs) : fs[k].op = "pdDeref" => k = 2
      BY <2>4, <3>1
    <3>4. fs \in Seq(Frame)
      BY <3>1
    <3>. QED  BY <1>1, <2>5, <3>2, <3>3, <3>4, UseDetached
  <2>8. CASE a # None /\ Calls(t, <<loop, rest, use>>)
    <3>. DEFINE fs == <<loop, rest, use>>
    <3>1. fs \in Seq(Frame) /\ Len(fs) = 3 /\ fs[1] = loop /\ fs[2] = rest /\ fs[3] = use
      BY <2>3, <2>8
    <3>2. Calls(t, fs)
      BY <2>8
    <3>. HIDE DEF fs
    <3>3. /\ 3 \in 1..Len(fs) /\ fs[3] = WFrame("pdDeref", v)
          /\ \A k \in 1..Len(fs) : fs[k].op = "pdDeref" => k = 3
      BY <2>4, <3>1
    <3>4. fs \in Seq(Frame)
      BY <3>1
    <3>. QED  BY <1>1, <2>5, <3>2, <3>3, <3>4, UseDetached
  <2>. QED  BY <2>2, <2>6, <2>7, <2>8
<1>. QED  BY <1>2, <1>3, <1>4

LEMMA ConstructorThrowsUse ==
    ASSUME TypeOK, TypeOK', \A w \in Wrap : UseOk(w), NEW t \in Thread, ConstructorThrows(t)
    PROVE  \A w \in Wrap : UseOk(w)'
<1>1. PICK v \in Wrap : v = Top(t).w /\ stack[t] # <<>> /\ Top(t).op # "pdDeref"
  BY TopArguments DEF ConstructorThrows, AtTop, Running, WOps
<1>2. pd \in [Wrap -> PdRecord] /\ pd[v].attached \in BOOLEAN
  BY PdFields DEF TypeOK
<1>3. CASE Calls(t, <<WFrame("deref", v)>>) /\ \A w \in Wrap : SameUse(w)
  <2>1. <<WFrame("deref", v)>> \in Seq(IdleFrame)
    BY IdleFrames, Seqs DEF WOps
  <2>2. IdleStep(t)
    BY <1>1, <1>3, <2>1 DEF IdleStep
  <2>. QED  BY <1>3, <2>2, IdleKeeps
<1>4. CASE /\ pd[v].attached /\ pd' = [pd EXCEPT ![v].attached = FALSE]
           /\ Calls(t, <<WFrame("pdDeref", v), WFrame("deref", v)>>)
  <2>. DEFINE fs == <<WFrame("pdDeref", v), WFrame("deref", v)>>
  <2>1. fs \in Seq(Frame) /\ Len(fs) = 2 /\ fs[2].op # "pdDeref" /\ fs[1] = WFrame("pdDeref", v)
    <3>1. WFrame("deref", v) \in Frame /\ WFrame("pdDeref", v) \in Frame
      BY WFrameType DEF WOps
    <3>. QED  BY <3>1, Seqs DEF WFrame
  <2>2. Calls(t, fs)
    BY <1>4
  <2>. HIDE DEF fs
  <2>3. 1 \in 1..Len(fs) /\ \A k \in 1..Len(fs) : fs[k].op = "pdDeref" => k = 1
    BY <2>1
  <2>. QED  BY <1>1, <1>4, <2>1, <2>2, <2>3, UseDetached
<1>5. CASE wr[v].refs = 1 /\ wr[v].status = "ok"
  <2>1. /\ pd' = [pd EXCEPT ![v].attached = FALSE]
        /\ Calls(t, IF pd[v].attached
                    THEN <<WFrame("pdDeref", v), WFrame("deref", v)>>
                    ELSE <<WFrame("deref", v)>>)
    BY <1>1, <1>5 DEF ConstructorThrows
  <2>2. CASE pd[v].attached
    BY <1>4, <2>1, <2>2
  <2>3. CASE ~pd[v].attached
    <3>1. \A w \in Wrap : SameUse(w)
      BY <1>2, <2>1, <2>3 DEF SameUse, PdRecord
    <3>. QED  BY <1>3, <2>1, <2>3, <3>1
  <2>. QED  BY <2>2, <2>3
<1>6. CASE ~(wr[v].refs = 1 /\ wr[v].status = "ok")
  <2>1. Calls(t, <<WFrame("deref", v)>>) /\ UNCHANGED pd
    BY <1>1, <1>6 DEF ConstructorThrows
  <2>. QED  BY <1>3, <2>1 DEF SameUse
<1>. QED  BY <1>5, <1>6

PrivateInv == \A w \in Wrap : UseOk(w)

LEMMA InitUse == Init => PrivateInv
<1>. SUFFICES ASSUME Init, NEW w \in Wrap PROVE UseOk(w)
  BY DEF PrivateInv
<1>1. \A F : Places(F) = {}
  <2>1. \A t \in Thread : stack[t] = <<>> /\ DOMAIN stack[t] = {}
    BY DEF Init
  <2>. QED  BY <2>1 DEF Places
<1>2. IsFiniteSet(Places(UseFrames(w))) /\ Uses(w) = 0
  BY <1>1, FS_EmptySet DEF Uses
<1>3. pd[w].refs = 0 /\ pd[w].attached = FALSE
  BY DEF Init, NoPd
<1>. QED  BY <1>2, <1>3 DEF UseOk

LEMMA UnwindUse ==
    ASSUME TypeOK, TypeOK', PrivateInv, NEW t \in Thread, Unwind(t)
    PROVE  PrivateInv'
<1>1. CASE \/ ConstructorReturns(t) \/ UserDtorEnd(t) \/ Deref(t) \/ EndDelete(t)
           \/ ObjRefDrop(t) \/ MethodCall(t) \/ MapHit(t) \/ OutOfMemory(t)
           \/ ExternalDelete(t) \/ ExternalDeleteEnd(t) \/ ReturnToQtEnd(t)
  BY <1>1, UnwindIdle, IdleKeeps DEF PrivateInv
<1>2. CASE \/ DeleteAll(t) \/ DtorRest(t) \/ DtorRestEnd(t) \/ QtDestroy(t) \/ QtFree(t)
           \/ Deleted(t) \/ MapDel(t)
  BY <1>2, QtIdle, IdleKeeps DEF PrivateInv
<1>3. CASE ConstructorThrows(t) \/ CommonDestructor(t) \/ PdDeref(t) \/ Hold(t)
  BY <1>3, ConstructorThrowsUse, CommonDestructorUse, UseReturns, HoldUse DEF PrivateInv
<1>4. CASE \/ \E w \in Wrap : MapMiss(t, w)
           \/ \E w \in Wrap, b \in Addr : MapMissCopy(t, w, b)
  BY <1>4, MakeUse DEF PrivateInv
<1>. QED  BY <1>1, <1>2, <1>3, <1>4 DEF Unwind

LEMMA ProgramActsUse ==
    ASSUME TypeOK, TypeOK', PrivateInv, NEW t \in Thread, ProgramActs(t)
    PROVE  PrivateInv'
<1>1. CASE \/ \E w \in Wrap :
                 \/ Release(t, w) \/ Delete(t, w) \/ SetExternallyOwned(t, w)
                 \/ \E p \in Addr \cup {None} : SetParent(t, w, p)
           \/ \E a \in Addr : \/ ReturnByValue(t, a)
                              \/ \E const \in BOOLEAN : ReturnObject(t, a, const)
  BY <1>1, ProgramIdle, IdleKeeps DEF PrivateInv
<1>2. CASE \E w \in Wrap : CommonMethod(t, w) \/ ReturnToQt(t, w)
  BY <1>2, CommonMethodUse, ReturnToQtUse DEF PrivateInv
<1>3. CASE \E w \in Wrap, p \in Addr \cup {None}, a \in Addr, kind \in Kinds :
             CommonConstructor(t, a, w, kind, p)
  BY <1>3, MakeUse DEF PrivateInv
<1>. QED  BY <1>1, <1>2, <1>3 DEF ProgramActs

LEMMA StepUse == TypeOK /\ TypeOK' /\ PrivateInv /\ [Next]_vars => PrivateInv'
<1>. SUFFICES ASSUME TypeOK, TypeOK', PrivateInv, [Next]_vars PROVE PrivateInv'
  OBVIOUS
<1>1. CASE UNCHANGED vars
  <2>1. IdleStep(GuiThread) /\ \A w \in Wrap : SameUse(w)
    BY <1>1 DEF vars, IdleStep, SameUse
  <2>. QED  BY <2>1, ThreadAssumption, IdleKeeps DEF PrivateInv
<1>2. CASE QtActs(GuiThread)
  BY <1>2, ThreadAssumption, QtActsIdle, IdleKeeps DEF PrivateInv
<1>3. CASE \E t \in Thread : Unwind(t) \/ ProgramActs(t)
  BY <1>3, UnwindUse, ProgramActsUse
<1>. QED  BY <1>1, <1>2, <1>3 DEF Next

\* Private data is counted once for the key of its object and once for every
\* call that uses it, so ~QoreSmokePrivate() runs when, and only when, the
\* destructor has taken it off its key and the last call is done with it.
THEOREM PrivateCountsRight == Spec => []PrivateReferencesAccounted
<1>1. PrivateInv => PrivateReferencesAccounted
  BY DEF PrivateInv, UseOk, Uses, UseFrames, PrivateReferencesAccounted
<1>2. TypeOK /\ TypeOK' /\ PrivateInv /\ [Next]_vars => PrivateInv'
  BY StepUse
<1>. QED  BY <1>1, <1>2, InitUse, TypeCorrect, PTL DEF Spec

-----------------------------------------------------------------------------
(* Which steps enter the destructor of a QObject *)

FreeFrames(a) == {AFrame("qtFree", a)}
PlainFrame == {f \in Frame : f.op # "qtFree"}

\* what the step does to the stack of t, the destructors of Qt apart
PlainStep(t) ==
    \/ UNCHANGED stack
    \/ \E fs \in Seq(PlainFrame) : Enter(t, fs)
    \/ stack[t] # <<>> /\ Top(t).op # "qtFree" /\ \E fs \in Seq(PlainFrame) : Calls(t, fs)

LEMMA PlainFrames ==
    /\ \A op \in WOps, w \in Wrap : WFrame(op, w) \in PlainFrame
    /\ \A op \in AOps \ {"qtFree"}, a \in Addr : AFrame(op, a) \in PlainFrame
    /\ \A op \in RestOps, a \in Addr, w \in Wrap : RestFrame(op, a, w) \in PlainFrame
    /\ \A s \in SUBSET Addr : LoopFrame(s) \in PlainFrame
<1>1. /\ \A op \in WOps, w \in Wrap : WFrame(op, w) \in PlainFrame
      /\ \A op \in AOps \ {"qtFree"}, a \in Addr : AFrame(op, a) \in PlainFrame
  BY WFrameType, AFrameType DEF PlainFrame, WFrame, AFrame, WOps
<1>2. /\ \A op \in RestOps, a \in Addr, w \in Wrap : RestFrame(op, a, w) \in PlainFrame
      /\ \A s \in SUBSET Addr : LoopFrame(s) \in PlainFrame
  BY RestFrameType, LoopFrameType DEF PlainFrame, RestFrame, LoopFrame, RestOps, RestDelOps, RestEndOps
<1>. QED  BY <1>1, <1>2

LEMMA PlainReturn ==
    ASSUME NEW t \in Thread, stack[t] # <<>>, Top(t).op # "qtFree", Return(t)
    PROVE  PlainStep(t)
<1>1. <<>> \in Seq(PlainFrame) /\ Calls(t, <<>>)
  BY DEF Return
<1>. QED  BY <1>1 DEF PlainStep

\* the calls on the wrapper w
LEMMA PlainWrapperCalls ==
    ASSUME NEW w \in Wrap
    PROVE  /\ \A op \in WOps : <<WFrame(op, w)>> \in Seq(PlainFrame)
           /\ \A op, then \in WOps : <<WFrame(op, w), WFrame(then, w)>> \in Seq(PlainFrame)
           /\ \A op, then, last \in WOps :
                  <<WFrame(op, w), WFrame(then, w), WFrame(last, w)>> \in Seq(PlainFrame)
           /\ DestructorFrames(w) \in Seq(PlainFrame)
           /\ Append(DestructorFrames(w), WFrame("objRefDrop", w)) \in Seq(PlainFrame)
<1>1. /\ \A op \in WOps : <<WFrame(op, w)>> \in Seq(PlainFrame)
      /\ \A op, then \in WOps : <<WFrame(op, w), WFrame(then, w)>> \in Seq(PlainFrame)
      /\ \A op, then, last \in WOps :
            <<WFrame(op, w), WFrame(then, w), WFrame(last, w)>> \in Seq(PlainFrame)
  BY PlainFrames, Seqs
<1>2. /\ WFrame("userDtor", w) \in PlainFrame /\ WFrame("commonDtor", w) \in PlainFrame
      /\ WFrame("endDelete", w) \in PlainFrame /\ WFrame("objRefDrop", w) \in PlainFrame
  BY PlainFrames DEF WOps
<1>3. DestructorFrames(w) \in Seq(PlainFrame)
  BY <1>2, Seqs DEF DestructorFrames
<1>4. Append(DestructorFrames(w), WFrame("objRefDrop", w)) \in Seq(PlainFrame)
  BY <1>2, <1>3
<1>. QED  BY <1>1, <1>3, <1>4

LEMMA UnwindPlain ==
    ASSUME TypeOK, NEW t \in Thread, Unwind(t), ~QtDestroy(t), ~QtFree(t)
    PROVE  PlainStep(t)
<1>1. CASE \E f : Abort(f)
  BY <1>1 DEF Abort, PlainStep
<1>2. CASE \/ ConstructorReturns(t) \/ UserDtorEnd(t) \/ OutOfMemory(t)
  <2>1. stack[t] # <<>> /\ Top(t).op # "qtFree" /\ Return(t)
    BY <1>2 DEF ConstructorReturns, UserDtorEnd, OutOfMemory, AtTop, Running
  <2>. QED  BY <2>1, PlainReturn
<1>3. CASE ~(\E f : Abort(f)) /\ (MethodCall(t) \/ MapHit(t))
  <2>1. stack[t] # <<>> /\ Top(t).op # "qtFree" /\ Return(t)
    BY <1>3 DEF MethodCall, MapHit, AtTop, Running
  <2>. QED  BY <2>1, PlainReturn
<1>4. CASE ~(\E f : Abort(f)) /\ \E w \in Wrap : MapMiss(t, w)
  <2>1. stack[t] # <<>> /\ Top(t).op # "qtFree" /\ Return(t)
    BY <1>4 DEF MapMiss, AtTop, Running
  <2>. QED  BY <2>1, PlainReturn
<1>5. CASE ~(\E f : Abort(f)) /\ \E w \in Wrap, b \in Addr : MapMissCopy(t, w, b)
  <2>1. stack[t] # <<>> /\ Top(t).op # "qtFree" /\ Return(t)
    BY <1>5 DEF MapMissCopy, AtTop, Running
  <2>. QED  BY <2>1, PlainReturn
<1>6. CASE ~(\E f : Abort(f)) /\ (ConstructorThrows(t) \/ Deref(t) \/ EndDelete(t) \/ ObjRefDrop(t))
  <2>1. PICK w \in Wrap : w = Top(t).w /\ stack[t] # <<>> /\ Top(t).op # "qtFree"
    BY <1>6, TopArguments DEF ConstructorThrows, Deref, EndDelete, ObjRefDrop, AtTop, Running, WOps
  <2>2. \/ Return(t)
        \/ Calls(t, DestructorFrames(w))
        \/ Calls(t, <<WFrame("deref", w)>>)
        \/ Calls(t, <<WFrame("pdDeref", w), WFrame("deref", w)>>)
    <3>1. CASE Deref(t)
      BY <1>6, <2>1, <3>1 DEF Deref
    <3>2. CASE EndDelete(t)
      BY <2>1, <3>2 DEF EndDelete
    <3>3. CASE ObjRefDrop(t)
      <4>1. Calls(t, IF pd[w].obj_ref THEN <<WFrame("deref", w)>> ELSE <<>>)
        BY <2>1, <3>3 DEF ObjRefDrop
      <4>2. CASE pd[w].obj_ref
        BY <4>1, <4>2
      <4>3. CASE ~pd[w].obj_ref
        BY <4>1, <4>3 DEF Return
      <4>. QED  BY <4>2, <4>3
    <3>4. CASE ConstructorThrows(t)
      <4>1. CASE wr[w].refs = 1 /\ wr[w].status = "ok"
        <5>1. Calls(t, IF pd[w].attached
                       THEN <<WFrame("pdDeref", w), WFrame("deref", w)>>
                       ELSE <<WFrame("deref", w)>>)
          BY <2>1, <3>4, <4>1 DEF ConstructorThrows
        <5>2. CASE pd[w].attached
          BY <5>1, <5>2
        <5>3. CASE ~pd[w].attached
          BY <5>1, <5>3
        <5>. QED  BY <5>2, <5>3
      <4>2. CASE ~(wr[w].refs = 1 /\ wr[w].status = "ok")
        BY <2>1, <3>4, <4>2 DEF ConstructorThrows
      <4>. QED  BY <4>1, <4>2
    <3>. QED  BY <1>6, <3>1, <3>2, <3>3, <3>4
  <2>3. /\ DestructorFrames(w) \in Seq(PlainFrame)
        /\ <<WFrame("deref", w)>> \in Seq(PlainFrame)
        /\ <<WFrame("pdDeref", w), WFrame("deref", w)>> \in Seq(PlainFrame)
    <3>1. "deref" \in WOps /\ "pdDeref" \in WOps
      BY DEF WOps
    <3>. QED  BY <3>1, PlainWrapperCalls
  <2>. QED  BY <2>1, <2>2, <2>3, PlainReturn DEF PlainStep
<1>7. CASE ~(\E f : Abort(f)) /\ PdDeref(t)
  <2>1. PICK w \in Wrap : w = Top(t).w /\ stack[t] # <<>> /\ Top(t).op # "qtFree"
    BY <1>7, TopArguments DEF PdDeref, AtTop, Running, WOps
  <2>2. \/ Return(t)
        \/ pd[w].obj # None /\ Calls(t, <<AFrame("qtDestroy", pd[w].obj)>>)
    BY <1>7, <2>1 DEF PdDeref, Return
  <2>3. pd[w].obj # None => <<AFrame("qtDestroy", pd[w].obj)>> \in Seq(PlainFrame)
    BY PdFields, PlainFrames DEF AOps
  <2>. QED  BY <2>1, <2>2, <2>3, PlainReturn DEF PlainStep
<1>8. CASE ~(\E f : Abort(f)) /\ CommonDestructor(t)
  <2>1. PICK w \in Wrap : w = Top(t).w /\ stack[t] # <<>> /\ Top(t).op # "qtFree"
    BY <1>8, TopArguments DEF CommonDestructor, AtTop, Running, WOps
  <2>2. PICK a \in Addr \cup {None} : a = pd[w].obj
    BY PdFields
  <2>3. \/ Return(t) \/ Calls(t, <<WFrame("pdDeref", w)>>)
        \/ /\ a # None
           /\ Calls(t, <<LoopFrame(qwm.set), RestFrame("dtorRest", a, w), WFrame("pdDeref", w)>>)
        \/ a # None /\ Calls(t, <<RestFrame("dtorRest", a, w), WFrame("pdDeref", w)>>)
    BY <1>8, <2>1, <2>2 DEF CommonDestructor
  <2>4. /\ WFrame("pdDeref", w) \in PlainFrame /\ LoopFrame(qwm.set) \in PlainFrame
        /\ a # None => RestFrame("dtorRest", a, w) \in PlainFrame
    BY <2>2, PlainFrames DEF WOps, RestOps, TypeOK
  <2>5. /\ <<WFrame("pdDeref", w)>> \in Seq(PlainFrame)
        /\ a # None => /\ <<LoopFrame(qwm.set), RestFrame("dtorRest", a, w), WFrame("pdDeref", w)>>
                              \in Seq(PlainFrame)
                       /\ <<RestFrame("dtorRest", a, w), WFrame("pdDeref", w)>> \in Seq(PlainFrame)
    BY <2>4, Seqs
  <2>. QED  BY <2>1, <2>3, <2>5, PlainReturn DEF PlainStep
<1>9. CASE ~(\E f : Abort(f)) /\ DeleteAll(t)
  <2>1. PICK s \in SUBSET Addr : s = Top(t).s /\ stack[t] # <<>> /\ Top(t).op # "qtFree"
    BY <1>9, TopArguments DEF DeleteAll, AtTop, Running
  <2>2. \/ Return(t)
        \/ \E a \in s : \/ Calls(t, <<AFrame("qtDestroy", a), LoopFrame(s \ {a})>>)
                        \/ Calls(t, <<LoopFrame(s \ {a})>>)
    BY <1>9, <2>1 DEF DeleteAll
  <2>3. ASSUME NEW a \in s
        PROVE  /\ <<AFrame("qtDestroy", a), LoopFrame(s \ {a})>> \in Seq(PlainFrame)
               /\ <<LoopFrame(s \ {a})>> \in Seq(PlainFrame)
    <3>1. AFrame("qtDestroy", a) \in PlainFrame /\ LoopFrame(s \ {a}) \in PlainFrame
      BY PlainFrames DEF AOps
    <3>. QED  BY <3>1, Seqs
  <2>. QED  BY <2>1, <2>2, <2>3, PlainReturn DEF PlainStep
<1>10. CASE ~(\E f : Abort(f)) /\ DtorRest(t)
  <2>1. PICK w \in Wrap, a \in Addr :
          w = Top(t).w /\ a = Top(t).a /\ stack[t] # <<>> /\ Top(t).op # "qtFree"
    BY <1>10, TopArguments DEF DtorRest, AtTop, Running, RestOps
  <2>. DEFINE way == IF pd[w].is_qobject /\ qt[a].parent # None THEN "keepDel"
                     ELSE IF pd[w].eo THEN "dropDel" ELSE "takeDel"
  <2>2. Calls(t, <<RestFrame(way, a, w)>>) /\ way \in RestDelOps
    BY <1>10, <2>1 DEF DtorRest, RestDelOps
  <2>. HIDE DEF way
  <2>3. <<RestFrame(way, a, w)>> \in Seq(PlainFrame)
    <3>1. RestFrame(way, a, w) \in PlainFrame
      BY <2>2, PlainFrames DEF RestOps
    <3>. QED  BY <3>1
  <2>. QED  BY <2>1, <2>2, <2>3 DEF PlainStep
<1>11. CASE DtorRestEnd(t)
  <2>1. PICK w \in Wrap, a \in Addr :
          w = Top(t).w /\ a = Top(t).a /\ stack[t] # <<>> /\ Top(t).op # "qtFree"
    BY <1>11, TopArguments DEF DtorRestEnd, Running, RestOps, RestEndOps
  <2>2. \/ Calls(t, <<>>) \/ Calls(t, <<WFrame("objRefDrop", w)>>)
        \/ Calls(t, <<WFrame("objRefDrop", w), AFrame("qtDestroy", a)>>)
    BY <1>11, <2>1 DEF DtorRestEnd, RestEndOps
  <2>3. WFrame("objRefDrop", w) \in PlainFrame /\ AFrame("qtDestroy", a) \in PlainFrame
    BY PlainFrames DEF AOps, WOps
  <2>4. /\ <<>> \in Seq(PlainFrame) /\ <<WFrame("objRefDrop", w)>> \in Seq(PlainFrame)
        /\ <<WFrame("objRefDrop", w), AFrame("qtDestroy", a)>> \in Seq(PlainFrame)
    BY <2>3, Seqs
  <2>. QED  BY <2>1, <2>2, <2>4 DEF PlainStep
<1>12. CASE Deleted(t)
  <2>1. PICK a \in Addr : a = Top(t).a /\ stack[t] # <<>> /\ Top(t).op # "qtFree"
    BY <1>12, TopArguments DEF Deleted, AtTop, Running, AOps
  <2>2. PICK w \in Wrap \cup {None} : w = map[a]
    BY DEF TypeOK
  <2>3. Calls(t, <<>>) \/ (w \in Wrap /\ Calls(t, <<WFrame("hold", w)>>))
    BY <1>12, <2>1, <2>2 DEF Deleted
  <2>4. /\ <<>> \in Seq(PlainFrame)
        /\ w \in Wrap => <<WFrame("hold", w)>> \in Seq(PlainFrame)
    <3>1. "hold" \in WOps /\ <<>> \in Seq(PlainFrame)
      BY DEF WOps
    <3>. QED  BY <3>1, PlainWrapperCalls
  <2>. QED  BY <2>1, <2>3, <2>4 DEF PlainStep
<1>13. CASE ~(\E f : Abort(f)) /\ Hold(t)
  <2>1. PICK w \in Wrap : w = Top(t).w /\ stack[t] # <<>> /\ Top(t).op # "qtFree"
    BY <1>13, TopArguments DEF Hold, AtTop, Running, WOps
  <2>2. \/ Return(t)
        \/ Calls(t, <<WFrame("externalDelete", w), WFrame("pdDeref", w)>>)
    BY <1>13, <2>1 DEF Hold
  <2>3. <<WFrame("externalDelete", w), WFrame("pdDeref", w)>> \in Seq(PlainFrame)
    BY PlainWrapperCalls DEF WOps
  <2>. QED  BY <2>1, <2>2, <2>3, PlainReturn DEF PlainStep
<1>14. CASE ~(\E f : Abort(f)) /\ (ExternalDelete(t) \/ ExternalDeleteEnd(t))
  <2>1. PICK w \in Wrap : w = Top(t).w /\ stack[t] # <<>> /\ Top(t).op # "qtFree"
    BY <1>14, TopArguments DEF ExternalDelete, ExternalDeleteEnd, AtTop, Running, WOps
  <2>2. \/ \E op \in {"externalDel", "objRefDrop"} : Calls(t, <<WFrame(op, w)>>)
        \/ Calls(t, Append(DestructorFrames(w), WFrame("objRefDrop", w)))
    <3>1. CASE ExternalDelete(t)
      <4>. DEFINE op == IF pd[w].obj # None THEN "externalDel" ELSE "objRefDrop"
      <4>1. Calls(t, <<WFrame(op, w)>>) /\ op \in {"externalDel", "objRefDrop"}
        BY <1>14, <2>1, <3>1 DEF ExternalDelete
      <4>. HIDE DEF op
      <4>. QED  BY <4>1
    <3>2. CASE ExternalDeleteEnd(t)
      BY <1>14, <2>1, <3>2 DEF ExternalDeleteEnd
    <3>. QED  BY <1>14, <3>1, <3>2
  <2>3. /\ \A op \in {"externalDel", "objRefDrop"} : <<WFrame(op, w)>> \in Seq(PlainFrame)
        /\ Append(DestructorFrames(w), WFrame("objRefDrop", w)) \in Seq(PlainFrame)
    <3>1. {"externalDel", "objRefDrop"} \subseteq WOps
      BY DEF WOps
    <3>. QED  BY <3>1, PlainWrapperCalls
  <2>. QED  BY <2>1, <2>2, <2>3 DEF PlainStep
<1>15. CASE ReturnToQtEnd(t)
  <2>1. stack[t] # <<>> /\ Top(t).op # "qtFree" /\ Return(t)
    BY <1>15 DEF ReturnToQtEnd, AtTop, Running
  <2>. QED  BY <2>1, PlainReturn
<1>16. CASE ~(\E f : Abort(f)) /\ MapDel(t)
  <2>1. PICK g \in Frame : g.op \in EndOps /\ Calls(t, <<g>>)
    BY <1>16, MapDelStep
  <2>2. g \in PlainFrame
    BY <2>1 DEF PlainFrame, EndOps, RestEndOps
  <2>3. <<g>> \in Seq(PlainFrame)
    BY <2>2
  <2>4. stack[t] # <<>> /\ Top(t).op # "qtFree"
    BY <1>16, MapDelStep DEF DelOps, RestDelOps
  <2>. QED  BY <2>1, <2>3, <2>4 DEF PlainStep
<1>. QED  BY <1>1, <1>2, <1>3, <1>4, <1>5, <1>6, <1>7, <1>8, <1>9, <1>10, <1>11, <1>12,
             <1>13, <1>14, <1>15, <1>16 DEF Unwind

LEMMA ActsPlain ==
    ASSUME TypeOK, NEW t \in Thread, QtActs(t) \/ ProgramActs(t)
    PROVE  PlainStep(t)
<1>. DEFINE Frames == Seq(PlainFrame)
<1>1. CASE UNCHANGED stack
  BY <1>1 DEF PlainStep
<1>2. CASE \E w \in Wrap : \/ Release(t, w) \/ Delete(t, w)
                           \/ CommonMethod(t, w) \/ ReturnToQt(t, w)
  <2>1. PICK w \in Wrap : \/ Enter(t, <<WFrame("deref", w)>>)
                          \/ Enter(t, DestructorFrames(w))
                          \/ Enter(t, <<WFrame("methodCall", w), WFrame("pdDeref", w)>>)
                          \/ Enter(t, <<WFrame("returnDel", w), WFrame("pdDeref", w),
                                        WFrame("deref", w)>>)
    BY <1>2 DEF Release, Delete, CommonMethod, ReturnToQt
  <2>2. {"deref", "methodCall", "pdDeref", "returnDel"} \subseteq WOps
    BY DEF WOps
  <2>3. <<WFrame("deref", w)>> \in Frames /\ DestructorFrames(w) \in Frames
    BY <2>2, PlainWrapperCalls
  <2>4. <<WFrame("methodCall", w), WFrame("pdDeref", w)>> \in Frames
    BY <2>2, PlainWrapperCalls
  <2>5. <<WFrame("returnDel", w), WFrame("pdDeref", w), WFrame("deref", w)>> \in Frames
    BY <2>2, PlainWrapperCalls
  <2>. QED  BY <2>1, <2>3, <2>4, <2>5 DEF PlainStep
<1>3. CASE \E w \in Wrap : \/ SetExternallyOwned(t, w)
                           \/ \E p \in Addr \cup {None} : SetParent(t, w, p)
  <2>1. UNCHANGED stack
    BY <1>3 DEF SetExternallyOwned, SetParent, Abort
  <2>. QED  BY <2>1 DEF PlainStep
<1>4. CASE \E w \in Wrap, p \in Addr \cup {None}, a \in Addr, kind \in Kinds :
             CommonConstructor(t, a, w, kind, p)
  <2>1. PICK w \in Wrap : UNCHANGED stack \/ Enter(t, <<WFrame("ctorBody", w)>>)
    BY <1>4 DEF CommonConstructor, Abort
  <2>2. <<WFrame("ctorBody", w)>> \in Frames
    <3>1. "ctorBody" \in WOps
      BY DEF WOps
    <3>. QED  BY <3>1, PlainWrapperCalls
  <2>. QED  BY <2>1, <2>2 DEF PlainStep
<1>5. CASE \E a \in Addr : \/ ReturnByValue(t, a)
                           \/ \E const \in BOOLEAN : ReturnObject(t, a, const)
  <2>1. PICK a \in Addr, miss \in AOps \ {"qtFree"} : Enter(t, <<Lookup(a, miss)>>)
    BY <1>5 DEF ReturnByValue, ReturnObject, AOps
  <2>2. Lookup(a, miss) \in PlainFrame
    BY PlainFrames DEF Lookup, WOps, TypeOK
  <2>3. <<Lookup(a, miss)>> \in Frames
    BY <2>2, Seqs
  <2>. QED  BY <2>1, <2>3 DEF PlainStep
<1>6. CASE QtActs(t)
  <2>1. CASE \E a \in Addr, p \in Addr \cup {None} :
               \/ QtReparent(t, a, p) \/ \E kind \in Kinds : QtCreate(t, a, kind, p)
    BY <2>1 DEF QtReparent, QtCreate, PlainStep
  <2>2. CASE \E a \in Addr : QtDelete(t, a)
    <3>1. PICK a \in Addr : Enter(t, <<AFrame("qtDestroy", a)>>)
      BY <2>2 DEF QtDelete
    <3>2. AFrame("qtDestroy", a) \in PlainFrame
      BY PlainFrames DEF AOps
    <3>3. <<AFrame("qtDestroy", a)>> \in Frames
      BY <3>2, Seqs
    <3>. QED  BY <3>1, <3>3 DEF PlainStep
  <2>. QED  BY <1>6, <2>1, <2>2 DEF QtActs
<1>. QED  BY <1>2, <1>3, <1>4, <1>5, <1>6 DEF ProgramActs

-----------------------------------------------------------------------------
(* The destructor of a QObject is at work once, on a dying object *)

FreeOk(a) ==
    /\ \A x, y \in Places(FreeFrames(a)) : x = y
    /\ Places(FreeFrames(a)) # {} => Dying(a)

\* A plain step leaves the destructors of Qt where they are.
LEMMA PlainPlaces ==
    ASSUME TypeOK, TypeOK', NEW t \in Thread, PlainStep(t), NEW a \in Addr
    PROVE  Places(FreeFrames(a))' = Places(FreeFrames(a))
<1>. DEFINE F == FreeFrames(a)
<1>1. CASE UNCHANGED stack
  BY <1>1 DEF Places
<1>2. ASSUME NEW fs \in Seq(PlainFrame)
      PROVE  /\ fs \in Seq(Frame)
             /\ \A j \in 1..Len(fs) : fs[j] \notin F
  <2>1. \A j \in 1..Len(fs) : fs[j] \in PlainFrame
    OBVIOUS
  <2>2. PlainFrame \subseteq Frame /\ \A f \in PlainFrame : f \notin F
    BY DEF PlainFrame, FreeFrames, AFrame
  <2>3. fs \in Seq(Frame)
    BY <2>2
  <2>. QED  BY <2>1, <2>2, <2>3
<1>3. CASE \E fs \in Seq(PlainFrame) : Enter(t, fs)
  <2>1. PICK fs \in Seq(PlainFrame) : Enter(t, fs)
    BY <1>3
  <2>2. fs \in Seq(Frame) /\ \A j \in 1..Len(fs) : fs[j] \notin F
    BY <1>2
  <2>3. Replaces(t, 0, fs) /\ 0 \in 0..1 /\ 0 <= Len(stack[t])
    BY <2>1, <2>2, EnterReplaces DEF TypeOK
  <2>. QED  BY <2>2, <2>3, PlacesKept
<1>4. CASE stack[t] # <<>> /\ Top(t).op # "qtFree" /\ \E fs \in Seq(PlainFrame) : Calls(t, fs)
  <2>1. PICK fs \in Seq(PlainFrame) : Calls(t, fs)
    BY <1>4
  <2>2. fs \in Seq(Frame) /\ \A j \in 1..Len(fs) : fs[j] \notin F
    BY <1>2
  <2>3. Replaces(t, 1, fs) /\ 1 \in 0..1 /\ 1 <= Len(stack[t])
    <3>1. Replaces(t, 1, fs)
      BY <1>4, <2>1, <2>2, CallsReplaces
    <3>2. stack[t] \in Seq(Frame) /\ Len(stack[t]) \in Nat /\ Len(stack[t]) # 0
      BY <1>4 DEF TypeOK
    <3>. QED  BY <3>1, <3>2
  <2>4. Top(t) \notin F
    BY <1>4 DEF FreeFrames, AFrame
  <2>. QED  BY <2>2, <2>3, <2>4, PlacesKept
<1>. QED  BY <1>1, <1>3, <1>4 DEF PlainStep

\* An object that is dying stays so until its destructor returns.
LEMMA DyingKept ==
    ASSUME TypeOK, NEW t \in Thread, ~QtFree(t),
           \/ Unwind(t) \/ QtActs(t) \/ ProgramActs(t),
           NEW a \in Addr, Dying(a)
    PROVE  Dying(a)'
<1>. qt \in [Addr -> QtRecord]
  BY DEF TypeOK
<1>1. CASE UNCHANGED qt
  BY <1>1 DEF Dying
<1>2. CASE \E b \in Addr : \E r : /\ qt' = [qt EXCEPT ![b] = r]
                                  /\ qt[b].state = "free"
  BY <1>2 DEF Dying
<1>3. CASE \E b \in Addr, p \in Addr \cup {None} : qt' = [qt EXCEPT ![b].parent = p]
  BY <1>3 DEF Dying, QtRecord
<1>4. CASE \E b \in Addr : qt' = [qt EXCEPT ![b].taken = TRUE]
  BY <1>4 DEF Dying, QtRecord
<1>5. CASE \E b \in Addr : qt' = [qt EXCEPT ![b].state = "dying"]
  BY <1>5 DEF Dying, QtRecord
<1>6. CASE Unwind(t)
  <2>1. CASE UNCHANGED qt
    BY <1>1, <2>1
  <2>2. CASE QtDestroy(t)
    <3>1. stack[t] # <<>> /\ Top(t).op \in AOps
      BY <2>2 DEF QtDestroy, AtTop, Running, AOps
    <3>2. Top(t).a \in Addr
      BY <3>1, TopArguments
    <3>. QED  BY <1>1, <1>5, <2>2, <3>2 DEF QtDestroy, Abort
  <2>3. CASE \E w \in Wrap, b \in Addr : MapMissCopy(t, w, b)
    BY <1>1, <1>2, <2>3 DEF MapMissCopy, Abort
  <2>4. CASE \/ ConstructorReturns(t) \/ ConstructorThrows(t) \/ UserDtorEnd(t)
             \/ Deref(t) \/ EndDelete(t) \/ PdDeref(t) \/ ObjRefDrop(t)
             \/ CommonDestructor(t) \/ DeleteAll(t) \/ DtorRest(t) \/ DtorRestEnd(t)
    BY <2>1, <2>4 DEF ConstructorReturns, ConstructorThrows, UserDtorEnd, Deref, EndDelete,
       PdDeref, ObjRefDrop, CommonDestructor, DeleteAll, DtorRest, DtorRestEnd, Abort
  <2>5. CASE \/ Deleted(t) \/ Hold(t) \/ ExternalDelete(t) \/ ExternalDeleteEnd(t)
             \/ MapDel(t) \/ MethodCall(t) \/ MapHit(t) \/ OutOfMemory(t)
             \/ \E w \in Wrap : MapMiss(t, w)
    BY <2>1, <2>5 DEF Deleted, Hold, ExternalDelete, ExternalDeleteEnd, MapDel, MethodCall,
       MapHit, OutOfMemory, MapMiss, Abort
  <2>6. CASE ReturnToQtEnd(t)
    <3>1. Top(t).w \in Wrap
      BY <2>6, TopArguments DEF ReturnToQtEnd, AtTop, Running, WOps
    <3>2. pd[Top(t).w].obj \in Addr \cup {None}
      BY <3>1, PdFields
    <3>. QED  BY <1>1, <1>4, <2>6, <3>2 DEF ReturnToQtEnd
  <2>. QED  BY <1>6, <2>2, <2>3, <2>4, <2>5, <2>6 DEF Unwind
<1>7. CASE QtActs(t)
  <2>1. CASE \E b \in Addr : QtDelete(t, b)
    BY <1>1, <2>1 DEF QtDelete
  <2>2. CASE \E b \in Addr, p \in Addr \cup {None} : QtReparent(t, b, p)
    BY <1>3, <2>2 DEF QtReparent
  <2>3. CASE \E b \in Addr, p \in Addr \cup {None}, kind \in Kinds : QtCreate(t, b, kind, p)
    BY <1>2, <2>3 DEF QtCreate, CanMake
  <2>. QED  BY <1>7, <2>1, <2>2, <2>3 DEF QtActs
<1>8. CASE ProgramActs(t)
  <2>1. CASE \E w \in Wrap : \/ Release(t, w) \/ Delete(t, w) \/ CommonMethod(t, w)
                             \/ ReturnToQt(t, w)
    BY <1>1, <2>1 DEF Release, Delete, CommonMethod, ReturnToQt
  <2>2. CASE \E w \in Wrap : SetExternallyOwned(t, w)
    <3>1. PICK w \in Wrap : SetExternallyOwned(t, w)
      BY <2>2
    <3>2. pd[w].obj \in Addr
      BY <3>1, PdFields DEF SetExternallyOwned
    <3>. QED  BY <1>1, <1>4, <3>1, <3>2 DEF SetExternallyOwned
  <2>3. CASE \E w \in Wrap, p \in Addr \cup {None} : SetParent(t, w, p)
    <3>1. PICK w \in Wrap, p \in Addr \cup {None} : SetParent(t, w, p)
      BY <2>3
    <3>2. pd[w].obj \in Addr
      BY <3>1, PdFields DEF SetParent
    <3>. QED  BY <1>1, <1>3, <3>1, <3>2 DEF SetParent, Abort
  <2>4. CASE \E w \in Wrap, p \in Addr \cup {None}, b \in Addr, kind \in Kinds :
               CommonConstructor(t, b, w, kind, p)
    BY <1>1, <1>2, <2>4, ZenonT(60) DEF CommonConstructor, CanMake, Abort
  <2>5. CASE \E b \in Addr : \/ ReturnByValue(t, b)
                             \/ \E const \in BOOLEAN : ReturnObject(t, b, const)
    BY <1>1, <1>2, <2>5 DEF ReturnByValue, ReturnObject, CanMake
  <2>. QED  BY <1>8, <2>1, <2>2, <2>3, <2>4, <2>5 DEF ProgramActs
<1>. QED  BY <1>6, <1>7, <1>8

LEMMA FreeFrame ==
    ASSUME NEW a \in Addr
    PROVE  AFrame("qtFree", a) \in Frame /\ AFrame("deleted", a) \in PlainFrame
BY AFrameType, PlainFrames DEF AOps

LEMMA QtDestroyFree ==
    ASSUME TypeOK, TypeOK', \A a \in Addr : FreeOk(a), NEW t \in Thread, QtDestroy(t)
    PROVE  \A a \in Addr : FreeOk(a)'
<1>1. PICK b \in Addr : b = Top(t).a /\ stack[t] # <<>> /\ Top(t).op = "qtDestroy"
  BY TopArguments DEF QtDestroy, AtTop, Running, AOps
<1>2. CASE Abort("double_free")
  <2>1. UNCHANGED <<qt, stack>>
    BY <1>2 DEF Abort
  <2>. QED  BY <2>1 DEF FreeOk, Places, Dying
<1>3. CASE ~Abort("double_free")
  <2>1. PICK fs \in {<<AFrame("deleted", b), AFrame("qtFree", b)>>, <<AFrame("qtFree", b)>>} :
          Calls(t, fs)
    BY <1>1, <1>3 DEF QtDestroy
  <2>2. Live(b) /\ qt' = [qt EXCEPT ![b].state = "dying"]
    BY <1>1, <1>3 DEF QtDestroy
  <2>3. PICK n \in 1..2 :
          /\ Len(fs) = n /\ fs[n] = AFrame("qtFree", b) /\ fs \in Seq(Frame)
          /\ \A j \in 1..n : j # n => fs[j] = AFrame("deleted", b)
    <3>1. /\ AFrame("qtFree", b) \in Frame /\ AFrame("deleted", b) \in Frame
      BY AFrameType DEF AOps
    <3>2. CASE fs = <<AFrame("deleted", b), AFrame("qtFree", b)>>
      <4>1. /\ Len(fs) = 2 /\ fs[2] = AFrame("qtFree", b) /\ fs[1] = AFrame("deleted", b)
            /\ fs \in Seq(Frame)
        BY <3>1, <3>2
      <4>. QED  BY <4>1
    <3>3. CASE fs = <<AFrame("qtFree", b)>>
      <4>1. Len(fs) = 1 /\ fs[1] = AFrame("qtFree", b) /\ fs \in Seq(Frame)
        BY <3>1, <3>3
      <4>. QED  BY <4>1
    <3>. QED  BY <2>1, <3>2, <3>3
  <2>4. Replaces(t, 1, fs) /\ 1 \in 0..1 /\ 1 <= Len(stack[t])
    <3>1. Replaces(t, 1, fs)
      BY <1>1, <2>1, <2>3, CallsReplaces
    <3>2. stack[t] \in Seq(Frame) /\ Len(stack[t]) \in Nat /\ Len(stack[t]) # 0
      BY <1>1 DEF TypeOK
    <3>. QED  BY <3>1, <3>2
  <2>5. qt \in [Addr -> QtRecord]
    BY DEF TypeOK
  <2>6. FreeOk(b)'
    <3>1. Places(FreeFrames(b)) = {}
      BY <2>2 DEF FreeOk, Live, Dying
    <3>2. Top(t) \notin FreeFrames(b) /\ n \in 1..Len(fs) /\ fs[n] \in FreeFrames(b)
      BY <1>1, <2>3 DEF FreeFrames, AFrame
    <3>3. \A k \in 1..Len(fs) : fs[k] \in FreeFrames(b) => k = n
      BY <2>3 DEF FreeFrames, AFrame
    <3>4. Places(FreeFrames(b))' = Places(FreeFrames(b)) \cup {NewPlace(t, 1, fs, n)}
      BY <2>3, <2>4, <3>2, <3>3, PlacesAdded
    <3>5. Dying(b)'
      BY <2>2, <2>5 DEF Dying, QtRecord
    <3>. QED  BY <3>1, <3>4, <3>5 DEF FreeOk
  <2>7. ASSUME NEW a \in Addr, a # b PROVE FreeOk(a)'
    <3>1. Top(t) \notin FreeFrames(a) /\ \A j \in 1..Len(fs) : fs[j] \notin FreeFrames(a)
      BY <1>1, <2>3, <2>7 DEF FreeFrames, AFrame
    <3>2. Places(FreeFrames(a))' = Places(FreeFrames(a))
      BY <2>3, <2>4, <3>1, PlacesKept
    <3>3. Dying(a)' <=> Dying(a)
      BY <2>2, <2>5, <2>7 DEF Dying
    <3>. QED  BY <3>2, <3>3 DEF FreeOk
  <2>. QED  BY <2>6, <2>7
<1>. QED  BY <1>2, <1>3

LEMMA QtFreeFree ==
    ASSUME TypeOK, TypeOK', \A a \in Addr : FreeOk(a), NEW t \in Thread, QtFree(t)
    PROVE  \A a \in Addr : FreeOk(a)'
<1>1. PICK b \in Addr : b = Top(t).a /\ stack[t] # <<>> /\ Top(t) = AFrame("qtFree", b)
  <2>1. stack[t] # <<>> /\ Top(t).op = "qtFree"
    BY DEF QtFree, AtTop, Running
  <2>2. Top(t) \in Frame /\ Top(t).a \in Addr
    BY <2>1, TopType, TopArguments DEF TypeOK, AOps
  <2>. QED  BY <2>1, <2>2 DEF Frame, AFrame, AOps, WOps, RestOps, RestDelOps, RestEndOps
<1>2. qt \in [Addr -> QtRecord]
  BY DEF TypeOK
<1>3. CASE \E c \in Children(b) : Enter(t, <<AFrame("qtDestroy", c)>>) /\ UNCHANGED qt
  <2>1. PICK c \in Addr : Enter(t, <<AFrame("qtDestroy", c)>>) /\ UNCHANGED qt
    BY <1>3 DEF Children
  <2>2. AFrame("qtDestroy", c) \in PlainFrame
    BY PlainFrames DEF AOps
  <2>3. PlainStep(t)
    BY <2>1, <2>2, Seqs DEF PlainStep
  <2>. QED  BY <2>1, <2>3, PlainPlaces DEF FreeOk, Dying
<1>4. CASE qt' = [qt EXCEPT ![b] = NoQt] /\ Return(t)
  <2>. DEFINE fs == <<>>
  <2>1. fs \in Seq(Frame) /\ Calls(t, fs) /\ \A j \in 1..Len(fs) : FALSE
    BY <1>4 DEF Return
  <2>. HIDE DEF fs
  <2>2. Replaces(t, 1, fs) /\ 1 \in 0..1 /\ 1 <= Len(stack[t])
    <3>1. Replaces(t, 1, fs)
      BY <1>1, <2>1, CallsReplaces
    <3>2. stack[t] \in Seq(Frame) /\ Len(stack[t]) \in Nat /\ Len(stack[t]) # 0
      BY <1>1 DEF TypeOK
    <3>. QED  BY <3>1, <3>2
  <2>3. FreeOk(b)'
    <3>1. Top(t) \in FreeFrames(b)
      BY <1>1 DEF FreeFrames
    <3>2. /\ TopPlace(t) \in Places(FreeFrames(b))
          /\ Places(FreeFrames(b))' = Places(FreeFrames(b)) \ {TopPlace(t)}
      BY <1>1, <2>1, <2>2, <3>1, PlacesDropped
    <3>3. Places(FreeFrames(b))' = {}
      BY <3>2 DEF FreeOk
    <3>. QED  BY <3>3 DEF FreeOk
  <2>4. ASSUME NEW a \in Addr, a # b PROVE FreeOk(a)'
    <3>1. Top(t) \notin FreeFrames(a) /\ \A j \in 1..Len(fs) : fs[j] \notin FreeFrames(a)
      BY <1>1, <2>1, <2>4 DEF FreeFrames, AFrame
    <3>2. Places(FreeFrames(a))' = Places(FreeFrames(a))
      BY <2>1, <2>2, <3>1, PlacesKept
    <3>3. Dying(a)' <=> Dying(a)
      BY <1>2, <1>4, <2>4 DEF Dying
    <3>. QED  BY <3>2, <3>3 DEF FreeOk
  <2>. QED  BY <2>3, <2>4
<1>. QED  BY <1>1, <1>3, <1>4 DEF QtFree

LEMMA StepFree ==
    ASSUME TypeOK, TypeOK', \A a \in Addr : FreeOk(a), [Next]_vars
    PROVE  \A a \in Addr : FreeOk(a)'
<1>1. ASSUME NEW t \in Thread, ~QtFree(t), PlainStep(t), Unwind(t) \/ QtActs(t) \/ ProgramActs(t)
      PROVE  \A a \in Addr : FreeOk(a)'
  <2>. TAKE a \in Addr
  <2>1. Places(FreeFrames(a))' = Places(FreeFrames(a))
    BY <1>1, PlainPlaces
  <2>2. Dying(a) => Dying(a)'
    BY <1>1, DyingKept
  <2>3. FreeOk(a)
    OBVIOUS
  <2>. QED  BY <2>1, <2>2, <2>3, Zenon DEF FreeOk
<1>2. CASE UNCHANGED vars
  <2>. TAKE a \in Addr
  <2>1. Places(FreeFrames(a))' = Places(FreeFrames(a))
    BY <1>2 DEF vars, Places
  <2>2. Dying(a)' <=> Dying(a)
    BY <1>2 DEF vars, Dying
  <2>. QED  BY <2>1, <2>2 DEF FreeOk
<1>3. CASE QtActs(GuiThread) /\ ~QtFree(GuiThread)
  BY <1>1, <1>3, ThreadAssumption, ActsPlain
<1>4. ASSUME NEW t \in Thread, Unwind(t) \/ ProgramActs(t) PROVE \A a \in Addr : FreeOk(a)'
  <2>1. CASE QtFree(t)
    BY <2>1, QtFreeFree
  <2>2. CASE QtDestroy(t)
    BY <2>2, QtDestroyFree
  <2>3. CASE ~QtFree(t) /\ ~QtDestroy(t)
    BY <1>1, <1>4, <2>3, ActsPlain, UnwindPlain
  <2>. QED  BY <2>1, <2>2, <2>3
<1>5. CASE QtFree(GuiThread)
  BY <1>5, ThreadAssumption, QtFreeFree
<1>. QED  BY <1>2, <1>3, <1>4, <1>5 DEF Next

-----------------------------------------------------------------------------
(* What a step does to private data and to the map *)

\* memory of private data that nobody refers to points to nothing
PrivateOk(w) ==
    /\ pd[w].refs >= 0
    /\ pd[w].refs = 0 => pd[w].obj = None /\ ~pd[w].attached

FieldStep(w) ==
    /\ map' = map
    /\ \E b \in BOOLEAN : \/ pd' = [pd EXCEPT ![w].attached = FALSE]
                          \/ pd' = [pd EXCEPT ![w].eo = b]
                          \/ pd' = [pd EXCEPT ![w].obj_ref = b]
CountStep(w) ==
    /\ map' = map
    /\ \/ pd[w].attached /\ pd' = [pd EXCEPT ![w].refs = pd[w].refs + 1]
       \/ pd[w].refs > 1 /\ pd' = [pd EXCEPT ![w].refs = pd[w].refs - 1]
EndStep(w) ==
    /\ pd' = [pd EXCEPT ![w] = NoPd]
    /\ map' = IF pd[w].obj # None /\ pd[w].is_qobject
              THEN [map EXCEPT ![pd[w].obj] = None] ELSE map
MakeStep(w, a) ==
    /\ FreeWrap(w) /\ map[a] = None
    /\ \E p, eo : NewPrivate(w, a, qt'[a].kind, p, eo)
FreeStep(a) ==
    /\ Dying(a) /\ map' = map
    /\ pd' = [w \in Wrap |-> IF pd[w].obj = a /\ pd[w].is_qobject
                             THEN [pd[w] EXCEPT !.obj = None] ELSE pd[w]]

DelStep(w) ==
    pd' = pd /\ pd[w].obj # None /\ map' = [map EXCEPT ![pd[w].obj] = None]
ResetStep(w) ==
    Clearing(w) /\ Reset(w) /\ map' = map

DataStep ==
    \/ UNCHANGED <<pd, map>>
    \/ \E w \in Wrap : \/ DelStep(w) \/ ResetStep(w) \/ FieldStep(w)
                       \/ CountStep(w) \/ EndStep(w)
    \/ \E w \in Wrap, a \in Addr : MakeStep(w, a)
    \/ \E a \in Addr : FreeStep(a)

LEMMA UnwindData ==
    ASSUME TypeOK, \A a \in Addr : FreeOk(a), NEW t \in Thread, Unwind(t)
    PROVE  DataStep
<1>1. CASE \/ ConstructorReturns(t) \/ UserDtorEnd(t) \/ EndDelete(t)
           \/ DeleteAll(t) \/ QtDestroy(t) \/ MethodCall(t) \/ MapHit(t)
           \/ OutOfMemory(t) \/ DtorRest(t) \/ Deleted(t) \/ ExternalDelete(t)
  <2>1. UNCHANGED <<pd, map>>
    BY <1>1 DEF ConstructorReturns, UserDtorEnd, EndDelete, DeleteAll, QtDestroy, MethodCall,
                MapHit, OutOfMemory, DtorRest, Deleted, ExternalDelete, Abort
  <2>. QED  BY <2>1 DEF DataStep
<1>2. CASE ConstructorThrows(t) \/ CommonDestructor(t)
  <2>1. PICK w \in Wrap : w = Top(t).w
    BY <1>2, TopArguments DEF ConstructorThrows, CommonDestructor, AtTop, Running, WOps
  <2>2. map' = map /\ (pd' = pd \/ pd' = [pd EXCEPT ![w].attached = FALSE])
    <3>1. CASE ConstructorThrows(t)
      BY <2>1, <3>1 DEF ConstructorThrows
    <3>2. CASE CommonDestructor(t)
      BY <2>1, <3>2 DEF CommonDestructor, Abort
    <3>. QED  BY <1>2, <3>1, <3>2
  <2>. QED  BY <2>2 DEF DataStep, FieldStep
<1>3. CASE Deref(t) \/ ObjRefDrop(t)
  <2>1. PICK w \in Wrap : w = Top(t).w
    BY <1>3, TopArguments DEF Deref, ObjRefDrop, AtTop, Running, WOps
  <2>2. map' = map /\ (pd' = pd \/ \E b \in BOOLEAN : pd' = [pd EXCEPT ![w].obj_ref = b])
    <3>1. CASE Deref(t)
      BY <2>1, <3>1 DEF Deref, Abort
    <3>2. CASE ObjRefDrop(t)
      BY <2>1, <3>2 DEF ObjRefDrop
    <3>. QED  BY <1>3, <3>1, <3>2
  <2>. QED  BY <2>2 DEF DataStep, FieldStep
<1>4. CASE PdDeref(t)
  <2>1. PICK w \in Wrap : w = Top(t).w
    BY <1>4, TopArguments DEF PdDeref, AtTop, Running, WOps
  <2>2. CASE pd[w].refs > 1
    <3>1. pd' = [pd EXCEPT ![w].refs = pd[w].refs - 1] /\ map' = map
      BY <1>4, <2>1, <2>2 DEF PdDeref
    <3>. QED  BY <2>2, <3>1 DEF DataStep, CountStep
  <2>3. CASE Abort("obj_ref") \/ Abort("map_del")
    BY <2>3 DEF Abort, DataStep
  <2>4. CASE ~(pd[w].refs > 1) /\ ~Abort("obj_ref") /\ ~Abort("map_del")
    <3>1. EndStep(w)
      BY <1>4, <2>1, <2>4 DEF PdDeref, EndStep
    <3>. QED  BY <3>1 DEF DataStep
  <2>. QED  BY <2>2, <2>3, <2>4
<1>5. CASE DtorRestEnd(t) \/ ExternalDeleteEnd(t) \/ ReturnToQtEnd(t)
  <2>1. Running(t) /\ Top(t).op \in EndOps
    BY <1>5 DEF DtorRestEnd, ExternalDeleteEnd, ReturnToQtEnd, AtTop, EndOps
  <2>2. PICK w \in Wrap : w = Top(t).w
    BY <2>1, TopArguments DEF Running, WOps, RestOps, EndOps
  <2>3. Clearing(w)
    BY <2>1, <2>2 DEF Clearing
  <2>4. UNCHANGED <<pd, map>> \/ (Reset(w) /\ map' = map)
    BY <1>5, <2>2 DEF DtorRestEnd, ExternalDeleteEnd, ReturnToQtEnd, Abort
  <2>. QED  BY <2>3, <2>4 DEF DataStep, ResetStep
<1>6. CASE QtFree(t)
  <2>1. stack[t] # <<>> /\ Top(t).op = "qtFree" /\ Top(t) \in Frame
    BY <1>6, TopType DEF QtFree, AtTop, Running, TypeOK
  <2>2. PICK a \in Addr : a = Top(t).a /\ Top(t) = AFrame("qtFree", a)
    BY <2>1 DEF Frame, AFrame, AOps, WOps, RestOps, RestDelOps, RestEndOps
  <2>3. TopPlace(t) \in Places(FreeFrames(a))
    BY <2>1, <2>2, TopPlaced DEF FreeFrames
  <2>4. Dying(a)
    BY <2>3 DEF FreeOk
  <2>5. FreeStep(a)
    BY <1>6, <2>2, <2>4 DEF QtFree, FreeStep
  <2>. QED  BY <2>5 DEF DataStep
<1>7. CASE Hold(t)
  <2>1. PICK w \in Wrap : w = Top(t).w
    BY <1>7, TopArguments DEF Hold, AtTop, Running, WOps
  <2>2. UNCHANGED <<pd, map>> \/ CountStep(w)
    BY <1>7, <2>1 DEF Hold, Abort, CountStep
  <2>. QED  BY <2>2 DEF DataStep
<1>10. CASE MapDel(t)
  <2>1. PICK w \in Wrap : w = Top(t).w
    BY <1>10, MapDelStep
  <2>2. UNCHANGED <<pd, map>> \/ DelStep(w)
    BY <1>10, <2>1 DEF MapDel, Abort, DelStep
  <2>. QED  BY <2>2 DEF DataStep
<1>8. ASSUME NEW w \in Wrap, MapMiss(t, w) PROVE DataStep
  <2>1. PICK a \in Addr : a = Top(t).a
    BY <1>8, TopArguments DEF MapMiss, AtTop, Running, AOps
  <2>2. CASE UNCHANGED <<pd, map>>
    BY <2>2 DEF DataStep
  <2>3. CASE ~UNCHANGED <<pd, map>>
    <3>1. /\ FreeWrap(w) /\ PrivateFault(a, qt[a].kind, qt[a].parent) = None
          /\ NewPrivate(w, a, qt[a].kind, qt[a].parent, Top(t).op = "mapMiss")
          /\ qt' = qt
      BY <1>8, <2>1, <2>3 DEF MapMiss, Abort
    <3>2. map[a] = None
      BY <3>1, PrivateFaultMap
    <3>3. NewPrivate(w, a, qt'[a].kind, qt[a].parent, Top(t).op = "mapMiss")
      BY <3>1
    <3>4. MakeStep(w, a)
      BY <3>1, <3>2, <3>3 DEF MakeStep
    <3>. QED  BY <3>4 DEF DataStep
  <2>. QED  BY <2>2, <2>3
<1>9. ASSUME NEW w \in Wrap, NEW b \in Addr, MapMissCopy(t, w, b) PROVE DataStep
  <2>1. CASE UNCHANGED <<pd, map>>
    BY <2>1 DEF DataStep
  <2>2. CASE ~UNCHANGED <<pd, map>>
    <3>1. /\ FreeWrap(w) /\ map[b] = None /\ NewPrivate(w, b, "plain", None, FALSE)
          /\ qt' = [qt EXCEPT ![b] = NewQt("plain", TRUE, FALSE, None)]
      BY <1>9, <2>2 DEF MapMissCopy, Abort
    <3>2. qt'[b].kind = "plain"
      BY <3>1 DEF TypeOK, NewQt
    <3>3. NewPrivate(w, b, qt'[b].kind, None, FALSE)
      BY <3>1, <3>2
    <3>4. MakeStep(w, b)
      BY <3>1, <3>3 DEF MakeStep
    <3>. QED  BY <3>4 DEF DataStep
  <2>. QED  BY <2>1, <2>2
<1>. QED  BY <1>1, <1>2, <1>3, <1>4, <1>5, <1>6, <1>7, <1>8, <1>9, <1>10 DEF Unwind

LEMMA ActsData ==
    ASSUME TypeOK, NEW t \in Thread, QtActs(t) \/ ProgramActs(t)
    PROVE  DataStep
<1>1. CASE QtActs(t)
  <2>1. UNCHANGED <<pd, map>>
    BY <1>1 DEF QtActs, QtDelete, QtReparent, QtCreate
  <2>. QED  BY <2>1 DEF DataStep
<1>2. ASSUME NEW w \in Wrap,
             \/ Release(t, w) \/ Delete(t, w) \/ SetExternallyOwned(t, w)
             \/ CommonMethod(t, w) \/ ReturnToQt(t, w)
             \/ \E p \in Addr \cup {None} : SetParent(t, w, p)
      PROVE  DataStep
  <2>1. CASE UNCHANGED <<pd, map>>
    BY <2>1 DEF DataStep
  <2>2. CASE Release(t, w) \/ Delete(t, w) \/ \E p \in Addr \cup {None} : SetParent(t, w, p)
    BY <2>1, <2>2 DEF Release, Delete, SetParent, Abort
  <2>3. CASE SetExternallyOwned(t, w)
    <3>1. map' = map /\ pd' = [pd EXCEPT ![w].eo = TRUE]
      BY <2>3 DEF SetExternallyOwned
    <3>. QED  BY <3>1 DEF DataStep, FieldStep
  <2>4. CASE CommonMethod(t, w)
    <3>1. CountStep(w)
      BY <2>4 DEF CommonMethod, Usable, CountStep
    <3>. QED  BY <3>1 DEF DataStep
  <2>5. CASE ReturnToQt(t, w)
    <3>1. CountStep(w)
      BY <2>5 DEF ReturnToQt, Usable, CountStep
    <3>. QED  BY <3>1 DEF DataStep
  <2>. QED  BY <1>2, <2>2, <2>3, <2>4, <2>5
<1>3. ASSUME NEW w \in Wrap, NEW p \in Addr \cup {None}, NEW a \in Addr,
             NEW kind \in Kinds, CommonConstructor(t, a, w, kind, p)
      PROVE  DataStep
  <2>1. CASE UNCHANGED <<pd, map>>
    BY <2>1 DEF DataStep
  <2>2. CASE ~UNCHANGED <<pd, map>>
    <3>1. /\ FreeWrap(w) /\ PrivateFault(a, kind, p) = None
          /\ NewPrivate(w, a, kind, p, FALSE)
          /\ qt' = [qt EXCEPT ![a] = NewQt(kind, TRUE, FALSE, p)]
      BY <1>3, <2>2 DEF CommonConstructor, Abort
    <3>2. qt'[a].kind = kind /\ map[a] = None
      BY <3>1, PrivateFaultMap DEF TypeOK, NewQt
    <3>3. NewPrivate(w, a, qt'[a].kind, p, FALSE)
      BY <3>1, <3>2
    <3>4. MakeStep(w, a)
      BY <3>1, <3>2, <3>3 DEF MakeStep
    <3>. QED  BY <3>4 DEF DataStep
  <2>. QED  BY <2>1, <2>2
<1>4. ASSUME NEW a \in Addr,
             ReturnByValue(t, a) \/ \E const \in BOOLEAN : ReturnObject(t, a, const)
      PROVE  DataStep
  <2>1. UNCHANGED <<pd, map>>
    BY <1>4 DEF ReturnByValue, ReturnObject
  <2>. QED  BY <2>1 DEF DataStep
<1>. QED  BY <1>1, <1>2, <1>3, <1>4 DEF ProgramActs

LEMMA StepData ==
    ASSUME TypeOK, \A a \in Addr : FreeOk(a), [Next]_vars
    PROVE  DataStep
<1>1. CASE UNCHANGED vars
  BY <1>1 DEF vars, DataStep
<1>2. CASE QtActs(GuiThread)
  BY <1>2, ThreadAssumption, ActsData
<1>3. CASE \E t \in Thread : Unwind(t) \/ ProgramActs(t)
  BY <1>3, UnwindData, ActsData
<1>. QED  BY <1>1, <1>2, <1>3 DEF Next

LEMMA StepPrivate ==
    ASSUME TypeOK, \A w \in Wrap : PrivateOk(w), DataStep
    PROVE  \A w \in Wrap : PrivateOk(w)'
<1>. pd \in [Wrap -> PdRecord] /\ \A w \in Wrap : pd[w].refs \in Int
  BY PdFields DEF TypeOK
<1>1. CASE UNCHANGED <<pd, map>>
  BY <1>1 DEF PrivateOk
<1>2. ASSUME NEW w \in Wrap, ResetStep(w) \/ DelStep(w)
      PROVE  \A x \in Wrap : PrivateOk(x)'
  <2>1. CASE ResetStep(w)
    BY <2>1, ClearFields DEF PrivateOk, ResetStep
  <2>2. CASE DelStep(w)
    BY <2>2 DEF PrivateOk, DelStep
  <2>. QED  BY <1>2, <2>1, <2>2
<1>3. ASSUME NEW w \in Wrap, FieldStep(w) PROVE \A x \in Wrap : PrivateOk(x)'
  <2>1. \A x \in Wrap : /\ pd'[x].refs = pd[x].refs /\ pd'[x].obj = pd[x].obj
                        /\ pd'[x].attached => pd[x].attached
    BY <1>3 DEF FieldStep, PdRecord
  <2>. QED  BY <2>1 DEF PrivateOk
<1>4. ASSUME NEW w \in Wrap, CountStep(w) PROVE \A x \in Wrap : PrivateOk(x)'
  <2>1. PICK n \in Int : pd' = [pd EXCEPT ![w].refs = n] /\ n >= 1
    BY <1>4 DEF CountStep, PrivateOk
  <2>2. pd'[w].refs = n /\ \A x \in Wrap \ {w} : pd'[x] = pd[x]
    BY <2>1 DEF PdRecord
  <2>. QED  BY <2>1, <2>2 DEF PrivateOk
<1>5. ASSUME NEW w \in Wrap, EndStep(w) PROVE \A x \in Wrap : PrivateOk(x)'
  <2>1. pd'[w] = NoPd /\ \A x \in Wrap \ {w} : pd'[x] = pd[x]
    BY <1>5 DEF EndStep
  <2>. QED  BY <2>1 DEF PrivateOk, NoPd
<1>6. ASSUME NEW w \in Wrap, NEW a \in Addr, MakeStep(w, a) PROVE \A x \in Wrap : PrivateOk(x)'
  <2>1. pd'[w].refs = 1 /\ \A x \in Wrap \ {w} : pd'[x] = pd[x]
    BY <1>6 DEF MakeStep, NewPrivate
  <2>. QED  BY <2>1 DEF PrivateOk
<1>7. ASSUME NEW a \in Addr, FreeStep(a) PROVE \A x \in Wrap : PrivateOk(x)'
  <2>1. \A x \in Wrap : /\ pd'[x].refs = pd[x].refs /\ pd'[x].attached = pd[x].attached
                        /\ pd'[x].obj = pd[x].obj \/ pd'[x].obj = None
    BY <1>7 DEF FreeStep, PdRecord
  <2>. QED  BY <2>1 DEF PrivateOk
<1>. QED  BY <1>1, <1>2, <1>3, <1>4, <1>5, <1>6, <1>7 DEF DataStep

-----------------------------------------------------------------------------
(* A QObject made from Qore is known under its own wrapper *)

BoundObject(a) == Live(a) /\ qt[a].bound /\ isQObject(a)

KnownAs(a) ==
    BoundObject(a) =>
        \A w \in Wrap : map[a] = w => pd[w].obj = a /\ pd[w].is_qobject

\* Only the constructor called from Qore makes such an object.
LEMMA BoundActs ==
    ASSUME TypeOK, NEW t \in Thread, Unwind(t) \/ QtActs(t) \/ ProgramActs(t),
           NEW a \in Addr, BoundObject(a)', ~BoundObject(a)
    PROVE  \E w \in Wrap : MakeStep(w, a)
<1>. qt \in [Addr -> QtRecord]
  BY DEF TypeOK
<1>1. CASE UNCHANGED qt
  BY <1>1 DEF BoundObject, Live, isQObject
<1>2. ASSUME NEW b \in Addr, NEW x,
             \/ qt' = [qt EXCEPT ![b].parent = x] \/ qt' = [qt EXCEPT ![b].taken = x]
      PROVE  FALSE
  BY <1>2 DEF BoundObject, Live, isQObject, QtRecord
<1>3. ASSUME NEW b \in Addr, NEW kind, NEW c, NEW p,
             \/ qt' = [qt EXCEPT ![b] = NewQt(kind, FALSE, c, p)]
             \/ qt' = [qt EXCEPT ![b] = NewQt("plain", TRUE, c, p)]
             \/ qt' = [qt EXCEPT ![b] = NoQt] \/ qt' = [qt EXCEPT ![b].state = "dying"]
      PROVE  FALSE
  <2>1. qt'[b].state # "live" \/ qt'[b].bound = FALSE \/ qt'[b].kind = "plain"
    BY <1>3 DEF NewQt, NoQt, QtRecord
  <2>2. \A x \in Addr \ {b} : qt'[x] = qt[x]
    BY <1>3
  <2>. QED  BY <2>1, <2>2 DEF BoundObject, Live, isQObject
<1>4. CASE Unwind(t)
  <2>1. CASE QtDestroy(t) \/ QtFree(t)
    <3>1. Top(t).a \in Addr
      BY <2>1, TopArguments DEF QtDestroy, QtFree, AtTop, Running, AOps
    <3>. QED  BY <1>1, <1>3, <2>1, <3>1 DEF QtDestroy, QtFree, Abort
  <2>2. CASE \E w \in Wrap, b \in Addr : MapMissCopy(t, w, b)
    BY <1>1, <1>3, <2>2 DEF MapMissCopy, Abort
  <2>3. CASE \/ ConstructorReturns(t) \/ ConstructorThrows(t) \/ UserDtorEnd(t)
             \/ Deref(t) \/ EndDelete(t) \/ PdDeref(t) \/ ObjRefDrop(t)
             \/ CommonDestructor(t) \/ DeleteAll(t) \/ DtorRest(t) \/ DtorRestEnd(t)
    <3>1. UNCHANGED qt
      BY <2>3 DEF ConstructorReturns, ConstructorThrows, UserDtorEnd, Deref, EndDelete,
         PdDeref, ObjRefDrop, CommonDestructor, DeleteAll, DtorRest, DtorRestEnd, Abort
    <3>. QED  BY <1>1, <3>1
  <2>4. CASE \/ Deleted(t) \/ Hold(t) \/ ExternalDelete(t) \/ ExternalDeleteEnd(t)
             \/ MapDel(t) \/ MethodCall(t) \/ MapHit(t) \/ OutOfMemory(t)
             \/ \E w \in Wrap : MapMiss(t, w)
    <3>1. UNCHANGED qt
      BY <2>4 DEF Deleted, Hold, ExternalDelete, ExternalDeleteEnd, MapDel, MethodCall, MapHit,
         OutOfMemory, MapMiss, Abort
    <3>. QED  BY <1>1, <3>1
  <2>5. CASE ReturnToQtEnd(t)
    <3>1. Top(t).w \in Wrap
      BY <2>5, TopArguments DEF ReturnToQtEnd, AtTop, Running, WOps
    <3>2. pd[Top(t).w].obj \in Addr \cup {None}
      BY <3>1, PdFields
    <3>. QED  BY <1>1, <1>2, <2>5, <3>2 DEF ReturnToQtEnd
  <2>. QED  BY <1>4, <2>1, <2>2, <2>3, <2>4, <2>5 DEF Unwind
<1>5. CASE QtActs(t)
  <2>1. CASE \E b \in Addr : QtDelete(t, b)
    BY <1>1, <2>1 DEF QtDelete
  <2>2. CASE \E b \in Addr, p \in Addr \cup {None} : QtReparent(t, b, p)
    BY <1>2, <2>2 DEF QtReparent
  <2>3. CASE \E b \in Addr, p \in Addr \cup {None}, kind \in Kinds : QtCreate(t, b, kind, p)
    BY <1>3, <2>3 DEF QtCreate
  <2>. QED  BY <1>5, <2>1, <2>2, <2>3 DEF QtActs
<1>6. CASE ProgramActs(t)
  <2>1. CASE \E w \in Wrap : \/ Release(t, w) \/ Delete(t, w) \/ CommonMethod(t, w)
                             \/ ReturnToQt(t, w)
    BY <1>1, <2>1 DEF Release, Delete, CommonMethod, ReturnToQt
  <2>2. CASE \E w \in Wrap : \/ SetExternallyOwned(t, w)
                             \/ \E p \in Addr \cup {None} : SetParent(t, w, p)
    <3>1. PICK w \in Wrap : \/ SetExternallyOwned(t, w)
                            \/ \E p \in Addr \cup {None} : SetParent(t, w, p)
      BY <2>2
    <3>2. pd[w].obj \in Addr
      BY <3>1, PdFields DEF SetExternallyOwned, SetParent
    <3>. QED  BY <1>1, <1>2, <3>1, <3>2 DEF SetExternallyOwned, SetParent, Abort
  <2>3. ASSUME NEW w \in Wrap, NEW p \in Addr \cup {None}, NEW b \in Addr,
               NEW kind \in Kinds, CommonConstructor(t, b, w, kind, p)
        PROVE  \E x \in Wrap : MakeStep(x, a)
    <3>1. /\ FreeWrap(w) /\ PrivateFault(b, kind, p) = None
          /\ NewPrivate(w, b, kind, p, FALSE)
          /\ qt' = [qt EXCEPT ![b] = NewQt(kind, TRUE, FALSE, p)]
      <4>1. CASE PrivateFault(b, kind, p) # None
        <5>1. UNCHANGED qt
          BY <2>3, <4>1 DEF CommonConstructor, Abort
        <5>. QED  BY <5>1 DEF BoundObject, Live, isQObject
      <4>2. CASE PrivateFault(b, kind, p) = None
        BY <2>3, <4>2 DEF CommonConstructor
      <4>. QED  BY <4>1, <4>2
    <3>2. b = a
      BY <3>1 DEF BoundObject, Live, isQObject
    <3>3. qt'[a].kind = kind /\ map[a] = None
      BY <3>1, <3>2, PrivateFaultMap DEF NewQt
    <3>4. NewPrivate(w, a, qt'[a].kind, p, FALSE)
      BY <3>1, <3>2, <3>3
    <3>. QED  BY <3>1, <3>3, <3>4 DEF MakeStep
  <2>4. CASE \E b \in Addr : \/ ReturnByValue(t, b)
                             \/ \E const \in BOOLEAN : ReturnObject(t, b, const)
    BY <1>1, <1>3, <2>4 DEF ReturnByValue, ReturnObject
  <2>. QED  BY <1>6, <2>1, <2>2, <2>3, <2>4 DEF ProgramActs
<1>. QED  BY <1>4, <1>5, <1>6

LEMMA StepBound ==
    ASSUME TypeOK, [Next]_vars, NEW a \in Addr, BoundObject(a)', ~BoundObject(a)
    PROVE  \E w \in Wrap : MakeStep(w, a)
<1>1. CASE UNCHANGED vars
  BY <1>1 DEF vars, BoundObject, Live, isQObject
<1>2. CASE QtActs(GuiThread)
  BY <1>2, ThreadAssumption, BoundActs
<1>3. CASE \E t \in Thread : Unwind(t) \/ ProgramActs(t)
  BY <1>3, BoundActs
<1>. QED  BY <1>1, <1>2, <1>3 DEF Next

LEMMA MakeKnown ==
    ASSUME TypeOK, NEW w \in Wrap, NEW a \in Addr, MakeStep(w, a)
    PROVE  KnownAs(a)'
<1>1. pd \in [Wrap -> PdRecord] /\ map \in [Addr -> Wrap \cup {None}]
  BY DEF TypeOK
<1>2. /\ pd'[w].obj = a /\ pd'[w].is_qobject = (qt'[a].kind # "plain")
      /\ map'[a] = w
  BY <1>1 DEF MakeStep, NewPrivate
<1>. QED  BY <1>2 DEF KnownAs, BoundObject, isQObject

\* The pointer that is reset is to an object without entry.
LEMMA ResetUnmapped ==
    ASSUME OneThread, MapInv, NEW w \in Wrap, Clearing(w), pd[w].obj # None
    PROVE  map[pd[w].obj] = None
<1>1. InEnd(GuiThread) /\ Top(GuiThread).w = w
  BY DEF OneThread, Clearing, Running, InEnd
<1>. QED  BY <1>1 DEF MapInv

\* what is known of a stays known under every step that does not end its life
LEMMA StepKnown ==
    ASSUME OneThread, TypeOK, MapInv, \A w \in Wrap : PrivateOk(w), DataStep,
           NEW a \in Addr, KnownAs(a), BoundObject(a), BoundObject(a)'
    PROVE  KnownAs(a)'
<1>. USE DEF KnownAs
<1>0. pd \in [Wrap -> PdRecord] /\ map \in [Addr -> Wrap \cup {None}]
  BY DEF TypeOK
<1>1. CASE UNCHANGED <<pd, map>>
  BY <1>1
<1>2. ASSUME NEW w \in Wrap, DelStep(w) \/ ResetStep(w) PROVE KnownAs(a)'
  <2>1. CASE DelStep(w)
    <3>1. pd' = pd /\ (map'[a] = map[a] \/ map'[a] = None)
      BY <1>0, <2>1 DEF DelStep
    <3>. QED  BY <3>1, MapNone
  <2>2. CASE ResetStep(w)
    <3>1. map' = map /\ \A x \in Wrap \ {w} : pd'[x] = pd[x]
      BY <2>2, ClearFields DEF ResetStep
    <3>2. map[a] # w
      BY <2>2, ResetUnmapped, MapNone, NoneAssumption DEF ResetStep
    <3>. QED  BY <3>1, <3>2
  <2>. QED  BY <1>2, <2>1, <2>2
<1>3. ASSUME NEW w \in Wrap, FieldStep(w) \/ CountStep(w) PROVE KnownAs(a)'
  <2>1. map' = map /\ \A x \in Wrap : /\ pd'[x].obj = pd[x].obj
                                      /\ pd'[x].is_qobject = pd[x].is_qobject
    <3>1. CASE FieldStep(w)
      BY <1>0, <3>1 DEF FieldStep, PdRecord
    <3>2. CASE CountStep(w)
      BY <1>0, <3>2 DEF CountStep, PdRecord
    <3>. QED  BY <1>3, <3>1, <3>2
  <2>. QED  BY <2>1
<1>4. ASSUME NEW w \in Wrap, EndStep(w) PROVE KnownAs(a)'
  <2>1. pd'[w].obj = None /\ \A x \in Wrap \ {w} : pd'[x] = pd[x]
    BY <1>0, <1>4 DEF EndStep, NoPd
  <2>2. map'[a] = map[a] \/ map'[a] = None
    BY <1>0, <1>4 DEF EndStep
  <2>3. map[a] = w => map'[a] = None
    BY <1>0, <1>4, NoneAssumption DEF EndStep
  <2>. QED  BY <2>1, <2>2, <2>3, MapNone
<1>5. ASSUME NEW w \in Wrap, NEW b \in Addr, MakeStep(w, b) PROVE KnownAs(a)'
  <2>1. CASE b = a
    BY <1>5, <2>1, MakeKnown
  <2>2. CASE b # a
    <3>1. /\ pd'[w].obj = b /\ \A x \in Wrap \ {w} : pd'[x] = pd[x]
          /\ map'[a] = map[a]
      BY <1>0, <1>5, <2>2 DEF MakeStep, NewPrivate
    <3>2. map[a] # w
      BY <1>5, NoneAssumption DEF MakeStep, FreeWrap, PrivateOk
    <3>. QED  BY <3>1, <3>2
  <2>. QED  BY <2>1, <2>2
<1>6. ASSUME NEW b \in Addr, FreeStep(b) PROVE KnownAs(a)'
  <2>1. b # a
    BY <1>6 DEF FreeStep, Dying, BoundObject, Live
  <2>2. map' = map /\ \A x \in Wrap : /\ pd'[x].is_qobject = pd[x].is_qobject
                                      /\ pd'[x].obj = a <=> pd[x].obj = a
    BY <1>0, <1>6, <2>1, NoneAssumption DEF FreeStep, PdRecord
  <2>. QED  BY <2>2
<1>. QED  BY <1>1, <1>2, <1>3, <1>4, <1>5, <1>6 DEF DataStep

-----------------------------------------------------------------------------
(* The theorem *)

IdentityInv ==
    /\ PhasesOnTop /\ MapInv
    /\ \A w \in Wrap : PrivateOk(w)
    /\ \A a \in Addr : FreeOk(a) /\ KnownAs(a)

LEMMA InitIdentity == Init => IdentityInv
<1>. SUFFICES ASSUME Init PROVE IdentityInv
  OBVIOUS
<1>1. PhasesOnTop /\ MapInv
  BY InitMap
<1>2. \A w \in Wrap : PrivateOk(w)
  BY DEF Init, PrivateOk, NoPd
<1>3. \A a \in Addr : KnownAs(a)
  BY DEF Init, KnownAs, BoundObject, Live, NoQt
<1>4. \A F : Places(F) = {}
  <2>1. \A t \in Thread : stack[t] = <<>> /\ DOMAIN stack[t] = {}
    BY DEF Init
  <2>. QED  BY <2>1 DEF Places
<1>. QED  BY <1>1, <1>2, <1>3, <1>4 DEF IdentityInv, FreeOk

LEMMA StepIdentity ==
    ASSUME OneThread, TypeOK, TypeOK', IdentityInv, [Next]_vars
    PROVE  IdentityInv'
<1>1. PhasesOnTop /\ MapInv /\ \A w \in Wrap : PrivateOk(w)
  BY DEF IdentityInv
<1>2. \A a \in Addr : FreeOk(a)
  BY DEF IdentityInv
<1>3. PhasesOnTop' /\ MapInv'
  BY <1>1, StepMap
<1>4. \A a \in Addr : FreeOk(a)'
  BY <1>2, StepFree
<1>5. DataStep
  BY <1>2, StepData
<1>6. \A w \in Wrap : PrivateOk(w)'
  BY <1>1, <1>5, StepPrivate
<1>7. ASSUME NEW a \in Addr PROVE KnownAs(a)'
  <2>1. CASE ~BoundObject(a)'
    BY <2>1 DEF KnownAs
  <2>2. CASE BoundObject(a)' /\ ~BoundObject(a)
    BY <1>1, <2>2, StepBound, MakeKnown
  <2>3. CASE BoundObject(a)' /\ BoundObject(a)
    BY <1>1, <1>5, <2>3, StepKnown DEF IdentityInv
  <2>. QED  BY <2>1, <2>2, <2>3
<1>. QED  BY <1>3, <1>4, <1>6, <1>7 DEF IdentityInv

\* A QObject made by a constructor called from Qore is, as long as it lives,
\* never found in the map under a wrapper that stands for something else:
\* in programs of one thread, whatever Qt makes and deletes and whichever
\* constructors throw.  (Of objects that Qt made this is not true: their
\* entries outlive them.)
THEOREM IdentityKept == ASSUME OneThread PROVE Spec => []QObjectIdentity
<1>1. TypeOK /\ IdentityInv => QObjectIdentity
  <2>. SUFFICES ASSUME TypeOK, IdentityInv, NEW a \in Addr, BoundObject(a), map[a] # None
                PROVE  pd[map[a]].obj = a
    BY DEF QObjectIdentity, BoundObject
  <2>1. map[a] \in Wrap
    BY DEF TypeOK
  <2>. QED  BY <2>1 DEF IdentityInv, KnownAs
<1>2. Init => IdentityInv
  BY InitIdentity
<1>3. TypeOK /\ TypeOK' /\ IdentityInv /\ [Next]_vars => IdentityInv'
  BY StepIdentity, Zenon
<1>. QED  BY <1>1, <1>2, <1>3, TypeCorrect, PTL DEF Spec
=============================================================================
