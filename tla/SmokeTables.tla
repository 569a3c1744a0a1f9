------------------------------ MODULE SmokeTables ------------------------------
(***************************************************************************)
(* smokegen writes the description of a library twice: as the tables of    *)
(* smokedata.cpp (writeSmokeDataFile.cpp) and as the xcall functions of    *)
(* x_*.cpp (writeClasses.cpp).  smoke.h searches the tables.  A class or a *)
(* method is named by its place in the alphabet; a munged name is the name *)
(* and what munge() makes of the parameter (methods have at most one).     *)
(***************************************************************************)
EXTENDS Integers, Sequences, SequencesExt, FiniteSets

CONSTANTS Headers,   \* what the parser may have found: a set of sequences, by class name
          Tilde,     \* '~': it sorts after every letter, and so does the name of a destructor
          Parts      \* number of files x_*.cpp (option -p)

DtorName(c) == Tilde + c
Accesses == {"public", "protected", "private"}
MethodOf(c) == {m \in [of : {c}, name : Nat, args : Seq(Int), access : Accesses,
                        kind : {"method", "ctor", "dtor"}, virtual : {"no", "yes", "pure"},
                        const : BOOLEAN, static : BOOLEAN, default : BOOLEAN] :
                   IF m.kind = "dtor" THEN m.name = DtorName(c) /\ ~m.default ELSE m.name <= Tilde}
EnumType == [access : Accesses, members : Seq(Nat)]
BaseType == [class : Nat, private : BOOLEAN]
\* A header that a compiler accepts: the bases of a class are parsed before it, its members
\* are distinct and at most one is a destructor; in namespaces there are plain functions.
\* The visitor enters the name of a template and nothing of what is in it.
WellFormed(h) ==
    /\ DOMAIN h = 1..Len(h) /\ Len(h) \in 0..Tilde
    /\ \A c \in DOMAIN h : LET ms == h[c].methods  bs == h[c].bases IN
          /\ ms \in Seq(MethodOf(c)) /\ bs \in Seq(BaseType) /\ h[c].enums \in Seq(EnumType)
          /\ \A i \in DOMAIN bs : bs[i].class \in DOMAIN h /\ h[bs[i].class].kind # "namespace"
          /\ h[c].kind \in {"class", "template", "namespace"}
          /\ h[c].kind = "class" => \A i, j \in DOMAIN ms :
                ms[i] = ms[j] \/ (ms[i].kind = "dtor" /\ ms[j].kind = "dtor") => i = j
          /\ h[c].kind = "template" => ms = <<>> /\ bs = <<>>
          /\ h[c].kind = "namespace" => /\ bs = <<>>
                                        /\ \A i \in DOMAIN ms : ms[i].kind = "method" /\ ms[i].virtual = "no"
    /\ \E parsed \in [DOMAIN h -> DOMAIN h] :
          \A c \in DOMAIN h : \A i \in DOMAIN h[c].bases : parsed[h[c].bases[i].class] < parsed[c]

ASSUME TablesAssumption == Parts \in Nat \ {0} /\ Tilde \in Nat /\ Headers # {} /\
    \A h \in Headers : WellFormed(h)

VARIABLES header,    \* one of Headers
          stage,     \* parsed, prepared, indexed, tables, written, then those of the registration
          methods,   \* the methods of each class after preparse()
          included,  \* includedClasses
          classIndex, \* the classes with an index, in its order
          declared,  \* declaredVirtualMethods of each class
          data,      \* smokedata.cpp
          switches,  \* x_*.cpp: what each case of the xcall function of a class runs
          part       \* next file x_*.cpp

tableVars == <<header, stage, methods, included, classIndex, declared, data, switches, part>>

Names == DOMAIN header
Bases(c) == header[c].bases
Kind(c) == header[c].kind

-----------------------------------------------------------------------------
\* helpers.cpp.  A parameter is a class (by reference) or one of these types.
CInt == -1    CLong == -2    CBool == -3    VoidPointer == -4
Munge(t) == CASE t > 0 /\ Kind(t) # "template" -> 1        \* '#'
              [] t \in {CInt, CLong, CBool} -> 2              \* '$'
              [] OTHER -> 3                                \* '?'
Plain(name) == 4 * name
Munged(m) == Plain(m.name) + (IF m.args = <<>> THEN 0 ELSE Munge(m.args[1]))
Same(m, k) == m.name = k.name /\ m.args = k.args /\ m.const = k.const

Ctor(m) == m.kind = "ctor"
Dtor(m) == m.kind = "dtor"
Public(m) == m.access = "public"
NotPrivate(m) == m.access # "private"
Has(ms, P(_)) == \E i \in DOMAIN ms : P(ms[i])
\* the elements of s that are in T, in their order
Among(s, T) == FlattenSeq([i \in DOMAIN s |-> IF s[i] \in T THEN <<s[i]>> ELSE <<>>])
Virtual(m) == m.virtual # "no"
Made(c, kind, args) ==
    [of |-> c, name |-> IF kind = "dtor" THEN DtorName(c) ELSE c, args |-> args, kind |-> kind,
     access |-> "public", virtual |-> "no", const |-> FALSE, static |-> FALSE, default |-> FALSE]

IsCopyCtor(c, m) == Ctor(m) /\ m.args = <<c>>
\* canClassBeCopied
Copyable == LET f[c \in Names] ==
                    /\ ~Has(header[c].methods, LAMBDA m : IsCopyCtor(c, m) /\ ~NotPrivate(m))
                    /\ \A i \in DOMAIN Bases(c) : f[Bases(c)[i].class]
            IN f
\* addDefaultConstructor, addCopyConstructor, addDestructor, checkForAbstractClass
PrivateDtor(ms) == Has(ms, LAMBDA m : Dtor(m) /\ ~NotPrivate(m))
AddDefault(c, ms) == IF Has(ms, Ctor) \/ PrivateDtor(ms) THEN ms
                     ELSE Append(ms, Made(c, "ctor", <<>>))
AddCopy(c, ms) ==
    IF \/ Has(ms, LAMBDA m : IsCopyCtor(c, m)) \/ PrivateDtor(ms)
       \/ \E i \in DOMAIN Bases(c) : ~Copyable[Bases(c)[i].class]
    THEN ms ELSE Append(ms, Made(c, "ctor", <<c>>))
AddDtor(c, ms) == IF Has(ms, Dtor) THEN ms ELSE Append(ms, Made(c, "dtor", <<>>))
DropCtors(ms) == IF Has(ms, LAMBDA m : m.virtual = "pure" /\ ~NotPrivate(m))
                 THEN Among(ms, {m \in Range(ms) : ~Ctor(m)}) ELSE ms
\* addOverloads: the call without the defaulted parameter is a method of its own
AddOverloads(ms) ==
    LET Overload(m) == [m EXCEPT !.args = <<>>, !.virtual = "no", !.default = FALSE]
        Add(done, m) == IF m.default /\ NotPrivate(m) /\ ~Has(done, LAMBDA k : Same(k, Overload(m)))
                        THEN Append(done, Overload(m)) ELSE done
        after[i \in 0..Len(ms)] == IF i = 0 THEN ms ELSE Add(after[i - 1], ms[i])
    IN after[Len(ms)]
Sorted(S) == Among([i \in 1..Max(S \cup {0}) |-> i], S)
Keys == Sorted({c \in Names : header[c].listed /\ Kind(c) = "class"})
Preparse(c) == IF c \in Range(Keys)
               THEN AddOverloads(DropCtors(AddDtor(c, AddCopy(c, AddDefault(c, header[c].methods)))))
               ELSE header[c].methods

\* canClassBeInstanciated and hasClassPublicDestructor
Instanciable(c) == /\ Has(methods[c], Ctor) =>
                          Has(methods[c], LAMBDA m : Ctor(m) /\ NotPrivate(m))
                   /\ ~Has(methods[c], LAMBDA m : ~Ctor(m) /\ m.virtual = "pure" /\ ~NotPrivate(m))
PublicDtor(c) == Kind(c) # "namespace" /\ ~Has(methods[c], LAMBDA m : Dtor(m) /\ ~Public(m))

\* collectVirtualMethods, isVirtualOverriden and virtualMethodsForClass
Collected == LET f[c \in Names] ==
                    Among(methods[c], {m \in Range(methods[c]) : Virtual(m) /\ ~Dtor(m) /\ NotPrivate(m)})
                    \o FlattenSeq([i \in DOMAIN Bases(c) |-> f[Bases(c)[i].class]])
             IN f
Overrider(m, c) ==                         \* <<>>, or the first method that overrides m
    LET f[k \in Names] ==
            LET own == Among(methods[k], {o \in Range(methods[k]) : ~o.static /\ Same(o, m)})
                until == SelectInSeq(Bases(k), LAMBDA b : b.class = m.of)
                up == IF until = 0 THEN Bases(k) ELSE SubSeq(Bases(k), 1, until - 1)
                found == FlattenSeq([i \in DOMAIN up |-> f[up[i].class]])
            IN IF k = m.of THEN <<>> ELSE IF own # <<>> THEN <<own[1]>>
               ELSE SubSeq(found, 1, IF found = <<>> THEN 0 ELSE 1)
    IN f[c]
\* for each method of Collected[c], the method that a call of it on a c reaches
Latest(c) == [i \in DOMAIN Collected[c] |->
                 LET m == Collected[c][i]  over == Overrider(m, c)
                 IN IF over = <<>> THEN m ELSE over[1]]
VirtualMethods(c) ==
    LET Add(ret, m, last) == IF m.of # c /\ (~NotPrivate(last) \/ Has(ret, LAMBDA k : Same(k, last)))
                             THEN ret ELSE Append(ret, last)
        all == Collected[c]
        after[i \in 0..Len(all)] == IF i = 0 THEN <<>> ELSE Add(after[i - 1], all[i], Latest(c)[i])
    IN IF Instanciable(c) THEN after[Len(all)] ELSE <<>>

-----------------------------------------------------------------------------
\* The constructor of SmokeDataFile: preparse(), then which classes are indexed.
Prepare ==
    /\ stage = "parsed" /\ stage' = "prepared"
    /\ methods' = [c \in Names |-> Preparse(c)]
    /\ UNCHANGED <<header, included, classIndex, declared, data, switches, part>>

Overridable == UNION {Range(VirtualMethods(k)) : k \in Range(Keys)}
SuperClasses == {b.class : b \in UNION {Range(Bases(k)) : k \in Range(Keys)}}
TypesOf(ms) == UNION {Range(m.args) : m \in {k \in ms : NotPrivate(k)}}
Namespaces == {c \in Names : Kind(c) = "namespace" /\ header[c].listed}
NeededClasses(virtual) ==
    LET used == SuperClasses \cup TypesOf(virtual)
                    \cup UNION {TypesOf(Range(methods[k])) : k \in Range(Keys)}
    IN {c \in Names : Kind(c) # "template" /\ (c \in used \/ \E m \in virtual : m.of = c)}
IndexClasses ==
    /\ stage = "prepared" /\ stage' = "indexed"
    /\ LET virtual == Overridable
       IN /\ declared' = [c \in Names |-> {m \in virtual : m.of = c}]
          /\ classIndex' = Sorted(Range(Keys) \cup Namespaces \cup NeededClasses(virtual))
    /\ included' = Keys \o Sorted(Namespaces)
    /\ UNCHANGED <<header, methods, data, switches, part>>

-----------------------------------------------------------------------------
\* SmokeDataFile::write().  A list of ambiguous methods is kept where the table has a
\* negative index, the parents of a class where it has one of the inheritance list.
External(c) == c \notin Range(included)
Index(c) == SelectInSeq(classIndex, LAMBDA k : k = c)        \* 0 for a class without one
UntilZero(s) == LET end == SelectInSeq(s, LAMBDA i : i = 0)
                IN IF end = 0 THEN s ELSE SubSeq(s, 1, end - 1)
Parents(c) == LET seen == Among(Bases(c), {b \in Range(Bases(c)) : ~b.private})
              IN UntilZero([i \in DOMAIN seen |-> Index(seen[i].class)])
ClassRows == [i \in DOMAIN classIndex |->
    LET c == classIndex[i]
    IN [name |-> c, external |-> External(c), parents |-> IF External(c) THEN <<>> ELSE Parents(c)]]

\* cast(): up to the classes in superClassList(), down to those in descendantsList(); any other
\* cast returns the pointer as it is
SuperClassList == LET f[k \in Names] == UNION {{b.class} \cup f[b.class] : b \in Range(Bases(k))} IN f
Casts(c) ==
    LET up == SuperClassList[c] \cap Range(classIndex)
        down == {d \in Range(included) : c \in SuperClassList[d]}
    IN IF Kind(c) = "namespace" THEN {} ELSE {Index(k) : k \in {c} \cup up \cup down}

\* the enumerators of a class: members without parameters
Enumerators(c) ==
    LET seen == Among(header[c].enums, {e \in Range(header[c].enums) : NotPrivate(e)})
        One(e) == [i \in DOMAIN e.members |-> [Made(c, "enum", <<>>) EXCEPT !.name = e.members[i]]]
    IN FlattenSeq([i \in DOMAIN seen |-> One(seen[i])])
Callable(c) == Among(methods[c], {m \in Range(methods[c]) : NotPrivate(m) /\ ~Dtor(m)})
Dtors(c) == Among(methods[c], {m \in Range(methods[c]) : NotPrivate(m) /\ Dtor(m)})
\* the rows of a class; of an external one only what a generated class reimplements
Rows(c) ==
    LET own == Callable(c) \o Enumerators(c) \o Dtors(c)
        listed == IF External(c) THEN Among(methods[c], declared[c]) ELSE own
    IN [i \in DOMAIN listed |-> [class |-> Index(c), member |-> listed[i],
                                 xcall |-> IF External(c) THEN 0 ELSE i]]
MethodTable == FlattenSeq([i \in DOMAIN classIndex |-> Rows(classIndex[i])])
MungedNames(c) == {Munged(m) : m \in Range(Callable(c) \o Enumerators(c) \o Dtors(c))}
NameTable == Sorted(UNION {MungedNames(c) : c \in Range(included)}
                    \cup {Plain(r.member.name) : r \in Range(MethodTable)})
MapsOf(c, names, rows) ==
    LET mapped == Among(names, MungedNames(c))
        Matching(n) == Among([i \in DOMAIN rows |-> i],
                           {i \in DOMAIN rows : rows[i].class = Index(c) /\ Munged(rows[i].member) = n})
    IN [i \in DOMAIN mapped |-> [class |-> Index(c), rows |-> Matching(mapped[i]),
                                 name |-> SelectInSeq(names, LAMBDA n : n = mapped[i])]]
WriteData ==
    /\ stage = "indexed" /\ stage' = "tables"
    /\ LET rows == MethodTable  names == NameTable
           own == Among(classIndex, Range(included))
       IN \E beyond \in {-1, 1} :     \* how the memory after methodMaps compares with a key
            data' = [classes |-> ClassRows, rows |-> rows, names |-> names, beyond |-> beyond,
                     casts |-> [i \in DOMAIN classIndex |-> Casts(classIndex[i])],
                     maps |-> FlattenSeq([i \in DOMAIN own |-> MapsOf(own[i], names, rows)])]
    /\ UNCHANGED <<header, methods, included, classIndex, declared, switches, part>>

\* SmokeClassFiles: write() of one file, and writeClass()
SwitchInPlace(c) == Among(methods[c], {m \in Range(methods[c]) : NotPrivate(m)}) \o Enumerators(c)
Switch(c) == Callable(c) \o Enumerators(c) \o (IF PublicDtor(c) THEN Dtors(c) ELSE <<>>)
WritePart ==
    /\ stage = "tables" /\ part <= Parts
    /\ LET count == Len(included) \div Parts
           first == count * (part - 1)
           last == IF part = Parts THEN Len(included) ELSE first + count
       IN switches' = [c \in Names |-> IF c \in Range(SubSeq(included, first + 1, last))
                                       THEN switches[c] \o Switch(c) ELSE switches[c]]
    /\ part' = part + 1 /\ stage' = IF part = Parts THEN "written" ELSE stage
    /\ UNCHANGED <<header, methods, included, classIndex, declared, data>>

TablesStart ==
    /\ stage = "parsed" /\ part = 1
    /\ methods = [c \in Names |-> <<>>] /\ included = <<>> /\ data = <<>>
    /\ classIndex = <<>> /\ declared = [c \in Names |-> {}]
    /\ switches = [c \in Names |-> <<>>]
TablesInit == header \in Headers /\ TablesStart
TablesNext == Prepare \/ IndexClasses \/ WriteData \/ WritePart

-----------------------------------------------------------------------------
\* smoke.h.  The binary search that every look-up uses; compare(i) is that of row i.
Search(n, compare(_)) ==
    LET s[imin \in 1..n + 1, imax \in 0..n] ==
            IF imin > imax THEN 0
            ELSE LET i == (imin + imax) \div 2
                 IN CASE compare(i) = 0 -> i
                      [] compare(i) > 0 -> s[imin, i - 1]
                      [] OTHER -> s[i + 1, imax]
    IN s[1, n]
Leg(a, b) == IF a = b THEN 0 ELSE IF a > b THEN 1 ELSE -1
IdClass(c) == Search(Len(data.classes), LAMBDA i : Leg(data.classes[i].name, c))
IdMethodName(n) == Search(Len(data.names), LAMBDA i : Leg(data.names[i], n))
\* numMethodMaps counts row 0, so the search may read the row after the last one
IdMethodShort(c, n) == Search(Len(data.maps) - 1, LAMBDA i :
    IF data.maps[i].class # c THEN Leg(data.maps[i].class, c) ELSE Leg(data.maps[i].name, n))
IdMethod(c, n) == Search(Len(data.maps) + 1, LAMBDA i :
    IF i > Len(data.maps) THEN data.beyond
    ELSE IF data.maps[i].class # c THEN Leg(data.maps[i].class, c) ELSE Leg(data.maps[i].name, n))
\* classMap: the constructor of Smoke enters the classes that are not external
FindClass(c) == LET i == IdClass(c) IN IF i = 0 \/ data.classes[i].external THEN 0 ELSE i
FindMethod(c, munged) ==
    LET n == IdMethodName(munged)
        f[k \in DOMAIN data.classes] ==
            LET ps == data.classes[k].parents
                unknown == SelectInSeq(ps, LAMBDA p : data.classes[p].external)
                tried == IF unknown = 0 THEN ps ELSE SubSeq(ps, 1, unknown - 1)
                found == Among([i \in DOMAIN tried |-> f[tried[i]]], Nat \ {0})
            IN IF IdMethod(k, n) # 0 THEN IdMethod(k, n) ELSE IF found = <<>> THEN 0 ELSE found[1]
    IN IF FindClass(c) = 0 \/ n = 0 THEN 0 ELSE f[FindClass(c)]
IsDerivedFrom(c, base) ==
    LET f[k \in DOMAIN data.classes] == \/ k = FindClass(base)
                                        \/ \E p \in Range(data.classes[k].parents) : f[p]
    IN FindClass(c) # 0 /\ FindClass(base) # 0 /\ f[FindClass(c)]
=============================================================================
