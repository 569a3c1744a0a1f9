--------------------------- MODULE SmokeRegistration ---------------------------
(***************************************************************************)
(* ClassMap: at start the tables of the library are turned into classes    *)
(* and method variants of the Qore program (registerSmoke()), in two loops *)
(* over the tables: the hierarchy first, then every row of methodMaps.     *)
(***************************************************************************)
EXTENDS SmokeTables

CONSTANTS Skipped     \* methods with a handler of their own: <<class, name>>

VARIABLES step,       \* index of the loop
          qore        \* classes (with their bases), type handlers, variants, constants, destructors

registrationVars == <<tableVars, step, qore>>

NoQore == [bases |-> <<>>, handlers |-> {}, variants |-> {}, constants |-> {}, dtors |-> {}]

\* findCreateQoreClass: class i, or its parent or the class of a parameter
Create(q, i) == IF i \in DOMAIN q.bases THEN q ELSE [q EXCEPT !.bases = (i :> <<>>) @@ @]

\* setupClassHierarchy: the loop ends before numClasses, the index of the last class
SetupHierarchy ==
    /\ stage = "written" /\ step < Len(data.classes)
    /\ LET ps == data.classes[step].parents
           q == FoldLeft(Create, Create(qore, step), ps)
       IN qore' = [q EXCEPT !.bases[step] = @ \o ps]
    /\ step' = step + 1 /\ UNCHANGED tableVars
HierarchyDone ==
    /\ stage = "written" /\ step >= Len(data.classes)
    /\ stage' = "hierarchy" /\ step' = 1
    /\ UNCHANGED <<header, methods, included, classIndex, declared, data, switches, part, qore>>

\* What the xcall function of the row's class runs: <<>> if it has no such case.
Dispatch(row) == LET cases == switches[data.classes[row.class].name]
                 IN IF row.xcall \in DOMAIN cases THEN <<cases[row.xcall]>> ELSE <<>>

\* getInitType: the Qore type of a parameter; a class is created when it is first seen
Untyped == 0     Invalid == -9
QoreType(t) == CASE t > 0 -> IF Kind(t) = "template" THEN Untyped ELSE t
                 [] t = CLong -> CInt
                 [] t = VoidPointer -> Invalid
                 [] OTHER -> t
Signature(m) == [i \in DOMAIN m.args |-> QoreType(m.args[i])]
CreateTypes(q, m) ==
    FoldLeft(LAMBDA acc, t : IF t > 0 /\ Kind(t) # "template" THEN Create(acc, Index(t)) ELSE acc,
             q, m.args)
Variant(i, m, r) == [class |-> i, name |-> m.name, kind |-> m.kind, static |-> m.static,
                     sig |-> Signature(m), private |-> ~Public(m), row |-> r]
\* existsVariant among those of the class with this name: the first one stays
ExistsByName(q, v) == \E w \in q.variants : w.class = v.class /\ w.name = v.name
Exists(q, v) == \E w \in q.variants : [w EXCEPT !.row = v.row, !.private = v.private] = v
NewVariant(q, v) == IF Exists(q, v) THEN q ELSE [q EXCEPT !.variants = @ \cup {v}]

AddMethod(q, i, r) ==
    LET row == data.rows[r]  m == row.member
    IN IF <<data.classes[i].name, m.name>> \in Skipped THEN q
       ELSE IF m.kind = "enum" THEN [q EXCEPT !.constants = @ \cup {<<i, m.name, Dispatch(row)>>}]
       ELSE IF Dtor(m) THEN [q EXCEPT !.dtors = @ \cup {<<i, r>>}]
       ELSE IF Invalid \in Range(Signature(m)) THEN q
       ELSE NewVariant(CreateTypes(q, m), Variant(i, m, r))

\* one row of methodMaps: each of its methods is entered in the map of the handlers
\* (getTypeHandler) and added to the class
RegisterRow ==
    /\ stage = "hierarchy" /\ step <= Len(data.maps)
    /\ LET mm == data.maps[step]
           Enter(q, r) == [q EXCEPT !.handlers = @ \cup
                             {<<data.classes[mm.class].name, data.rows[r].member.name, mm.name, r>>}]
           One(q, r) == AddMethod(Enter(q, r), mm.class, r)
       IN qore' = FoldLeft(One, Create(qore, mm.class), mm.rows)
    /\ step' = step + 1 /\ UNCHANGED tableVars
Finish ==
    /\ stage = "hierarchy" /\ step > Len(data.maps)
    /\ stage' = "registered"
    /\ UNCHANGED <<header, methods, included, classIndex, declared, data, switches, part, step, qore>>

RegistrationStart == TablesStart /\ step = 1 /\ qore = NoQore
RegistrationInit == TablesInit /\ RegistrationStart
RegistrationNext == \/ TablesNext /\ UNCHANGED <<step, qore>>
                    \/ SetupHierarchy \/ HierarchyDone \/ RegisterRow \/ Finish
RegistrationSpec == RegistrationInit /\ [][RegistrationNext]_registrationVars

-----------------------------------------------------------------------------
RegistrationTypeOK ==
    /\ DOMAIN methods = Names /\ DOMAIN switches = Names
    /\ stage \in {"parsed", "prepared", "indexed", "tables", "written", "hierarchy", "registered"}
    /\ part \in 1..Parts + 1 /\ step \in Nat
    /\ Range(included) \subseteq Names
    /\ DOMAIN qore = DOMAIN NoQore

\* the generator is done and nothing is registered yet: the tables do not change any more
Complete == stage = "written" /\ step = 1

\* The two outputs of the generator, and smokedata.cpp and the numbers that callMethod()
\* is given, agree although each counts for itself: every row is dispatched to its own
\* member (a destructor that is not public to none), and every virtual method that a
\* generated class reimplements has exactly one row (writeSmokeDataFile.cpp:464-612,
\* writeClasses.cpp:388-499).
NumbersAgree ==
    Complete =>
        /\ \A r \in Range(data.rows) : r.xcall # 0 =>
              \/ Dispatch(r) = <<r.member>>
              \/ Dispatch(r) = <<>> /\ Dtor(r.member) /\ ~Public(r.member)
        /\ \A c \in Range(included) : \A m \in Range(VirtualMethods(c)) :
              Cardinality({i \in DOMAIN data.rows : data.rows[i].member = m}) = 1

\* A class and those it is derived from, in the order of superClassList(), without
\* private bases and without those that are not in the library.
Lineage(c) == LET f[k \in Names] ==
                      LET bs == SelectSeq(Bases(k), LAMBDA b : ~b.private)
                      IN <<k>> \o FlattenSeq([i \in DOMAIN bs |-> f[bs[i].class]])
              IN f[c]
\* Every look-up gives what the headers say: findMethod() the method of the nearest class
\* that declares one of that munged name, or none; isDerivedFrom() the derivation; and cast()
\* has a case for each of its steps, up and down, so that no pointer is left as it is.  A class
\* with a base outside the library is left out: there findMethod() stops
\* (smoke.h:418-543).
LookupRight ==
    Complete => \A c \in Names :
        LET line == SelectSeq(Lineage(c), LAMBDA k : Kind(k) # "template")
            Finds(munged) ==
                LET at == SelectInSeq(line, LAMBDA k : munged \in MungedNames(k))
                    mm == FindMethod(c, munged)
                IN IF at = 0 THEN mm = 0
                   ELSE /\ mm \in DOMAIN data.maps
                        /\ data.maps[mm].class = Index(line[at])
                        /\ {data.rows[r].member : r \in Range(data.maps[mm].rows)} =
                           {m \in Range(Callable(line[at]) \o Enumerators(line[at]) \o Dtors(line[at])) :
                                Munged(m) = munged}
        IN Range(line) \subseteq Range(included) =>
             /\ \A munged \in UNION {MungedNames(k) : k \in Range(included)} \cup {0, 999} : Finds(munged)
             /\ \A k \in Range(included) : IsDerivedFrom(c, k) = (k \in Range(line))
             /\ Kind(c) = "class" => \A k \in Range(line) : /\ Index(k) \in data.casts[Index(c)]
                                                          /\ Index(c) \in data.casts[Index(k)]

\* What is registered serves every public or protected method of a class of the library
\* whose parameters Qore can pass: a variant with its Qore types exists, and its handler
\* leads through the dispatcher of the class to a method of this name, with these types;
\* an enumerator has the constant with its value, a class its one destructor and its
\* bases (qoresmokeclass.cpp:88-346).
AllCallable ==
    stage = "registered" => \A c \in Range(included) :
        /\ \A m \in Range(Callable(c)) :
              Invalid \notin Range(Signature(m)) /\ <<c, m.name>> \notin Skipped =>
                \E v \in qore.variants :
                    LET run == Dispatch(data.rows[v.row])
                    IN /\ v.class = Index(c) /\ v.name = m.name /\ v.kind = m.kind
                       /\ v.sig = Signature(m) /\ v.static = m.static
                       /\ run # <<>> /\ run[1].name = m.name /\ Signature(run[1]) = v.sig
        /\ \A e \in Range(Enumerators(c)) : <<Index(c), e.name, <<e>>>> \in qore.constants
        /\ Cardinality({d \in qore.dtors : d[1] = Index(c)}) = Len(Dtors(c))
        /\ Kind(c) = "class" => qore.bases[Index(c)] = Parents(c)
=============================================================================
