----------------------------- MODULE CallArguments -----------------------------
(***************************************************************************)
(* How the values of a Qore call become the arguments of a Qt call and     *)
(* what comes back: CommonQoreMethod, its store of temporaries             *)
(* (temp_store_s) and the variables a Qore program passes by reference.    *)
(* The same conversion serves an emitted signal, with one store entry per  *)
(* argument, and the result of a Qore method that Qt called, with none.    *)
(***************************************************************************)
EXTENDS Naturals

CONSTANT MaxParams       \* bound: parameters of a call

ASSUME ParamsAssumption == MaxParams \in Nat

\* What the types of parameters differ in.  scalar, object, copy: by value;  int, real,
\* bool, string, qstring: a pointer or a reference to one;  made: a QKeySequence, QColor
\* or QBrush from a number or a string;  brush: a QBrush from a QColor;  date, list,
\* variant: those classes and the containers;  handle: a Q class through a pointer or a
\* reference;  device: a QPaintDevice*;  find: the pixmap of QPixmapCache::find();
\* argv: a char**;  unknown: any other pointer.
Kinds == {"scalar", "copy", "argv", "int", "real", "bool", "string", "qstring", "made", "brush",
          "date", "list", "variant", "handle", "device", "find", "unknown"}
ByValue == {"scalar", "copy"}
Boxed == {"qstring", "made", "date", "list", "variant", "find"}
Fallible == {"argv", "qstring", "date", "list", "variant", "handle", "device", "copy"}
NeedsCall == {"int", "real", "bool"}

\* mode of the conversion: a call of a Qt method, an emitted signal, a returned value
Modes == {"call", "emit", "return"}

\* given: what the program passed.  object: a QChar for a string, objects in a list;  lost: an
\* object of the right class whose Qt object or private data is gone.
\* byRef: a reference to a variable that holds it
Params == {p \in [kind : Kinds, const : BOOLEAN, byRef : BOOLEAN,
                  given : {"good", "bad", "nothing", "object", "lost"}] :
              /\ p.given = "bad" => p.kind \in Fallible
              /\ p.given = "lost" => p.kind \in {"handle", "copy", "variant"}
              /\ p.given = "nothing" => p.kind \in {"string", "handle", "device"}
              /\ p.given = "object" => p.kind \in {"qstring", "list"}
              /\ p.kind \in ByValue \cup {"find"} => ~p.const
              /\ p.kind \in ByValue => ~p.byRef
              /\ p.kind \in {"made", "brush", "variant"} => p.const
              /\ p.kind = "find" => p.byRef}

VARIABLES mode, params,
          handler,    \* the arguments are converted by an argument handler
          phase,      \* convert, qt, release, finished
          at,         \* the parameter to convert, or the entry to release
          entry,      \* per parameter: what its temp_store_s holds, and the reference
          temp,       \* per parameter: the object made for it on the heap
          slot,       \* per parameter: where its stack item points to
          variable,   \* per parameter: the Qore variable passed by reference
          owed,       \* parameters with a reference to private data not given back
          qtRan, raised, callFault

callVars == <<mode, handler, params, phase, at, entry, temp, slot, variable, owed, qtRan, raised,
              callFault>>

Positions == DOMAIN params
EntryTypes == {"r_none", "r_scalar", "r_sl", "r_str", "r_qstr", "r_other", "r_qpixmap", "r_smokeobj"}
NoEntry == [type |-> "r_none", ref |-> FALSE]

CallInit ==
    /\ mode \in Modes /\ handler \in BOOLEAN
    /\ params \in UNION {[1..n -> Params] : n \in 1..MaxParams}
    /\ handler => mode = "call"
    /\ \A i \in Positions : /\ mode # "call" => ~params[i].byRef
                            /\ params[i].kind = "find" => handler
                            /\ params[i].kind = "argv" =>
                                   IF handler THEN ~params[i].byRef ELSE params[i].given = "good"
    /\ mode = "return" => Positions = {1}
    /\ phase = "convert" /\ at = 1
    /\ entry = [i \in Positions |-> NoEntry]
    /\ temp = [i \in Positions |-> "none"]
    /\ slot = [i \in Positions |-> "unset"]
    /\ variable = [i \in Positions |-> "old"]
    /\ owed = {} /\ qtRan = FALSE /\ raised = FALSE /\ callFault = "none"

-----------------------------------------------------------------------------
Converting(kinds) == /\ phase = "convert" /\ callFault = "none"
                     /\ at \in Positions /\ params[at].kind \in kinds
P == params[at]

\* the entry keeps the reference unless the parameter is const
AcquiredEvenConst == [type |-> "r_none", ref |-> P.byRef]
Acquired == [type |-> "r_none", ref |-> P.byRef /\ ~P.const]
Enter(e) == entry' = [entry EXCEPT ![at] = e]
Holding(type) == Enter([Acquired EXCEPT !.type = type])
Points(where) == slot' = [slot EXCEPT ![at] = where]
Makes(what) == temp' = [temp EXCEPT ![at] = what]
Continue == at' = at + 1 /\ UNCHANGED <<phase, raised>>
\* An exception ends the conversion: the constructor of CommonQoreMethod breaks out of its
\* loop and emitSignal() returns; the argument handlers go on to the next argument.
RaiseUnnoticed == at' = at + 1 /\ UNCHANGED <<phase, raised>>
Raise == /\ raised' = TRUE
         /\ IF handler THEN at' = at + 1 /\ UNCHANGED phase
                        ELSE at' = 1 /\ phase' = "release"
Static == UNCHANGED <<mode, handler, params, variable, qtRan>>
Stops(fault) == /\ callFault' = fault
                /\ UNCHANGED <<phase, at, entry, temp, slot, owed, raised>> /\ Static

ConvertScalar ==
    /\ Converting({"scalar"})
    /\ Points("value") /\ Continue
    /\ UNCHANGED <<entry, temp, owed, callFault>> /\ Static

\* The strings of a char** are kept until the module is deleted, because an application
\* object uses them as long as it lives; an argument handler refuses an empty list.
ConvertArgv ==
    /\ Converting({"argv"}) /\ P.given # "bad"
    /\ IF mode = "call" THEN Holding("r_sl") /\ Points("sink") /\ Continue
                        ELSE Raise /\ UNCHANGED <<entry, slot>>
    /\ UNCHANGED <<temp, owed, callFault>> /\ Static

\* int, double and bool through a pointer live in the entry itself, which only a call has
ConvertInEntry ==
    /\ Converting(NeedsCall)
    /\ IF mode = "call" THEN Holding("r_scalar") /\ Points("entry") /\ Continue
                        ELSE Raise /\ UNCHANGED <<entry, slot>>
    /\ UNCHANGED <<temp, owed, callFault>> /\ Static

ConvertChars ==
    /\ Converting({"string"})
    /\ IF P.given = "nothing" THEN Enter(Acquired) /\ Points("null") /\ UNCHANGED temp
       ELSE /\ IF mode = "return" THEN UNCHANGED entry ELSE Holding("r_str")
            /\ Makes("live") /\ Points("temp")
    /\ Continue /\ UNCHANGED <<owed, callFault>> /\ Static

\* QKeySequence, QBrush, QColor and the containers are only stored for a call
Stored == \/ mode = "call"
          \/ mode = "emit" /\ P.kind \in {"qstring", "date"}
EntryTypeUnknown == IF P.kind = "qstring" THEN "r_qchar" ELSE "r_other"
EntryType == IF P.kind = "qstring" THEN "r_qstr"
             ELSE IF P.kind = "find" THEN "r_qpixmap" ELSE "r_other"
\* temp_store->assign(variant.release()) empties the pointer that the next line uses, and
\* qoreToQVariant() returns null for an object that has been deleted
VariantIsNull == P.kind = "variant" /\ (mode = "emit" \/ P.given = "lost") /\ ~P.byRef
\* Containers and variants are made from the reference itself when there is one, and not from
\* the value that was acquired from it.
Unresolved == P.byRef /\ P.kind \in {"list", "variant"}
\* get_qstring() and listToObject() take a reference of the private data and keep it
Owes == owed' = IF P.given = "object" THEN owed \cup {at} ELSE owed
OwesNothing == owed' = owed

ConvertBoxed ==
    /\ Converting(Boxed) /\ P.given # "bad" /\ ~VariantIsNull /\ ~Unresolved
    /\ Makes("live") /\ Points("temp") /\ Owes
    /\ IF Stored THEN Holding(EntryType) ELSE UNCHANGED entry
    /\ Continue /\ UNCHANGED callFault /\ Static

\* new QBrush(QColor) is given to nobody
ConvertBrush ==
    /\ Converting({"brush"})
    /\ Makes("live") /\ Points("temp") /\ Enter(Acquired)
    /\ Continue /\ UNCHANGED <<owed, callFault>> /\ Static

\* the Qt object of the wrapper, or null for no object and for one that is gone
ConvertHandle ==
    /\ Converting({"handle", "device"}) /\ P.given # "bad"
    /\ ~(P.kind = "device" /\ P.given = "nothing")
    /\ Points(IF P.given = "good" THEN "object" ELSE "null") /\ Enter(Acquired)
    /\ Continue /\ UNCHANGED <<temp, owed, callFault>> /\ Static

\* A class by value: the object itself, or a default one when it is gone.  A returned
\* value that nothing else refers to is taken from its wrapper, another one is copied.
ConvertCopy ==
    /\ Converting({"copy"}) /\ P.given # "bad"
    /\ IF P.given = "good" /\ mode # "return"
       THEN Points("object") /\ UNCHANGED <<entry, temp>>
       ELSE /\ Makes("live") /\ Points("temp")
            /\ IF mode = "emit" THEN Holding("r_smokeobj") ELSE UNCHANGED entry
    /\ Continue /\ UNCHANGED <<owed, callFault>> /\ Static

\* the conversion raises an exception; the variable's reference has been entered by then
ConvertBad ==
    /\ Converting(Fallible \ {"list"}) /\ (P.given = "bad" \/ Unresolved)
    /\ ~VariantIsNull
    /\ Enter(Acquired) /\ Raise
    /\ UNCHANGED <<temp, slot, owed, callFault>> /\ Static

\* QoreToQtContainer: a container it has no function for is refused; every function makes its
\* list first and forgets it when the value or an element is not of the right type, with the
\* private data of the elements before it.  A reference is not an object, either.
RefuseContainer == P.given = "bad" /\ UNCHANGED <<temp, owed>>
AbandonList == Makes("live") /\ owed' \in {owed, IF Unresolved THEN owed ELSE owed \cup {at}}
ConvertBadList ==
    /\ Converting({"list"})
    /\ P.given = "bad" \/ (Unresolved /\ P.given = "object")
    /\ Enter(Acquired) /\ Raise
    /\ RefuseContainer \/ AbandonList
    /\ UNCHANGED <<slot, callFault>> /\ Static

\* a list of numbers, strings or enumerators has the reference itself for its one element
ConvertReference ==
    /\ Converting({"list"}) /\ Unresolved /\ P.given # "object"
    /\ Makes("live") /\ Points("temp") /\ Holding("r_other")
    /\ Continue /\ UNCHANGED <<owed, callFault>> /\ Static

NullVariant == Converting({"variant"}) /\ VariantIsNull /\ Stops("null")
\* c->object() of the pointer that getObjectStatic() leaves null for NOTHING
NullDevice == Converting({"device"}) /\ P.given = "nothing" /\ Stops("null")
\* any other pointer type, and a QPen made from a number: assert()
ConvertUnknown == Converting({"unknown"}) /\ Stops("assert")

-----------------------------------------------------------------------------
EnterQt ==
    /\ phase = "convert" /\ callFault = "none" /\ at \notin Positions /\ ~raised
    /\ phase' = "qt" /\ qtRan' = TRUE
    /\ UNCHANGED <<mode, handler, params, at, entry, temp, slot, variable, owed, raised,
                   callFault>>
SkipQt ==
    /\ phase = "convert" /\ at \notin Positions /\ raised
    /\ phase' = "release" /\ at' = 1
    /\ UNCHANGED <<mode, handler, params, entry, temp, slot, variable, owed, qtRan, raised,
                   callFault>>

\* Qt has written what it wanted through the pointers
LeaveQt ==
    /\ phase = "qt"
    /\ phase' = "release" /\ at' = 1
    /\ UNCHANGED <<mode, handler, params, entry, temp, slot, variable, owed, qtRan, raised,
                   callFault>>

\* what ~CommonQoreMethod() assigns to the variable: the value of the entry.  A QString
\* falls through to the next case, which takes the entry for a bool.
Written(e, old) ==
    CASE e.type \in {"r_scalar", "r_str"} -> IF qtRan THEN "qt" ELSE "old"
      [] e.type = "r_qpixmap" -> IF qtRan THEN "qt" ELSE "mistaken"    \* an empty one
      [] e.type = "r_qstr" -> "mistaken"
      [] e.type = "r_none" -> "nothing"
      [] OTHER -> old
Refused(e) == e.type \in {"r_sl", "r_other", "r_smokeobj"}

\* the entries are visited in the order of the parameters; that of createQoreObject...()
\* takes the pixmap over
WriteBack ==
    /\ phase = "release" /\ mode = "call" /\ at \in Positions
    /\ IF entry[at].ref
       THEN /\ variable' = [variable EXCEPT ![at] = Written(entry[at], @)]
            /\ raised' = (raised \/ Refused(entry[at]))
            /\ IF entry[at].type = "r_qpixmap" THEN temp' = [temp EXCEPT ![at] = "given"]
                                              ELSE UNCHANGED temp
       ELSE UNCHANGED <<variable, raised, temp>>
    /\ at' = at + 1
    /\ UNCHANGED <<mode, handler, params, phase, entry, slot, owed, qtRan, callFault>>

\* delete temp_store: temp_store_s::del() of every entry
ReleaseStrings(i) == IF entry[i].type = "r_str" THEN "freed" ELSE temp[i]
Release(i) == IF entry[i].type \in {"r_str", "r_qstr", "r_other", "r_qpixmap", "r_smokeobj"}
                 /\ temp[i] # "given"
              THEN "freed" ELSE temp[i]
Finish ==
    /\ phase = "release" /\ (mode = "call" => at \notin Positions)
    /\ phase' = "finished"
    /\ temp' = [i \in Positions |-> Release(i)]
    /\ UNCHANGED <<mode, handler, params, at, entry, slot, variable, owed, qtRan, raised,
                   callFault>>

CallNext == \/ ConvertScalar \/ ConvertArgv \/ ConvertInEntry \/ ConvertChars \/ ConvertBoxed
            \/ ConvertBrush \/ ConvertHandle \/ ConvertCopy \/ ConvertBad \/ ConvertBadList
            \/ ConvertReference \/ NullVariant \/ NullDevice \/ ConvertUnknown
            \/ EnterQt \/ SkipQt \/ LeaveQt \/ WriteBack \/ Finish

CallSpec == CallInit /\ [][CallNext]_callVars

-----------------------------------------------------------------------------
\* Types of the state (CommonQoreMethod, temp_store_s).
CallTypeOK ==
    /\ mode \in Modes /\ handler \in BOOLEAN
    /\ Positions \in {1..n : n \in 1..MaxParams}
    /\ params \in [Positions -> Params]
    /\ phase \in {"convert", "qt", "release", "finished"}
    /\ at \in 1..MaxParams + 1
    /\ entry \in [Positions -> [type : EntryTypes, ref : BOOLEAN]]
    /\ temp \in [Positions -> {"none", "live", "freed", "given"}]
    /\ slot \in [Positions -> {"unset", "null", "value", "entry", "sink", "temp", "object"}]
    /\ variable \in [Positions -> {"old", "qt", "nothing", "mistaken"}]
    /\ owed \subseteq Positions
    /\ qtRan \in BOOLEAN /\ raised \in BOOLEAN
    /\ callFault \in {"none", "null", "assert"}

\* Qt is only called with a whole stack: every parameter was converted, and what its item
\* points to exists until Qt returns, whoever converted it.
ArgumentsLive ==
    phase = "qt" => \A i \in Positions :
        /\ slot[i] # "unset"
        /\ slot[i] = "temp" => temp[i] = "live"
        /\ slot[i] = "entry" => entry[i].type = "r_scalar"

\* What nobody frees: a brush made from a colour, a default object passed by value, a list
\* with a wrong element or of objects and given by reference, and without a CommonQoreMethod
\* whatever the store does not take.
Unstored(i) == \/ mode = "return"
               \/ params[i].kind = "brush"
               \/ /\ params[i].kind = "list"
                  /\ params[i].given = "bad" \/ (params[i].given = "object" /\ params[i].byRef)
               \/ mode = "call" /\ params[i].kind = "copy"
               \/ mode = "emit" /\ params[i].kind \in {"made", "list"}

\* When the call is over, whether Qt ran or a later argument failed, every temporary was
\* freed or handed on, except those of Unstored; and no private data is held except that
\* of the objects inside lists and of objects used as strings.
TemporariesReleased ==
    phase = "finished" =>
        /\ \A i \in Positions : temp[i] = "live" => Unstored(i)
        /\ \A i \in owed : params[i].given = "object" \/ params[i].kind = "list"

\* A variable is changed only by what Qt wrote: never that of a const parameter or of an
\* argument after the one that failed, and a number or a char* only when Qt ran.  (Strings
\* and objects: see ReferencesReturn.)
OnlyQtWrites ==
    \A i \in Positions : variable[i] # "old" =>
        /\ params[i].byRef /\ ~params[i].const
        /\ entry[i].type \in {"r_scalar", "r_str"} => variable[i] = "qt" /\ qtRan
        /\ handler \/ \A j \in Positions : j < i => slot[j] # "unset"

\* "write back values to references here" (~CommonQoreMethod()): after a call that raised
\* nothing, a variable passed by reference to a parameter that is not const has the value
\* that Qt left in it.
ReferencesReturn ==
    (phase = "finished" /\ qtRan /\ ~raised) =>
        \A i \in Positions : (params[i].byRef /\ ~params[i].const /\ params[i].given = "good")
                             => variable[i] = "qt"
=============================================================================
