---------------------------- MODULE VirtualDispatch ----------------------------
(***************************************************************************)
(* Virtual calls that cross the binding: the override a smoke class        *)
(* generates for every virtual method, QoreSmokeBinding::callMethod(),     *)
(* which decides between the Qore method and the C++ one, the generated    *)
(* x_ methods through which Qore code calls C++, and the thread's virtual  *)
(* flag with which the binding makes Qt calls that Qore must not see.      *)
(***************************************************************************)
EXTENDS Naturals, Sequences, Folds

CONSTANTS Threads,
          CallObjects,     \* C++ objects
          Marked,          \* those of a smoke class that has the RTTI mark
          Unmarked,        \* those of a smoke class without it
          Nobody,          \* no object
          Overridden,      \* <<object, method>> with a variant in its Qore class
          MaxFrames        \* bound: calls in progress, of all threads together

Methods == {"plain", "pure"}

ASSUME DispatchAssumption ==
    /\ Marked \subseteq CallObjects /\ Unmarked \subseteq CallObjects
    /\ Nobody \notin CallObjects
    /\ Overridden \subseteq CallObjects \X Methods
    /\ MaxFrames \in Nat

VARIABLES stack,       \* per thread: the calls in progress, the innermost last
          virtualFlag, \* per thread: qore_qt_virtual_flag
          wrapped,     \* the objects with an entry in qt_qore_map
          answer,      \* what the last virtual call returned
          dispatchFault \* the assertion that stopped the program

dispatchVars == <<stack, virtualFlag, wrapped, answer, dispatchFault>>

\* virtual: a generated override that called callMethod();  marshal: callMethod()
\* with a variant, converting the arguments;  user: the variant is running;
\* base: a C++ implementation;  helper: a Qt call made with the flag set.
\* quiet: the flag made the binding skip Qore.
Frames == [kind : {"virtual", "marshal", "user", "base", "helper"},
           obj : CallObjects \cup {Nobody}, meth : Methods, quiet : BOOLEAN]
Frame(k, o, m) == [kind |-> k, obj |-> o, meth |-> m, quiet |-> FALSE]
Cpp(quiet) == [kind |-> "base", obj |-> Nobody, meth |-> "plain", quiet |-> quiet]
Generated == Marked \cup Unmarked
NoAnswer == [meth |-> "plain", result |-> "none"]

Top(t) == stack[t][Len(stack[t])]
At(t) == IF stack[t] = <<>> THEN "idle" ELSE Top(t).kind
Running(t, kinds) == dispatchFault = "none" /\ At(t) \in kinds
InQore(t) == Running(t, {"idle", "user"})
InQt(t) == Running(t, {"idle", "base", "helper"})

Depth == MapThenFoldSet(LAMBDA n, m : n + m, 0, LAMBDA t : Len(stack[t]),
                        LAMBDA S : CHOOSE t \in S : TRUE, Threads)
Push(t, f) == /\ Depth < MaxFrames
              /\ stack' = [stack EXCEPT ![t] = Append(@, f)]
Replace(t, f) == stack' = [stack EXCEPT ![t][Len(stack[t])] = f]
Pop(t) == stack' = [stack EXCEPT ![t] = SubSeq(@, 1, Len(@) - 1)]
Answer(t, r) == answer' = [meth |-> Top(t).meth, result |-> r]

\* The C++ implementation follows a callMethod() that returned false; the override
\* of a pure virtual method ignores what callMethod() returned and reads x[0].
ReturnFalse(t, quiet) ==
    IF Top(t).meth = "pure"
    THEN Pop(t) /\ Answer(t, "undefined")
    ELSE Replace(t, Cpp(quiet)) /\ UNCHANGED answer
\* the error paths of callMethod(): true for a pure virtual method, with x[0] unset
ReturnError(t) ==
    IF Top(t).meth = "pure"
    THEN Pop(t) /\ Answer(t, "undefined")
    ELSE ReturnFalse(t, FALSE)

DispatchInit ==
    /\ stack = [t \in Threads |-> <<>>]
    /\ virtualFlag = [t \in Threads |-> FALSE]
    /\ wrapped \in {CallObjects, CallObjects \ Generated}
    /\ answer = NoAnswer
    /\ dispatchFault = "none"

\* Qt makes a virtual call: from its event loop, from one of its methods, or because
\* the binding called property(), setProperty() or metaObject() of an object, whose
\* own metaObject() is always the first of them.
VirtualCall(t, o, m) ==
    /\ InQt(t)
    /\ (At(t) = "helper" /\ virtualFlag[t]) =>
           (o = Top(t).obj \/ Top(t).obj \notin Generated)
    /\ Push(t, IF o \in Generated THEN Frame("virtual", o, m) ELSE Cpp(FALSE))
    /\ UNCHANGED <<virtualFlag, wrapped, answer, dispatchFault>>

SwallowVirtual(t) ==
    /\ Running(t, {"virtual"}) /\ virtualFlag[t]
    /\ virtualFlag' = [virtualFlag EXCEPT ![t] = FALSE]
    /\ ReturnFalse(t, TRUE)
    /\ UNCHANGED <<wrapped, dispatchFault>>

NoQoreObject(t) ==
    /\ Running(t, {"virtual"}) /\ ~virtualFlag[t] /\ Top(t).obj \notin wrapped
    /\ IF Top(t).meth = "pure"
       THEN dispatchFault' = "abstract" /\ UNCHANGED <<stack, answer>>
       ELSE ReturnFalse(t, FALSE) /\ UNCHANGED dispatchFault
    /\ UNCHANGED <<virtualFlag, wrapped>>

FindVariant(t) ==
    /\ Running(t, {"virtual"}) /\ ~virtualFlag[t] /\ Top(t).obj \in wrapped
    /\ IF <<Top(t).obj, Top(t).meth>> \in Overridden
       THEN Replace(t, [Top(t) EXCEPT !.kind = "marshal"]) /\ UNCHANGED answer
       ELSE ReturnError(t)
    /\ UNCHANGED <<virtualFlag, wrapped, dispatchFault>>

BadArguments(t) ==
    /\ Running(t, {"marshal"})
    /\ ReturnError(t)
    /\ UNCHANGED <<virtualFlag, wrapped, dispatchFault>>

RunVariant(t) ==
    /\ Running(t, {"marshal"})
    /\ Replace(t, [Top(t) EXCEPT !.kind = "user"])
    /\ UNCHANGED <<virtualFlag, wrapped, answer, dispatchFault>>

UserReturns(t) ==
    /\ Running(t, {"user"})
    /\ Pop(t) /\ Answer(t, "defined")
    /\ UNCHANGED <<virtualFlag, wrapped, dispatchFault>>

\* the value cannot be converted to the C++ type: the C++ method runs as well
BadResult(t) ==
    /\ Running(t, {"user"})
    /\ ReturnError(t)
    /\ UNCHANGED <<virtualFlag, wrapped, dispatchFault>>

BaseReturns(t) ==
    /\ Running(t, {"base"})
    /\ Pop(t) /\ Answer(t, "defined")
    /\ UNCHANGED <<virtualFlag, wrapped, dispatchFault>>

\* An x_ method calls Class::method() of an object with the mark and makes a virtual
\* call on every other object; that of a pure virtual method is always virtual.
DynamicAlways(o, m) == TRUE
DynamicDispatch(o, m) == m = "pure" \/ o \notin Marked
QoreCalls(t, o, m) ==
    /\ InQore(t) /\ o \in wrapped
    /\ Push(t, IF DynamicDispatch(o, m) /\ o \in Generated THEN Frame("virtual", o, m)
                                                         ELSE Cpp(FALSE))
    /\ UNCHANGED <<virtualFlag, wrapped, answer, dispatchFault>>

\* QoreQtVirtualFlagHelper around property(), setProperty() and metaObject(), in Qore
\* code and while callMethod() converts arguments
HelperBegins(t, o) ==
    /\ Running(t, {"idle", "user", "marshal"})
    /\ IF virtualFlag[t]
       THEN dispatchFault' = "flag" /\ UNCHANGED <<stack, virtualFlag>>
       ELSE /\ virtualFlag' = [virtualFlag EXCEPT ![t] = TRUE]
            /\ Push(t, Frame("helper", o, "plain"))
            /\ UNCHANGED dispatchFault
    /\ UNCHANGED <<wrapped, answer>>

KeepFlag(t) == UNCHANGED virtualFlag
ClearFlag(t) == virtualFlag' = [virtualFlag EXCEPT ![t] = FALSE]
HelperEnds(t) ==
    /\ Running(t, {"helper"})
    /\ ClearFlag(t) /\ Pop(t)
    /\ UNCHANGED <<wrapped, answer, dispatchFault>>

\* a private data object registers the object, or is deleted while Qt keeps it
MapChanges(t, o) ==
    /\ InQore(t)
    /\ wrapped' = IF o \in wrapped THEN wrapped \ {o} ELSE wrapped \cup {o}
    /\ UNCHANGED <<stack, virtualFlag, answer, dispatchFault>>

DispatchNext == \E t \in Threads :
    \/ \E o \in CallObjects, m \in Methods : VirtualCall(t, o, m) \/ QoreCalls(t, o, m)
    \/ \E o \in CallObjects : HelperBegins(t, o) \/ MapChanges(t, o)
    \/ SwallowVirtual(t) \/ NoQoreObject(t) \/ FindVariant(t) \/ BadArguments(t)
    \/ RunVariant(t) \/ UserReturns(t) \/ BadResult(t) \/ BaseReturns(t) \/ HelperEnds(t)

DispatchSpec == DispatchInit /\ [][DispatchNext]_dispatchVars

-----------------------------------------------------------------------------
\* Types of the state (callMethod(), QoreQtVirtualFlagHelper).
DispatchTypeOK ==
    /\ stack \in [Threads -> Seq(Frames)]
    /\ virtualFlag \in [Threads -> BOOLEAN]
    /\ wrapped \subseteq CallObjects
    /\ answer \in [meth : Methods, result : {"none", "defined", "undefined"}]
    /\ dispatchFault \in {"none", "flag", "abstract"}

InnermostHelper(t, i) ==
    /\ stack[t][i].kind = "helper"
    /\ \A j \in i+1 .. Len(stack[t]) : stack[t][j].kind # "helper"

\* The flag is only on inside a helper and before Qore code runs again below it, so
\* the assertion in qore_smoke_set_virtual() holds: no helper meets another one's flag.
\* An override of Qore code is passed over only inside a Qt call the binding made for
\* itself: never by a flag left behind, and never by that of another thread.
FlagOwned ==
    /\ dispatchFault # "flag"
    /\ \A t \in Threads : virtualFlag[t] =>
           \E i \in DOMAIN stack[t] :
               /\ InnermostHelper(t, i)
               /\ \A j \in i+1 .. Len(stack[t]) : stack[t][j].kind \notin {"user", "marshal"}
    /\ \A t \in Threads : \A j \in DOMAIN stack[t] : stack[t][j].quiet =>
           \E i \in 1 .. j-1 :
               /\ stack[t][i].kind = "helper"
               /\ \A k \in i+1 .. j-1 : stack[t][k].kind \notin {"user", "marshal"}

\* A Qore override that calls the method it overrides reaches the C++ implementation
\* and not itself, for every object with the RTTI mark (generateMethod()).
BaseCallReachesBase ==
    \A t \in Threads : \A j \in 1 .. Len(stack[t]) - 1 :
        LET f == stack[t][j]
            g == stack[t][j+1]
        IN  (f.kind = "user" /\ f.meth = "plain" /\ f.obj \in Marked
                /\ g.obj = f.obj /\ g.meth = "plain")
            => g.kind = "helper"
=============================================================================
