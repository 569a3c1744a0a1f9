-------------------------- MODULE WrapperLifecycle --------------------------
(***************************************************************************)
(* How a Qore object (the wrapper), its private data and the Qt object it  *)
(* stands for live and die together: qoresmokeclass.{h,cpp}, the deletion  *)
(* callback of qoresmokebinding.cpp, the object map and the widget manager *)
(* of qoresmokeglobal.h, and the wrapper creation of qoremarshalling.cpp.  *)
(*                                                                         *)
(* Deletions nest: a Qt destructor calls back into Qore, which runs a Qore *)
(* destructor, which may call a Qt destructor.  Every thread therefore has *)
(* a call stack, a sequence of frames with the running call first; a step  *)
(* executes the top frame and replaces it by the calls it makes.  A step   *)
(* is what the code does between two such calls and holds at most one lock *)
(* of the map or of an object.                                             *)
(*                                                                         *)
(* A failed assert() or the use of freed memory stops the program: it sets *)
(* "fault" and no step follows.                                            *)
(***************************************************************************)
EXTENDS Integers, Sequences, FiniteSets

CONSTANTS
    Addr,            \* the addresses Qt objects are allocated at (reused)
    Wrap,            \* the addresses Qore objects are allocated at (reused)
    Thread,          \* the threads of the program
    GuiThread,       \* the one that runs the event loop of Qt
    Kinds,           \* the kinds of Qt objects the program uses
    QtMakes,         \* does Qt hand out objects that it made itself?
    MayThrow,        \* may constructors written in Qore raise exceptions?
    MaxHeld,         \* bound on the references a program holds to a wrapper
    MaxDepth,        \* bound on the call depth at which user code acts
    NestedUserCode,  \* may destructors written in Qore act on other objects?
    None             \* a null pointer

\* "plain" stands for every class outside QObject with a virtual destructor
KindSet == {"plain", "object", "widget", "desktop", "app"}

\* the ways in which the program can stop
Faults == {"map_add", "map_del", "clear_null", "qwm_add", "qwm_deleteAll",
           "obj_ref", "deleteAll_dangling", "double_free", "dangling_qt",
           "wrapper_gone", "null_this", "dangling_this"}

ASSUME KindsAssumption == Kinds \subseteq KindSet
ASSUME NoneAssumption ==
    None \notin Addr /\ None \notin Wrap /\ None \notin Faults
ASSUME ThreadAssumption == GuiThread \in Thread
ASSUME BoundsAssumption == MaxHeld \in Nat /\ MaxDepth \in Nat

\* A call that clears private data, before it takes the object off the map and
\* then before it resets the pointer.  common_destructor does so to keep an
\* object that has a parent, drop one that is externally owned or take one to
\* delete it.
RestDelOps == {"keepDel", "dropDel", "takeDel"}
RestEndOps == {"keepEnd", "dropEnd", "takeEnd"}
DelOps == RestDelOps \cup {"externalDel", "returnDel"}
EndOps == RestEndOps \cup {"externalEnd", "returnEnd"}
EndOf(op) == CASE op = "keepDel" -> "keepEnd" [] op = "dropDel" -> "dropEnd"
               [] op = "takeDel" -> "takeEnd"
               [] op = "externalDel" -> "externalEnd"
               [] op = "returnDel" -> "returnEnd"

\* the calls that can be on a stack: on a Qt object, on a Qore object, the
\* rest of common_destructor, on both, and the loop of deleteAll
AOps == {"qtDestroy", "deleted", "qtFree",
         "mapMiss", "mapMissOwned", "mapMissCopy"}
WOps == {"ctorBody", "userDtor", "commonDtor", "pdDeref", "endDelete", "deref",
         "objRefDrop", "hold", "externalDelete", "externalDel", "externalEnd",
         "returnDel", "returnEnd", "mapHit", "methodCall"}
RestOps == {"dtorRest"} \cup RestDelOps \cup RestEndOps

Frame ==
    [op : AOps, a : Addr, w : {None}, s : {{}}] \cup
    [op : WOps, a : {None}, w : Wrap, s : {{}}] \cup
    [op : RestOps, a : Addr, w : Wrap, s : {{}}] \cup
    [op : {"deleteAll"}, a : {None}, w : {None}, s : SUBSET Addr]

VARIABLES
    qt,      \* the Qt objects: what Qt knows of each address
    wr,      \* the Qore objects: status and reference count
    pd,      \* their QoreSmokePrivate data
    map,     \* qt_qore_map
    qwm,     \* QWM, the QoreWidgetManager
    stack,   \* the call stack of every thread
    fault    \* the assertion that failed or the bad access, or None

vars == <<qt, wr, pd, map, qwm, stack, fault>>

-----------------------------------------------------------------------------
NoQt == [state |-> "free", kind |-> "plain", bound |-> FALSE, taken |-> FALSE,
         parent |-> None]
Wr(status, refs, held) == [status |-> status, refs |-> refs, held |-> held]
NoWr == Wr("free", 0, 0)
NoPd == [refs |-> 0, attached |-> FALSE, is_qobject |-> FALSE, obj |-> None,
         eo |-> FALSE, obj_ref |-> FALSE]

Init ==
    /\ qt = [a \in Addr |-> NoQt]
    /\ wr = [w \in Wrap |-> NoWr]
    /\ pd = [w \in Wrap |-> NoPd]
    /\ map = [a \in Addr |-> None]
    /\ qwm = [set |-> {}, done |-> FALSE]
    /\ stack = [t \in Thread |-> <<>>]
    /\ fault = None

AFrame(op, a) == [op |-> op, a |-> a, w |-> None, s |-> {}]
WFrame(op, w) == [op |-> op, a |-> None, w |-> w, s |-> {}]
RestFrame(op, a, w) == [op |-> op, a |-> a, w |-> w, s |-> {}]
LoopFrame(s) == [op |-> "deleteAll", a |-> None, w |-> None, s |-> s]

isQObject(a) == qt[a].kind # "plain"
isWidget(a) == qt[a].kind \in {"widget", "desktop"}
Live(a) == qt[a].state = "live"

Dying(a) == qt[a].state = "dying"
Children(a) == {c \in Addr : qt[c].state # "free" /\ qt[c].parent = a}

\* The objects above a in the Qt tree, a included.
Ancestors(a) ==
    LET up[n \in Nat] == IF n = 0 THEN {a}
                         ELSE up[n - 1] \cup
                              {qt[x].parent : x \in up[n - 1] \ {None}}
    IN  up[Cardinality(Addr)] \ {None}

-----------------------------------------------------------------------------
(* Stacks and faults *)

Running(t) == stack[t] # <<>>
Top(t) == Head(stack[t])
AtTop(t, op) == fault = None /\ Running(t) /\ Top(t).op = op

\* the top frame returns after making the calls fs, first one first
Calls(t, fs) == stack' = [stack EXCEPT ![t] = fs \o Tail(stack[t])]
Return(t) == Calls(t, <<>>)
Enter(t, fs) == stack' = [stack EXCEPT ![t] = fs \o stack[t]]

Abort(f) == fault' = f /\ UNCHANGED <<qt, wr, pd, map, qwm, stack>>

\* Code written in Qore runs at the bottom of a stack, in a constructor and,
\* if the run says so, in a destructor.
UserFrames == {"ctorBody"} \cup IF NestedUserCode THEN {"userDtor"} ELSE {}
UserCode(t) ==
    /\ fault = None
    /\ Len(stack[t]) < MaxDepth
    /\ Running(t) => Top(t).op \in UserFrames

-----------------------------------------------------------------------------
(* The Qore library: references and destruction of a QoreObject *)

\* doDelete(): the temporary reference keeps the object until endDelete
DestructorFrames(w) ==
    <<WFrame("userDtor", w), WFrame("commonDtor", w), WFrame("endDelete", w)>>

deleteBlocker(w) ==
    /\ pd[w].attached /\ pd[w].obj # None
    /\ \/ pd[w].eo
       \/ pd[w].is_qobject /\ qt[pd[w].obj].parent # None

\* QoreObject::deref()
Deref(t) ==
    /\ AtTop(t, "deref")
    /\ LET w == Top(t).w
       IN IF wr[w].status = "free" THEN Abort("wrapper_gone")
          ELSE /\ UNCHANGED <<qt, map, qwm, fault>>
               /\ \/ /\ wr[w].refs > 1
                     /\ wr' = [wr EXCEPT ![w].refs = @ - 1]
                     /\ UNCHANGED pd /\ Return(t)
                  \/ /\ wr[w].refs <= 1 /\ wr[w].status = "ok"
                     /\ deleteBlocker(w)
                     /\ wr' = [wr EXCEPT ![w].refs =
                                   IF pd[w].obj_ref THEN 0 ELSE 1]
                     /\ pd' = [pd EXCEPT ![w].obj_ref = TRUE]
                     /\ Return(t)
                  \/ /\ wr[w].refs <= 1 /\ wr[w].status = "ok"
                     /\ ~deleteBlocker(w)
                     /\ wr' = [wr EXCEPT ![w] = Wr("deleting", 1, @.held)]
                     /\ UNCHANGED pd /\ Calls(t, DestructorFrames(w))
                  \/ /\ wr[w].refs <= 1 /\ wr[w].status # "ok"
                     /\ wr' = [wr EXCEPT ![w] = NoWr]
                     /\ UNCHANGED pd /\ Return(t)

\* the body of a destructor written in Qore ends
UserDtorEnd(t) ==
    /\ AtTop(t, "userDtor")
    /\ Return(t)
    /\ UNCHANGED <<qt, wr, pd, map, qwm, fault>>

\* mistake: the status from before the destructor is restored
EndDeleteResets(t) ==
    /\ AtTop(t, "endDelete")
    /\ wr' = [wr EXCEPT ![Top(t).w].status = "ok"]
    /\ Calls(t, <<WFrame("deref", Top(t).w)>>)
    /\ UNCHANGED <<qt, pd, map, qwm, fault>>

\* the object is marked deleted and the temporary reference given back
EndDelete(t) ==
    /\ AtTop(t, "endDelete")
    /\ wr' = [wr EXCEPT ![Top(t).w].status = "deleted"]
    /\ Calls(t, <<WFrame("deref", Top(t).w)>>)
    /\ UNCHANGED <<qt, pd, map, qwm, fault>>

-----------------------------------------------------------------------------
(* Private data *)

\* mistake: remove() does not look at done
QwmRemoveAlways(a) == [qwm EXCEPT !.set = @ \ {a}]

\* QoreWidgetManager::add and ::remove
QwmAdd(a) == [qwm EXCEPT !.set = @ \cup {a}]
QwmRemove(a) == IF qwm.done THEN qwm ELSE [qwm EXCEPT !.set = @ \ {a}]

\* a window: a parentless widget that is not the desktop
IsWindow(kind, parent) == kind = "widget" /\ parent = None

\* The constructors of the private data classes: register a widget without
\* parent with QWM, then the object with the map.
PrivateFault(a, kind, parent) ==
    IF IsWindow(kind, parent) /\ qwm.done THEN "qwm_add"
    ELSE IF map[a] # None THEN "map_add" ELSE None

NewPrivate(w, a, kind, parent, eo) ==
    /\ wr' = [wr EXCEPT ![w] = Wr("ok", 1, 1)]
    /\ pd' = [pd EXCEPT ![w] = [refs |-> 1, attached |-> TRUE,
                                is_qobject |-> kind # "plain", obj |-> a,
                                eo |-> eo, obj_ref |-> FALSE]]
    /\ map' = [map EXCEPT ![a] = w]
    /\ qwm' = IF IsWindow(kind, parent) THEN QwmAdd(a) ELSE qwm

\* memory for a new wrapper
FreeWrap(w) == wr[w].status = "free" /\ pd[w].refs = 0

\* clear(), up to the lock of the map: the QObject class asserts that the
\* object is still there and takes a widget off QWM.  (Widgets belong to the
\* thread of Qt: their part of QWM needs no step of its own.)
ClearFault(w) ==
    IF pd[w].obj = None /\ pd[w].is_qobject THEN "clear_null" ELSE None
\* mistake: the window is left behind
ClearKeepsWindow(w) == UNCHANGED qwm
ClearWindow(w) ==
    LET a == pd[w].obj
    IN  qwm' = IF a # None /\ isWidget(a) THEN QwmRemove(a) ELSE qwm

\* clear(), under the lock of the map: the object is taken off it
DelFault(w) ==
    LET a == pd[w].obj
    IN  IF a = None THEN IF pd[w].is_qobject THEN "map_del" ELSE None
        ELSE IF map[a] = None THEN "map_del" ELSE None
AtDel(t) == fault = None /\ Running(t) /\ Top(t).op \in DelOps
\* mistake: the entry of the map is left behind
MapDelKeepsEntry(t) ==
    /\ AtDel(t)
    /\ Calls(t, <<[Top(t) EXCEPT !.op = EndOf(@)]>>)
    /\ UNCHANGED <<qt, wr, pd, map, qwm, fault>>
MapDel(t) ==
    /\ AtDel(t)
    /\ LET w == Top(t).w
       IN IF DelFault(w) # None THEN Abort(DelFault(w))
          ELSE /\ map' = IF pd[w].obj = None THEN map
                         ELSE [map EXCEPT ![pd[w].obj] = None]
               /\ Calls(t, <<[Top(t) EXCEPT !.op = EndOf(@)]>>)
               /\ UNCHANGED <<qt, wr, pd, qwm, fault>>

\* clear(), after the lock of the map
\* mistake: the pointer is left behind
ResetKeepsPointer(w) == UNCHANGED pd
Reset(w) == pd' = [pd EXCEPT ![w].obj = None]

\* The private data loses a reference; with the last one its destructor runs.
\* The object is still there only if the Qore object is being obliterated.
PdDeref(t) ==
    /\ AtTop(t, "pdDeref")
    /\ LET w == Top(t).w
           a == pd[w].obj
       IN IF pd[w].refs > 1
          THEN /\ pd' = [pd EXCEPT ![w].refs = @ - 1]
               /\ Return(t)
               /\ UNCHANGED <<qt, wr, map, qwm, fault>>
          ELSE IF pd[w].obj_ref THEN Abort("obj_ref")
          ELSE IF a # None /\ pd[w].is_qobject /\ map[a] = None
          THEN Abort("map_del")
          ELSE /\ pd' = [pd EXCEPT ![w] = NoPd]
               /\ map' = IF a # None /\ pd[w].is_qobject
                         THEN [map EXCEPT ![a] = None] ELSE map
               /\ Calls(t, IF a # None /\ ~pd[w].eo /\
                              (pd[w].is_qobject => qt[a].parent = None)
                           THEN <<AFrame("qtDestroy", a)>> ELSE <<>>)
               /\ UNCHANGED <<qt, wr, qwm, fault>>

\* mistake: the flag is reset and the reference forgotten
ObjRefDropNoDeref(t) ==
    /\ AtTop(t, "objRefDrop")
    /\ pd' = [pd EXCEPT ![Top(t).w].obj_ref = FALSE]
    /\ Return(t)
    /\ UNCHANGED <<qt, wr, map, qwm, fault>>

\* if (obj_ref) { obj_ref = false; obj->deref(); }
ObjRefDrop(t) ==
    /\ AtTop(t, "objRefDrop")
    /\ LET w == Top(t).w
       IN /\ pd' = [pd EXCEPT ![w].obj_ref = FALSE]
          /\ Calls(t, IF pd[w].obj_ref THEN <<WFrame("deref", w)>> ELSE <<>>)
    /\ UNCHANGED <<qt, wr, map, qwm, fault>>

-----------------------------------------------------------------------------
(* common_destructor: the builtin destructor of a Qore object *)

CommonDestructor(t) ==
    /\ AtTop(t, "commonDtor")
    /\ LET w == Top(t).w
           a == pd[w].obj
           release == WFrame("pdDeref", w)
       IN \/ /\ ~pd[w].attached
             /\ Return(t)
             /\ UNCHANGED <<qt, wr, pd, map, qwm, fault>>
          \/ /\ pd[w].attached /\ a = None
             /\ pd' = [pd EXCEPT ![w].attached = FALSE]
             /\ Calls(t, <<release>>)
             /\ UNCHANGED <<qt, wr, map, qwm, fault>>
          \/ /\ pd[w].attached /\ a # None /\ qt[a].kind = "app"
             /\ IF qwm.done THEN Abort("qwm_deleteAll")
                ELSE /\ qwm' = [qwm EXCEPT !.done = TRUE]
                     /\ pd' = [pd EXCEPT ![w].attached = FALSE]
                     /\ Calls(t, <<LoopFrame(qwm.set),
                                   RestFrame("dtorRest", a, w), release>>)
                     /\ UNCHANGED <<qt, wr, map, fault>>
          \/ /\ pd[w].attached /\ a # None /\ qt[a].kind # "app"
             /\ pd' = [pd EXCEPT ![w].attached = FALSE]
             /\ Calls(t, <<RestFrame("dtorRest", a, w), release>>)
             /\ UNCHANGED <<qt, wr, map, qwm, fault>>

\* QoreWidgetManager::deleteAll: one window of the set, in any order
DeleteAll(t) ==
    /\ AtTop(t, "deleteAll")
    /\ IF Top(t).s = {}
       THEN Return(t) /\ UNCHANGED <<qt, wr, pd, map, qwm, fault>>
       ELSE \E a \in Top(t).s :
              LET more == LoopFrame(Top(t).s \ {a})
              IN IF qt[a].state = "free" THEN Abort("deleteAll_dangling")
                 ELSE /\ Calls(t, IF qt[a].parent = None
                                  THEN <<AFrame("qtDestroy", a), more>>
                                  ELSE <<more>>)
                      /\ UNCHANGED <<qt, wr, pd, map, qwm, fault>>

\* mistake: an externally owned object is left alone and its entry as well
DtorRestKeepsEntry(t) ==
    /\ AtTop(t, "dtorRest")
    /\ LET w == Top(t).w
           way == IF pd[w].is_qobject /\ qt[Top(t).a].parent # None THEN "keepDel"
                  ELSE IF pd[w].eo THEN "dropEnd" ELSE "takeDel"
       IN Calls(t, <<RestFrame(way, Top(t).a, w)>>)
    /\ UNCHANGED <<qt, wr, pd, map, qwm, fault>>

\* An object with a parent is left to it; one that is externally owned is only
\* forgotten; the others are deleted through the smoke destructor.
DtorRest(t) ==
    /\ AtTop(t, "dtorRest")
    /\ LET w == Top(t).w
           a == Top(t).a
           way == IF pd[w].is_qobject /\ qt[a].parent # None THEN "keepDel"
                  ELSE IF pd[w].eo THEN "dropDel" ELSE "takeDel"
       IN IF pd[w].is_qobject /\ qt[a].state = "free" THEN Abort("dangling_qt")
          ELSE IF ClearFault(w) # None THEN Abort(ClearFault(w))
          ELSE /\ ClearWindow(w)
               /\ Calls(t, <<RestFrame(way, a, w)>>)
               /\ UNCHANGED <<qt, wr, pd, map, fault>>

\* the end of clear(), then that of takeObjectForDelete()
DtorRestEnd(t) ==
    /\ fault = None /\ Running(t) /\ Top(t).op \in RestEndOps
    /\ LET w == Top(t).w
           drop == WFrame("objRefDrop", w)
       IN /\ Reset(w)
          /\ Calls(t, CASE Top(t).op = "keepEnd" -> <<>>
                        [] Top(t).op = "dropEnd" -> <<drop>>
                        [] Top(t).op = "takeEnd" ->
                              <<drop, AFrame("qtDestroy", Top(t).a)>>)
    /\ UNCHANGED <<qt, wr, map, qwm, fault>>

-----------------------------------------------------------------------------
(* The Qt side: destructors and the callback of the smoke binding *)

\* ~x_Class() calls QoreSmokeBinding::deleted() if the object was made
\* through smoke, then the destructors of the Qt classes run.
QtDestroy(t) ==
    /\ AtTop(t, "qtDestroy")
    /\ LET a == Top(t).a
       IN IF ~Live(a) THEN Abort("double_free")
          ELSE /\ qt' = [qt EXCEPT ![a].state = "dying"]
               /\ Calls(t, IF qt[a].bound
                           THEN <<AFrame("deleted", a), AFrame("qtFree", a)>>
                           ELSE <<AFrame("qtFree", a)>>)
               /\ UNCHANGED <<wr, pd, map, qwm, fault>>

\* ~QObject(): the QPointers to it become null, its children are deleted one
\* after the other, then the memory is free.
QtFree(t) ==
    /\ AtTop(t, "qtFree")
    /\ LET a == Top(t).a
       IN /\ pd' = [w \in Wrap |-> IF pd[w].obj = a /\ pd[w].is_qobject
                                   THEN [pd[w] EXCEPT !.obj = None]
                                   ELSE pd[w]]
          /\ \/ \E c \in Children(a) :
                  /\ Enter(t, <<AFrame("qtDestroy", c)>>)
                  /\ UNCHANGED qt
             \/ /\ Children(a) = {}
                /\ qt' = [qt EXCEPT ![a] = NoQt]
                /\ Return(t)
          /\ UNCHANGED <<wr, map, qwm, fault>>

\* QoreSmokeBinding::deleted(): the lookup, under the lock of the map
Deleted(t) ==
    /\ AtTop(t, "deleted")
    /\ LET w == map[Top(t).a]
       IN Calls(t, IF w = None THEN <<>> ELSE <<WFrame("hold", w)>>)
    /\ UNCHANGED <<qt, wr, pd, map, qwm, fault>>

\* The private data is referenced, under the lock of the object, and the
\* wrapper told.  Without private data QoreObject::externalDelete() has nothing
\* left to do.
Hold(t) ==
    /\ AtTop(t, "hold")
    /\ LET w == Top(t).w
       IN IF wr[w].status = "free" THEN Abort("wrapper_gone")
          ELSE /\ \/ /\ pd[w].attached
                     /\ pd' = [pd EXCEPT ![w].refs = @ + 1]
                     /\ Calls(t, <<WFrame("externalDelete", w),
                                   WFrame("pdDeref", w)>>)
                  \/ /\ ~pd[w].attached
                     /\ Return(t)
                     /\ UNCHANGED pd
               /\ UNCHANGED <<qt, wr, map, qwm, fault>>

\* externalDelete() of both private data classes
ExternalDelete(t) ==
    /\ AtTop(t, "externalDelete")
    /\ LET w == Top(t).w
       IN IF ClearFault(w) # None THEN Abort(ClearFault(w))
          ELSE /\ ClearWindow(w)
               /\ Calls(t, <<WFrame(IF pd[w].obj # None THEN "externalDel"
                                    ELSE "objRefDrop", w)>>)
               /\ UNCHANGED <<qt, wr, pd, map, fault>>

\* the object is cleared: now the wrapper is destroyed, if it still stands
ExternalDeleteEnd(t) ==
    /\ AtTop(t, "externalEnd")
    /\ LET w == Top(t).w
           drop == WFrame("objRefDrop", w)
       IN IF wr[w].status = "free" THEN Abort("wrapper_gone")
          ELSE /\ Reset(w)
               /\ IF wr[w].status = "ok"
                  THEN /\ wr' = [wr EXCEPT ![w] =
                                     Wr("deleting", @.refs + 1, @.held)]
                       /\ Calls(t, Append(DestructorFrames(w), drop))
                  ELSE UNCHANGED wr /\ Calls(t, <<drop>>)
               /\ UNCHANGED <<qt, map, qwm, fault>>

-----------------------------------------------------------------------------
(* Qt makes, moves and deletes objects by itself *)

AppAlive == "app" \in Kinds => \E a \in Addr : Live(a) /\ qt[a].kind = "app"
ParentOk(kind, p) ==
    p # None => /\ kind \in {"object", "widget"} /\ Live(p) /\ isQObject(p)
                /\ kind = "widget" => qt[p].kind = "widget"
NewQt(kind, bound, taken, p) ==
    [state |-> "live", kind |-> kind, bound |-> bound, taken |-> taken,
     parent |-> p]
CanMake(a, kind, p) ==
    /\ kind \in Kinds /\ qt[a].state = "free" /\ ParentOk(kind, p)
    /\ kind \in {"widget", "desktop"} => AppAlive
    /\ kind = "app" => ~\E b \in Addr : qt[b].kind = "app"

\* an object that the Qt library allocates for itself
QtCreate(t, a, kind, p) ==
    /\ UserCode(t) /\ QtMakes /\ kind # "app" /\ CanMake(a, kind, p)
    /\ qt' = [qt EXCEPT ![a] = NewQt(kind, FALSE, TRUE, p)]
    /\ UNCHANGED <<wr, pd, map, qwm, stack, fault>>

\* Layouts, splitters and dialogs move widgets: no handler of the module runs.
\* The new parent is a root of the object tree, which stays a tree.
QtReparent(t, a, p) ==
    /\ UserCode(t) /\ Live(a) /\ p # a
    /\ qt[a].kind \in {"object", "widget"} /\ ParentOk(qt[a].kind, p)
    /\ p # None => qt[p].parent = None
    /\ qt' = [qt EXCEPT ![a].parent = p]
    /\ UNCHANGED <<wr, pd, map, qwm, stack, fault>>

\* deleteLater(), an owner that deletes its items, the event loop.  An object
\* outside QObject is deleted only by the Qt object that took it over; nothing
\* above an object that is being deleted is deleted by Qt.
QtDelete(t, a) ==
    /\ UserCode(t) /\ Live(a) /\ qt[a].kind \notin {"app", "desktop"}
    /\ isQObject(a) \/ qt[a].taken
    /\ \A c \in Addr : Dying(c) => a \notin Ancestors(c)
    /\ Enter(t, <<AFrame("qtDestroy", a)>>)
    /\ UNCHANGED <<qt, wr, pd, map, qwm, fault>>

-----------------------------------------------------------------------------
(* What a Qore program does *)

UnderConstruction(w) ==
    \E t \in Thread : \E i \in DOMAIN stack[t] :
        stack[t][i].op = "ctorBody" /\ stack[t][i].w = w
Usable(w) == wr[w].held > 0 /\ wr[w].status = "ok" /\ pd[w].attached

\* common_constructor, called from the constructor of a class written in Qore
CommonConstructor(t, a, w, kind, p) ==
    /\ UserCode(t) /\ kind # "desktop" /\ CanMake(a, kind, p) /\ FreeWrap(w)
    /\ IF PrivateFault(a, kind, p) # None THEN Abort(PrivateFault(a, kind, p))
       ELSE /\ NewPrivate(w, a, kind, p, FALSE)
            /\ qt' = [qt EXCEPT ![a] = NewQt(kind, TRUE, FALSE, p)]
            /\ Enter(t, <<WFrame("ctorBody", w)>>)
            /\ UNCHANGED fault

ConstructorReturns(t) ==
    /\ AtTop(t, "ctorBody")
    /\ Return(t)
    /\ UNCHANGED <<qt, wr, pd, map, qwm, fault>>

\* The derived constructor raises an exception: if nobody else refers to the
\* object it is obliterated, its private data dropped without a destructor.
ConstructorThrows(t) ==
    /\ AtTop(t, "ctorBody") /\ MayThrow
    /\ LET w == Top(t).w
       IN IF wr[w].refs = 1 /\ wr[w].status = "ok"
          THEN /\ wr' = [wr EXCEPT ![w] = Wr("deleted", @.refs, 0)]
               /\ pd' = [pd EXCEPT ![w].attached = FALSE]
               /\ Calls(t, IF pd[w].attached
                           THEN <<WFrame("pdDeref", w), WFrame("deref", w)>>
                           ELSE <<WFrame("deref", w)>>)
          ELSE /\ wr' = [wr EXCEPT ![w].held = @ - 1]
               /\ Calls(t, <<WFrame("deref", w)>>)
               /\ UNCHANGED pd
    /\ UNCHANGED <<qt, map, qwm, fault>>

\* a variable that held the wrapper goes out of scope
Release(t, w) ==
    /\ UserCode(t)
    /\ wr[w].held > IF UnderConstruction(w) THEN 1 ELSE 0
    /\ wr' = [wr EXCEPT ![w].held = @ - 1]
    /\ Enter(t, <<WFrame("deref", w)>>)
    /\ UNCHANGED <<qt, pd, map, qwm, fault>>

\* the delete operator
Delete(t, w) ==
    /\ UserCode(t)
    /\ wr[w].held > 0 /\ wr[w].status = "ok" /\ ~UnderConstruction(w)
    /\ wr' = [wr EXCEPT ![w] = Wr("deleting", @.refs + 1, @.held)]
    /\ Enter(t, DestructorFrames(w))
    /\ UNCHANGED <<qt, pd, map, qwm, fault>>

\* The wrapper is passed to a method that takes over its object (an item view,
\* a layout, a scene), or a constructor with an owner argument is processed.
SetExternallyOwned(t, w) ==
    /\ UserCode(t) /\ Usable(w) /\ pd[w].obj # None
    /\ ~pd[w].eo /\ qt[pd[w].obj].kind # "app"
    /\ pd' = [pd EXCEPT ![w].eo = TRUE]
    /\ qt' = [qt EXCEPT ![pd[w].obj].taken = TRUE]
    /\ UNCHANGED <<wr, map, qwm, stack, fault>>

\* A Qore method returns an object by value to Qt and holds the only reference:
\* the private data gives the object up, then the value is discarded.  (Classes
\* whose objects are taken over by other objects cannot be passed by value.)
ReturnToQt(t, w) ==
    /\ UserCode(t) /\ Usable(w) /\ pd[w].obj # None /\ ~pd[w].is_qobject
    /\ wr[w].refs = 1 /\ ~qt[pd[w].obj].taken /\ ~UnderConstruction(w)
    /\ wr' = [wr EXCEPT ![w].held = @ - 1]
    /\ pd' = [pd EXCEPT ![w].refs = @ + 1]
    /\ Enter(t, <<WFrame("returnDel", w), WFrame("pdDeref", w),
                  WFrame("deref", w)>>)
    /\ UNCHANGED <<qt, map, qwm, fault>>

ReturnToQtEnd(t) ==
    /\ AtTop(t, "returnEnd")
    /\ LET w == Top(t).w
       IN /\ Reset(w)
          /\ qt' = IF pd[w].obj = None THEN qt
                   ELSE [qt EXCEPT ![pd[w].obj].taken = TRUE]
    /\ Return(t)
    /\ UNCHANGED <<wr, map, qwm, fault>>

\* QWidget::setParent() and its return value handler
SetParent(t, w, p) ==
    /\ UserCode(t) /\ Usable(w) /\ pd[w].obj # None
    /\ LET a == pd[w].obj
       IN /\ qt[a].kind = "widget" /\ Live(a) /\ p # a /\ ParentOk("widget", p)
          /\ p # None => qt[p].parent = None
          /\ IF p = None /\ qwm.done THEN Abort("qwm_add")
             ELSE /\ qt' = [qt EXCEPT ![a].parent = p]
                  /\ qwm' = IF p = None THEN QwmAdd(a) ELSE QwmRemove(a)
                  /\ UNCHANGED <<wr, pd, map, stack, fault>>

\* mistake: the private data is used without a reference
CommonMethodNoRef(t, w) ==
    /\ UserCode(t) /\ Usable(w) /\ pd[w].obj # None
    /\ Enter(t, <<WFrame("methodCall", w), WFrame("pdDeref", w)>>)
    /\ UNCHANGED <<qt, wr, pd, map, qwm, fault>>

\* common_method: the test for the object, then the call of it
CommonMethod(t, w) ==
    /\ UserCode(t) /\ Usable(w) /\ pd[w].obj # None
    /\ pd' = [pd EXCEPT ![w].refs = @ + 1]
    /\ Enter(t, <<WFrame("methodCall", w), WFrame("pdDeref", w)>>)
    /\ UNCHANGED <<qt, wr, map, qwm, fault>>

MethodCall(t) ==
    /\ AtTop(t, "methodCall")
    /\ LET a == pd[Top(t).w].obj
       IN IF a = None THEN Abort("null_this")
          ELSE IF qt[a].state = "free" THEN Abort("dangling_this")
          ELSE Return(t) /\ UNCHANGED <<qt, wr, pd, map, qwm, fault>>

-----------------------------------------------------------------------------
(* Marshalling::stackToQore: a Qt object is handed to Qore *)

\* mistake: the result of the lookup is not tested
LookupUnchecked(a, miss) == WFrame("mapHit", map[a])

\* the lookup in the map, and what follows if there is no wrapper
Lookup(a, miss) ==
    IF map[a] # None THEN WFrame("mapHit", map[a]) ELSE AFrame(miss, a)
CanHold(a) == map[a] # None => wr[map[a]].held < MaxHeld

\* an object returned by pointer or reference; const or not
ReturnObject(t, a, const) ==
    /\ UserCode(t) /\ Live(a) /\ CanHold(a)
    /\ Enter(t, <<Lookup(a, IF ~const THEN "mapMiss"
                            ELSE IF isQObject(a) THEN "mapMissOwned"
                            ELSE "mapMissCopy")>>)
    /\ UNCHANGED <<qt, wr, pd, map, qwm, fault>>

\* an object returned by value: smoke allocates a copy
ReturnByValue(t, a) ==
    /\ UserCode(t) /\ QtMakes /\ CanMake(a, "plain", None) /\ CanHold(a)
    /\ qt' = [qt EXCEPT ![a] = NewQt("plain", FALSE, FALSE, None)]
    /\ Enter(t, <<Lookup(a, "mapMissOwned")>>)
    /\ UNCHANGED <<wr, pd, map, qwm, fault>>

\* mistake: the object is returned without a reference
MapHitNoRef(t) ==
    /\ AtTop(t, "mapHit") /\ wr[Top(t).w].status # "free"
    /\ wr' = [wr EXCEPT ![Top(t).w].held = @ + 1]
    /\ Return(t)
    /\ UNCHANGED <<qt, pd, map, qwm, fault>>

\* o->ref() on the pointer found in the map
MapHit(t) ==
    /\ AtTop(t, "mapHit")
    /\ LET w == Top(t).w
       IN IF wr[w].status = "free" THEN Abort("wrapper_gone")
          ELSE /\ wr' = [wr EXCEPT ![w] = Wr(@.status, @.refs + 1, @.held + 1)]
               /\ Return(t)
               /\ UNCHANGED <<qt, pd, map, qwm, fault>>

\* doQObject() and createQoreObjectFromNonQObject()
MapMiss(t, w) ==
    /\ (AtTop(t, "mapMiss") \/ AtTop(t, "mapMissOwned")) /\ FreeWrap(w)
    /\ LET a == Top(t).a
           f == PrivateFault(a, qt[a].kind, qt[a].parent)
       IN IF qt[a].state = "free" THEN Abort("dangling_qt")
          ELSE IF f # None THEN Abort(f)
          ELSE /\ NewPrivate(w, a, qt[a].kind, qt[a].parent,
                             Top(t).op = "mapMiss")
               /\ Return(t)
               /\ UNCHANGED <<qt, fault>>

\* constructCopy(): the wrapper owns a copy of a const object
MapMissCopy(t, w, b) ==
    /\ AtTop(t, "mapMissCopy") /\ FreeWrap(w) /\ qt[b].state = "free"
    /\ IF qt[Top(t).a].state = "free" THEN Abort("dangling_qt")
       ELSE IF map[b] # None THEN Abort("map_add")
       ELSE /\ NewPrivate(w, b, "plain", None, FALSE)
            /\ qt' = [qt EXCEPT ![b] = NewQt("plain", TRUE, FALSE, None)]
            /\ Return(t)
            /\ UNCHANGED fault

\* no memory is left in the small instance: the call returns nothing
OutOfMemory(t) ==
    /\ \/ AtTop(t, "mapMiss") \/ AtTop(t, "mapMissOwned")
       \/ AtTop(t, "mapMissCopy")
    /\ \/ ~\E w \in Wrap : FreeWrap(w)
       \/ AtTop(t, "mapMissCopy") /\ ~\E b \in Addr : qt[b].state = "free"
    /\ Return(t)
    /\ UNCHANGED <<qt, wr, pd, map, qwm, fault>>

-----------------------------------------------------------------------------
\* what a thread does once a call is under way
Unwind(t) ==
    \/ ConstructorReturns(t) \/ ConstructorThrows(t) \/ UserDtorEnd(t)
    \/ Deref(t) \/ EndDelete(t) \/ PdDeref(t) \/ ObjRefDrop(t)
    \/ CommonDestructor(t) \/ DeleteAll(t) \/ DtorRest(t) \/ DtorRestEnd(t)
    \/ QtDestroy(t) \/ QtFree(t) \/ Deleted(t) \/ Hold(t)
    \/ ExternalDelete(t) \/ ExternalDeleteEnd(t) \/ ReturnToQtEnd(t)
    \/ MapDel(t)
    \/ MethodCall(t) \/ MapHit(t) \/ OutOfMemory(t)
    \/ \E w \in Wrap : MapMiss(t, w)
    \/ \E w \in Wrap, b \in Addr : MapMissCopy(t, w, b)

QtActs(t) ==
    \E a \in Addr :
        \/ QtDelete(t, a)
        \/ \E p \in Addr \cup {None} :
              \/ QtReparent(t, a, p)
              \/ \E kind \in Kinds : QtCreate(t, a, kind, p)

ProgramActs(t) ==
    \/ \E w \in Wrap :
          \/ Release(t, w) \/ Delete(t, w) \/ SetExternallyOwned(t, w)
          \/ CommonMethod(t, w) \/ ReturnToQt(t, w)
          \/ \E p \in Addr \cup {None} :
                \/ SetParent(t, w, p)
                \/ \E a \in Addr, kind \in Kinds :
                      CommonConstructor(t, a, w, kind, p)
    \/ \E a \in Addr :
          \/ ReturnByValue(t, a)
          \/ \E const \in BOOLEAN : ReturnObject(t, a, const)

Next == \/ QtActs(GuiThread)
        \/ \E t \in Thread : Unwind(t) \/ ProgramActs(t)

Spec == Init /\ [][Next]_vars

\* a thread that is inside a call goes on with it
FairSpec == Spec /\ \A t \in Thread : WF_vars(Unwind(t))
-----------------------------------------------------------------------------
(* Properties *)

QtRecord == [state : {"free", "live", "dying"}, kind : KindSet,
             bound : BOOLEAN, taken : BOOLEAN, parent : Addr \cup {None}]
WrRecord == [status : {"free", "ok", "deleting", "deleted"},
             refs : Int, held : Int]
PdRecord == [refs : Int, attached : BOOLEAN, is_qobject : BOOLEAN,
             obj : Addr \cup {None}, eo : BOOLEAN, obj_ref : BOOLEAN]

\* Every variable has its type.
TypeOK ==
    /\ qt \in [Addr -> QtRecord]
    /\ wr \in [Wrap -> WrRecord]
    /\ pd \in [Wrap -> PdRecord]
    /\ map \in [Addr -> Wrap \cup {None}]
    /\ qwm \in [set : SUBSET Addr, done : BOOLEAN]
    /\ stack \in [Thread -> Seq(Frame)]
    /\ fault \in Faults \cup {None}

\* clear() has taken the object of w off the map and not reset the pointer yet
Clearing(w) ==
    \E t \in Thread : Running(t) /\ Top(t).op \in EndOps /\ Top(t).w = w

\* Private data that points to a Qt object is registered in qt_qore_map under
\* that object, so that the destructor of the object finds it, until clear()
\* forgets both.
MapComplete ==
    \A w \in Wrap :
        pd[w].obj # None => map[pd[w].obj] = w \/ Clearing(w)

\* A QObject made by a constructor called from Qore is never found, while it
\* lives, under a wrapper that stands for something else.
QObjectIdentity ==
    \A a \in Addr :
        Live(a) /\ qt[a].bound /\ isQObject(a) /\ map[a] # None =>
            pd[map[a]].obj = a

\* Every entry of the map leads to a wrapper that stands for that object.
MapSound == \A a \in Addr : map[a] # None => pd[map[a]].obj = a

\* where the frames of a set stand: the height above the bottom of a stack
Places(frames) ==
    UNION {{<<t, Len(stack[t]) - i>> :
               i \in {j \in DOMAIN stack[t] : stack[t][j] \in frames}} : t \in Thread}

\* the references to w that calls in progress own
OwingFrames(w) == {WFrame("endDelete", w), WFrame("deref", w)}
Owed(w) == Cardinality(Places(OwingFrames(w)))

\* The count of a wrapper is what the program holds, what the calls in
\* progress own and the reference deleteBlocker() took: no reference is given
\* back twice, none is forgotten.
ReferencesAccounted ==
    \A w \in Wrap :
        wr[w].status # "free" =>
            wr[w].refs = wr[w].held + Owed(w) + (IF pd[w].obj_ref THEN 1 ELSE 0)

\* The count of private data is one for the key of its object, until the
\* destructor takes it off, and one for every call that uses it: the data is
\* neither freed under a call nor kept after the last.
PrivateReferencesAccounted ==
    \A w \in Wrap :
        pd[w].refs = (IF pd[w].attached THEN 1 ELSE 0)
                     + Cardinality(Places({WFrame("pdDeref", w)}))

\* The Qt object that private data points to has not been freed: whoever
\* deletes it, and in whatever order, the wrapper hears of it in time.
NoDanglingPrivate ==
    \A w \in Wrap : LET a == pd[w].obj IN
        a # None => qt[a].state # "free"

\* No object is deleted twice, no freed Qt object or wrapper is used, no method
\* is called on a null pointer.
MemorySafe ==
    fault \notin {"double_free", "dangling_qt", "wrapper_gone",
                  "null_this", "dangling_this"}

\* The assertions of the map and of clear() never fail.
MapAssertions == fault \notin {"map_add", "map_del", "clear_null"}

\* del() is never asked to remove what the map does not contain.
DelAssertion == fault # "map_del"

\* The widgets QWM will delete with the application have not been freed.
NoDanglingWindow ==
    ~qwm.done => \A a \in qwm.set : qt[a].state # "free"

\* Once the application is being deleted the set deleteAll() iterates over
\* does not change.
DoneFreezesWindows == [][qwm.done => qwm' = qwm]_vars

\* the object of w is being passed to Qt by value
Returned(w) ==
    \E t \in Thread : Running(t) /\ Top(t) = WFrame("returnDel", w)

\* An entry leaves the map only if its Qt object is being deleted or passed to
\* Qt by value, or its wrapper destroyed; it is never redirected to another
\* wrapper.
EntryKept ==
    [][\A a \in Addr :
         map[a] # None /\ map'[a] # map[a] =>
            /\ map'[a] = None
            /\ Dying(a) \/ Returned(map[a]) \/ wr[map[a]].status # "ok"]_vars

\* Every nest of destructors and callbacks comes to its end.
Unwinds ==
    \A t \in Thread : stack[t] # <<>> ~> (stack[t] = <<>> \/ fault # None)

\* A wrapper that lost its object and that nobody holds is freed.
WrapperReclaimed ==
    \A w \in Wrap :
        (wr[w].status # "free" /\ wr[w].held = 0 /\ pd[w].obj = None)
            ~> (wr[w].status = "free" \/ fault # None)

-----------------------------------------------------------------------------
(* What comments and assertions of the code promise and the code does not
   keep: the runs that check these are expected to fail. *)

\* assert(!obj_ref) in ~QoreSmokePrivate(): the reference that deleteBlocker()
\* took has been given back before the private data is destroyed.
ObjRefAssertion == fault # "obj_ref"

\* assert(!contains(qto)) in QtQoreMap::add(): an address that is entered in
\* the map has no entry.
AddAssertion == fault # "map_add"

\* The windows are deleted before the application: when the destructor of the
\* application runs, no widget is left.
WindowsGoFirst ==
    \A a, b \in Addr :
        qt[a].kind = "app" /\ Dying(a) => ~(Live(b) /\ qt[b].kind = "widget")
=============================================================================
