--------------------------- MODULE DynamicSignals ---------------------------
(***************************************************************************)
(* Signals and slots written in Qore: the table of dynamic methods that    *)
(* the private data of a QObject keeps (qoresmokeclass.h), the entry       *)
(* points connect(), createSignal() and emit() (qoresmokeclass.cpp), and   *)
(* the way of a call through qt_metacall() (qoresmokebinding.cpp).         *)
(*                                                                         *)
(* Qt knows a method by its index only.  The methods of the Qt class come  *)
(* first; what Qore adds follows them, in the order in which it was added. *)
(* A connection outlives the table when the Qore object goes and the Qt    *)
(* object stays with its parent.                                           *)
(*                                                                         *)
(* The thread of the event loop has a stack, the running call first: an    *)
(* emission with the connections it has still to serve, a slot, or a       *)
(* destructor.  Other threads post what they emit to the event loop.       *)
(***************************************************************************)
EXTENDS Integers, Sequences, FiniteSets

CONSTANTS
    Object,        \* the QObjects of the program
    Bound,         \* those made by a constructor called from Qore
    Name,          \* normalized signatures
    Static,        \* the methods of the Qt class: members, in order
    Methods,       \* the signatures whose method a Qore class has, by object
    Compatible,    \* pairs of signatures that can be connected
    Strange,       \* signatures with a type that smoke does not know
    StaleLinks,    \* may an object get a new wrapper in spite of connections?
    MaxConnects,   \* bound on the connections made
    MaxPosted,     \* bound on the emissions of other threads
    MaxStack,      \* bound on the depth of calls (the size of the C stack)
    MaxDepth,      \* bound on the depth at which code of the program acts, with the
                   \* events that wait
    None

Member == [kind : {"signal", "slot", "method"}, name : Name]
Signal(s) == [kind |-> "signal", name |-> s]
Slot(s) == [kind |-> "slot", name |-> s]
Target == [kind : {"signal", "slot"}, name : Name]   \* for SIGNAL() and SLOT()
Method(s) == [kind |-> "method", name |-> s]
Own == {m \in Member : m.kind = "method" \/ \A i \in DOMAIN Static : Static[i] # m}

Faults == {"null_qobject", "null_receiver", "handle_signal", "overflow"}

ASSUME BoundAssumption == Bound \subseteq Object
ASSUME StaticAssumption ==
    /\ Static \in Seq(Member)
    /\ \A i \in DOMAIN Static : Static[i].kind # "method"
ASSUME MethodsAssumption ==
    /\ Methods \in [Object -> SUBSET Name]
    /\ \A o \in Object \ Bound : Methods[o] = {}
ASSUME NoneAssumption == None \notin Faults
ASSUME LimitsAssumption == MaxConnects \in Nat /\ MaxPosted \in Nat

VARIABLES
    obj,            \* the state of the objects
    methodList,     \* of the private data: the dynamic methods
    signalIndices,  \* its indices of dynamic signals, -1 if there is none
    slotIndices,    \* and of dynamic slots
    conns,          \* the connections Qt knows: its indices, and what was asked
    serial,         \* how many were made
    stack,          \* the calls of the thread of the event loop
    posted,         \* the event queue
    fault           \* what stopped the program, or None

tables == <<methodList, signalIndices, slotIndices>>
vars == <<obj, methodList, signalIndices, slotIndices, conns, serial, stack,
          posted, fault>>

\* new; alive; rewrapped: a wrapper of the class of Qt; deleting: the wrapper's
\* destructor runs; dying, clearing: the destructor of Qt, before and after
\* it told the wrapper; orphan: only the wrapper is left; forgotten: only the
\* Qt object; gone
Status == {"new", "alive", "rewrapped", "deleting", "dying", "clearing",
           "orphan", "forgotten", "gone"}
Usable(o) == obj[o] \in {"alive", "rewrapped", "deleting", "clearing", "orphan"}
HasTable(o) == Usable(o) \/ obj[o] = "dying"
NullQObject(o) == obj[o] \in {"clearing", "orphan"}
HasQt(o) == obj[o] \notin {"new", "orphan", "gone"}
\* a call of a dynamic method reaches the table
Speaks(o) == obj[o] \in {"alive", "rewrapped", "deleting", "dying"}
Reacts(o) == o \in Bound /\ Speaks(o)

NoIndices == [s \in Name |-> -1]

Init ==
    /\ obj = [o \in Object |-> "new"]
    /\ methodList = [o \in Object |-> <<>>]
    /\ signalIndices = [o \in Object |-> NoIndices]
    /\ slotIndices = [o \in Object |-> NoIndices]
    /\ conns = {} /\ serial = 0 /\ stack = <<>> /\ posted = {} /\ fault = None

-----------------------------------------------------------------------------
Frame(op, o, m, rest) == [op |-> op, o |-> o, member |-> m, rest |-> rest]
Push(f) == stack' = <<f>> \o stack
Top == Head(stack)
AtTop(op) == fault = None /\ stack # <<>> /\ Top.op = op
Abort(f) ==
    fault' = f /\ UNCHANGED <<obj, tables, conns, serial, stack, posted>>

\* code of the program runs: at the bottom, in a slot or in a destructor
UserCode ==
    /\ fault = None
    /\ Len(stack) + Cardinality(posted) < MaxDepth
    /\ stack # <<>> => Top.op \in {"slot", "destructor"}

-----------------------------------------------------------------------------
(* Indices *)

methodCount == Len(Static)
indexOf(m) ==
    IF \E i \in DOMAIN Static : Static[i] = m
    THEN (CHOOSE i \in DOMAIN Static : Static[i] = m) - 1 ELSE -1

\* a signal of the Qt class hides a dynamic one
getSignalIndex(o, s) ==
    IF indexOf(Signal(s)) >= 0 THEN indexOf(Signal(s))
    ELSE IF signalIndices[o][s] >= 0 THEN signalIndices[o][s] + methodCount
    ELSE -1

\* A slot written in Qore hides one of the Qt class; it gets a place in the
\* table when it is first connected.
NeedsSlot(o, s) ==
    slotIndices[o][s] < 0 /\ s \in Methods[o] /\ obj[o] # "rewrapped"
getSlotIndex(o, s) ==
    IF slotIndices[o][s] >= 0 THEN slotIndices[o][s] + methodCount
    ELSE IF NeedsSlot(o, s) THEN Len(methodList[o]) + methodCount
    ELSE indexOf(Slot(s))

\* the slot the program means: the one written in Qore, if there is one
Asked(o, target) ==
    IF target.kind = "slot" /\ target.name \in Methods[o] /\ obj[o] # "rewrapped"
    THEN Method(target.name) ELSE target

\* the method that an index stands for
MemberOf(o, id) ==
    IF id < methodCount THEN Static[id + 1]
    ELSE methodList[o][id - methodCount + 1]

Table(o, list, signals, slots) ==
    /\ methodList' = [methodList EXCEPT ![o] = list]
    /\ signalIndices' = [signalIndices EXCEPT ![o] = signals]
    /\ slotIndices' = [slotIndices EXCEPT ![o] = slots]
DropTable(o) == Table(o, <<>>, NoIndices, NoIndices)

\* mistake: the place is taken after the method was added
AddSlotLate(o, s) ==
    Table(o, Append(methodList[o], Method(s)), signalIndices[o],
          [slotIndices[o] EXCEPT ![s] = Len(methodList[o]) + 1])

AddSlot(o, s) ==
    Table(o, Append(methodList[o], Method(s)), signalIndices[o],
          [slotIndices[o] EXCEPT ![s] = Len(methodList[o])])

\* mistake: a signal that exists already is created again
createSignalAgain(o, s) ==
    /\ UserCode /\ Usable(o) /\ s \notin Strange
    /\ Table(o, Append(methodList[o], Signal(s)),
             [signalIndices[o] EXCEPT ![s] = Len(methodList[o])],
             slotIndices[o])
    /\ Len(methodList[o]) < 3
    /\ UNCHANGED <<obj, conns, serial, stack, posted, fault>>

createSignal(o, s) ==
    /\ UserCode /\ Usable(o)
    /\ signalIndices[o][s] < 0 /\ s \notin Strange
    /\ Table(o, Append(methodList[o], Signal(s)),
             [signalIndices[o] EXCEPT ![s] = Len(methodList[o])],
             slotIndices[o])
    /\ UNCHANGED <<obj, conns, serial, stack, posted, fault>>

-----------------------------------------------------------------------------
(* connect() *)

\* The target is looked up, and made, before the signal.
connectDynamic(o, s, p, target) ==
    LET m == target.name
        new == target.kind = "slot" /\ NeedsSlot(p, m)
        targetId == IF target.kind = "signal" THEN getSignalIndex(p, m)
                    ELSE getSlotIndex(p, m)
        signalId == getSignalIndex(o, s)
    IN  /\ <<s, m>> \in Compatible
        /\ IF NullQObject(p) THEN Abort("null_qobject")
           ELSE /\ targetId >= 0 /\ (new => m \notin Strange)
                /\ IF NullQObject(o) THEN Abort("null_qobject")
                   ELSE /\ IF new THEN AddSlot(p, m) ELSE UNCHANGED tables
                        /\ IF signalId < 0 THEN UNCHANGED <<conns, serial>>
                           ELSE /\ serial < MaxConnects
                                /\ serial' = serial + 1
                                /\ conns' = conns \cup
                                     {[n |-> serial', sender |-> o,
                                       signal |-> Signal(s), sid |-> signalId,
                                       receiver |-> p, target |-> Asked(p, target),
                                       tid |-> targetId]}
                        /\ UNCHANGED <<obj, stack, posted, fault>>

\* QObject::connect(): the sender is tested, the receiver is not.
connect(o, s, p, target) ==
    /\ UserCode /\ Usable(o)
    /\ obj[p] # "new" /\ obj[p] # "dying"
    /\ IF Usable(p) THEN connectDynamic(o, s, p, target)
       ELSE Abort("null_receiver")

-----------------------------------------------------------------------------
(* emit() and QMetaObject::activate() *)

Connected(o, id) == {c \in conns : c.sender = o /\ c.sid = id}
Activation(o, id) == Frame("activate", o, MemberOf(o, id), Connected(o, id))

emitSignal(o, s) ==
    /\ UserCode /\ Usable(o)
    /\ IF NullQObject(o) THEN Abort("null_qobject")
       ELSE /\ getSignalIndex(o, s) >= 0 /\ s \notin Strange
            /\ Push(Activation(o, getSignalIndex(o, s)))
            /\ UNCHANGED <<obj, tables, conns, serial, posted, fault>>

\* Qt emits a signal of its own class, destroyed() included.
QtEmit(o, s) ==
    /\ UserCode /\ HasQt(o) /\ indexOf(Signal(s)) >= 0
    /\ Push(Activation(o, indexOf(Signal(s))))
    /\ UNCHANGED <<obj, tables, conns, serial, posted, fault>>

\* Another thread emits: the calls are posted to the event loop.
emitFromThread(o, s) ==
    /\ fault = None /\ obj[o] \in {"alive", "rewrapped"}
    /\ getSignalIndex(o, s) >= 0
    /\ \E k \in 1..MaxPosted :
          /\ k - 1 \in {0} \cup {e.k : e \in posted}
          /\ \A e \in posted : e.k < k
          /\ posted' = posted \cup
                {[k |-> k, c |-> c] : c \in Connected(o, getSignalIndex(o, s))}
    /\ UNCHANGED <<obj, tables, conns, serial, stack, fault>>

-----------------------------------------------------------------------------
(* qt_metacall() and handleSignal() *)

\* mistakes: the index is used as it comes, or the offset is not added again
TableIndexRaw(id) == id
RelayIdLocal(i) == i

\* callMethod() takes off the methods of the Qt class, handleSignal() adds
\* them again to relay a signal.
TableIndex(id) == id - methodCount
RelayId(i) == i + methodCount

\* the frame that a call of method id of o starts, given that it is handled
Metacall(o, id) ==
    IF id < methodCount
    THEN IF Static[id + 1].kind = "signal" THEN Activation(o, id)
         ELSE Frame("builtin", o, Static[id + 1], {})
    ELSE IF ~Reacts(o) THEN Frame("builtin", o, None, {})
    ELSE LET m == methodList[o][TableIndex(id) + 1]
         IN IF m.kind = "signal" THEN Activation(o, RelayId(TableIndex(id)))
            ELSE Frame("slot", o, m, {})
MetacallFault(o, id) ==
    IF id >= methodCount /\ Reacts(o) /\ TableIndex(id) + 1 > Len(methodList[o])
    THEN "handle_signal"
    ELSE IF Len(stack) >= MaxStack THEN "overflow" ELSE None

\* the oldest connection of the emission is served
Activate ==
    /\ AtTop("activate")
    /\ \E c \in Top.rest :
          /\ \A y \in Top.rest : c.n <= y.n
          /\ LET f == MetacallFault(c.receiver, c.tid)
             IN IF f # None THEN Abort(f)
                ELSE /\ stack' = <<Metacall(c.receiver, c.tid)>>
                                   \o (<<[Top EXCEPT !.rest = @ \ {c}]>> \o Tail(stack))
                     /\ UNCHANGED <<obj, tables, conns, serial, posted, fault>>

\* the event loop runs, in a slot too
ProcessEvent ==
    /\ UserCode
    /\ \E e \in posted :
          /\ \A y \in posted : e.k < y.k \/ (e.k = y.k /\ e.c.n <= y.c.n)
          /\ LET f == MetacallFault(e.c.receiver, e.c.tid)
             IN IF f # None THEN Abort(f)
                ELSE /\ posted' = posted \ {e}
                     /\ Push(Metacall(e.c.receiver, e.c.tid))
                     /\ UNCHANGED <<obj, tables, conns, serial, fault>>

\* a call ends
Return ==
    /\ \/ AtTop("slot") \/ AtTop("builtin")
       \/ AtTop("activate") /\ Top.rest = {}
    /\ stack' = Tail(stack)
    /\ UNCHANGED <<obj, tables, conns, serial, posted, fault>>

-----------------------------------------------------------------------------
(* Objects come and go *)

Create(o) ==
    /\ UserCode /\ obj[o] = "new"
    /\ obj' = [obj EXCEPT ![o] = "alive"]
    /\ UNCHANGED <<tables, conns, serial, stack, posted, fault>>

\* Emissions skip an object that goes, and its own emissions end.
Trim(o, frames) ==
    [i \in DOMAIN frames |->
        [frames[i] EXCEPT !.rest =
            IF frames[i].o = o THEN {} ELSE {c \in @ : c.receiver # o}]]

\* ~QObject()
Disconnect(o, frames) ==
    /\ conns' = {c \in conns : c.sender # o /\ c.receiver # o}
    /\ posted' = {e \in posted : e.c.receiver # o}
    /\ stack' = Trim(o, frames)

Ending(op) == <<Frame(op, Top.o, None, {})>> \o Tail(stack)

\* the delete operator: the destructor written in Qore runs first
Delete(o) ==
    /\ UserCode /\ obj[o] \in {"alive", "rewrapped"}
    /\ obj' = [obj EXCEPT ![o] = "deleting"]
    /\ Push(Frame("destructor", o, None, {}))
    /\ UNCHANGED <<tables, conns, serial, posted, fault>>

\* Qt deletes the object.
QtDelete(o) ==
    /\ UserCode /\ obj[o] \in {"alive", "rewrapped"} /\ o \in Bound
    /\ obj' = [obj EXCEPT ![o] = "dying"]
    /\ Push(Frame("deleted", o, None, {}))
    /\ UNCHANGED <<tables, conns, serial, posted, fault>>

\* the callback: the pointer is cleared, then the destructor runs
Deleted ==
    /\ AtTop("deleted")
    /\ obj' = [obj EXCEPT ![Top.o] = "clearing"]
    /\ stack' = Ending("destructor")
    /\ UNCHANGED <<tables, conns, serial, posted, fault>>

\* The destructor ends: the Qt object goes with the wrapper, or it stays with
\* its parent.
DestructorEnds ==
    /\ AtTop("destructor")
    /\ LET o == Top.o
       IN /\ DropTable(o)
          /\ \/ /\ obj' = [obj EXCEPT ![o] = "gone"]
                /\ Disconnect(o, Ending("builtin"))
             \/ /\ obj[o] = "deleting"
                /\ obj' = [obj EXCEPT ![o] = "forgotten"]
                /\ stack' = Ending("builtin")
                /\ UNCHANGED <<conns, posted>>
    /\ UNCHANGED <<serial, fault>>

\* Qt deletes an object that tells nobody: one it made, or one without wrapper.
QtDeleteSilently(o) ==
    /\ UserCode
    /\ \/ /\ obj[o] \in {"alive", "rewrapped"} /\ o \notin Bound
          /\ obj' = [obj EXCEPT ![o] = "orphan"]
       \/ /\ obj[o] = "forgotten"
          /\ obj' = [obj EXCEPT ![o] = "gone"]
    /\ Disconnect(o, stack)
    /\ UNCHANGED <<tables, serial, fault>>

DropOrphan(o) ==
    /\ UserCode /\ obj[o] = "orphan"
    /\ obj' = [obj EXCEPT ![o] = "gone"]
    /\ DropTable(o)
    /\ UNCHANGED <<conns, serial, stack, posted, fault>>

\* what still leads to the table of o
Pending ==
    conns \cup {e.c : e \in posted} \cup UNION {stack[i].rest : i \in DOMAIN stack}
Stale(o) ==
    \E c \in Pending :
        \/ c.receiver = o /\ c.tid >= methodCount
        \/ c.sender = o /\ c.sid >= methodCount

\* The Qt object is handed to Qore again and gets a new wrapper.
Rewrap(o) ==
    /\ UserCode /\ obj[o] = "forgotten"
    /\ StaleLinks \/ ~Stale(o)
    /\ obj' = [obj EXCEPT ![o] = "rewrapped"]
    /\ UNCHANGED <<tables, conns, serial, stack, posted, fault>>

-----------------------------------------------------------------------------
Next ==
    \/ Activate \/ ProcessEvent \/ Return \/ Deleted \/ DestructorEnds
    \/ \E o \in Object :
          \/ Create(o) \/ Delete(o) \/ QtDelete(o) \/ QtDeleteSilently(o)
          \/ DropOrphan(o) \/ Rewrap(o)
          \/ \E s \in Name :
                \/ createSignal(o, s) \/ emitSignal(o, s) \/ QtEmit(o, s)
                \/ emitFromThread(o, s)
                \/ \E p \in Object, target \in Target :
                      connect(o, s, p, target)

Spec == Init /\ [][Next]_vars

-----------------------------------------------------------------------------
(* Properties *)

Connection == [n : Nat, sender : Object, signal : Member, sid : Nat,
               receiver : Object, target : Member, tid : Nat]
Call == [op : {"activate", "slot", "builtin", "deleted", "destructor"},
         o : Object, member : Member \cup {None}, rest : SUBSET Connection]

\* the indices of an object lie in its list of methods
TablesOK ==
    /\ methodList \in [Object -> Seq(Member)]
    /\ signalIndices \in [Object -> [Name -> Int]]
    /\ slotIndices \in [Object -> [Name -> Int]]
    /\ \A o \in Object, s \in Name :
          /\ signalIndices[o][s] \in -1..(Len(methodList[o]) - 1)
          /\ slotIndices[o][s] \in -1..(Len(methodList[o]) - 1)

\* The type of the state; DynamicMethodList::addMethod() returns the place of
\* what it adds.
TypeOK ==
    /\ obj \in [Object -> Status]
    /\ TablesOK
    /\ conns \subseteq Connection /\ serial \in Nat
    /\ stack \in Seq(Call)
    /\ posted \subseteq [k : Nat, c : Connection]
    /\ fault \in Faults \cup {None}

\* A list of methods and its two indices describe each other: an index leads
\* to a method of its own kind and name, and every method of the list is found
\* under its name.
Describe(list, signals, slots) ==
    /\ \A s \in Name :
          /\ signals[s] >= 0 => list[signals[s] + 1] = Signal(s)
          /\ slots[s] >= 0 => list[slots[s] + 1] = Method(s)
    /\ \A i \in DOMAIN list :
          i - 1 = IF list[i].kind = "signal" THEN signals[list[i].name]
                  ELSE slots[list[i].name]

\* The casts of handleSignal() and emitSignal() are right, and no signal or
\* slot is added twice, because the tables of an object describe each other.
IndicesSound ==
    \A o \in Object : Describe(methodList[o], signalIndices[o], slotIndices[o])

\* assert(id < (int)methodList.size()) in handleSignal(): Qt never calls a
\* dynamic method that the object does not have.
HandleAssertion == fault # "handle_signal"

\* The refinement: a connection stands for a link as long as both its indices
\* mean something; it links what the program asked for.
Reached(c) == c.tid < methodCount \/ Reacts(c.receiver)
Linked(c) == Reached(c) /\ (c.sid < methodCount \/ Speaks(c.sender))
Due(c) == [n |-> c.n, to |-> c.receiver, member |-> c.target]

Links ==
    {[n |-> c.n, from |-> c.sender, signal |-> c.signal, to |-> c.receiver,
      member |-> c.target] : c \in {x \in conns : Linked(x)}}
Calls ==
    [i \in DOMAIN stack |->
        [who |-> stack[i].o, member |-> stack[i].member,
         due |-> {Due(c) : c \in {x \in stack[i].rest : Reached(x)}}]]
PostedCalls ==
    {[k |-> e.k, d |-> Due(e.c)] : e \in {x \in posted : Reached(x.c)}}

ByName ==
    INSTANCE SignalSlots WITH
        links <- Links, calls <- Calls, posted <- PostedCalls,
        Number <- 1..(MaxConnects + MaxPosted)

\* The table of indices implements links by name: an emission calls exactly
\* what is connected with the signal of that name at that time, in the order
\* of the connections, whatever was added to the tables before and whatever
\* is created, deleted or emitted by the slots it calls.
ImplementsLinks == ByName!Spec
=============================================================================
