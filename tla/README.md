# A verification development for the Qt 4 module of Qore

The repository (`src/`) binds the Qt 4 libraries to the Qore programming
language. This directory holds TLA+ modules that model the part of it where
things go wrong in ways that tests hardly reach, configurations that check
them with TLC on small instances, and proofs that TLAPS checks for every value
of the constants. All paths below are relative to `src/`.

## 1. Inventory

| component | source | state it keeps | operations | hard behaviour |
|---|---|---|---|---|
| wrapper lifecycle | `qore/qt4/qoresmokeclass.{h,cpp}`, `qoresmokeglobal.h`, `qoresmokebinding.cpp` | private data of every Qore object (pointer, `externally_owned`, `obj_ref`), `qt_qore_map`, the widget manager `QWM` | constructors, destructors, `deleteBlocker`, `externalDelete`, `deleted` | deletions nest through callbacks in both directions; addresses are reused; several threads |
| marshalling | `qoremarshalling.cpp`, `commonqoremethod.{h,cpp}` | nothing but the wrappers it makes; `temp_store` for reference arguments | `stackToQore`, `doQObject`, `constructCopy`, `qoreToStackStatic`, write-back | who owns a copy; what happens when a conversion fails half-way |
| handlers | `qore-main.cpp` | single-shot timers, nodes stored in model indexes | `setExternallyOwned_handler`, `setParent`, `singleShot`, `createIndex`, `internalPointer`, `reset` | timers delete themselves and slots run event loops inside them; indexes outlive nodes |
| dynamic signals and slots | `qoreqtdynamicmethod.{h,cpp}`, `qoresmokeclass.h` | method list, signal and slot indices of an object | `createSignal`, `connectDynamic`, `emitSignal`, `handleSignal` | emissions nest, objects die during one, other threads emit |
| virtual dispatch | `qoresmokebinding.cpp`, `qoresmokeglobal.h`, generated classes | a flag per thread | `callMethod`, the generated overrides and `x_` methods | the flag must be consumed by the call it was set for; conversions fail after the method ran |
| registration | `qoresmokeclass.cpp` | `ClassMap`: classes, variants, handlers | `registerSmoke`, `addMethod`, `setupClassHierarchy` | methods that differ in C++ and not in Qore; indices into generated tables |
| smoke tables | `smoke/smoke.h` | constant arrays | binary searches, search through parents | edges of the searches, parents of other libraries |
| smoke generator | `generator/generators/smoke/` | the classes parsed, their indices | `preparse`, `SmokeDataFile::write`, `SmokeClassFiles::write` | two outputs that must number the same methods alike |
| parser of the generator | `generator/parser/` | syntax trees | lexer, preprocessor, parser | sequential, vendored |
| `uic-qore`, reader | `qore/tools/uic-qore/ui4.{h,cpp}` | a tree of nodes, owned by its members | `read`, setters, `clear`, `write` of 61 classes | elements read twice or set again; what is written must read as it was |
| `uic-qore`, generator | `qore/tools/uic-qore/` | names, open widgets and layouts, shared fonts, brushes and icons | `acceptUI` ... of three walks | names are spelled in many places; the program must make what it uses, before it uses it |
| `rcc-qore` | `qore/tools/rcc-qore/` | none of interest | | sequential |

Interaction: Qore calls Qt through the functions of the smoke tables
(`classFn`); Qt calls Qore through the virtual methods of the generated
classes (`callMethod`), their destructors (`deleted`) and `qt_metacall` (slots).
Both meet in `qt_qore_map`, which leads from a Qt object to its wrapper.

What makes the wrapper lifecycle correct: memory is neither used after it was
freed nor freed twice; a wrapper never stands for another object than its own;
the assertions of the code hold; references are neither lost nor given back
twice; windows go before the application; every nest of destructors ends.
What makes signals and slots correct: an emission calls exactly what the program
connected by name, once for every connection and in their order, whatever was
added to the tables before and whatever the slots do; an index is never used
with another table than the one it was made for.

What makes a call correct: an override written in Qore is passed over only in
calls that the binding makes for itself; what an argument points to lives until
Qt returns, and is freed afterwards, on the error paths too; variables change
only by what Qt wrote. What makes the tools correct: the tables of the generator,
its functions, the searches and the registration agree on every method; a form
is read and written without loss, its nodes are freed once, and the program it
becomes uses what it made.

## 2. Modules and plan

| module | models | composed in |
|---|---|---|
| `WrapperLifecycle` (`WrapperLifecycleProofs`, `WrapperReferencesProofs`, `LoneProgramProofs`) | wrapper lifecycle, the wrapper side of marshalling | `MCWrapperLifecycle` |
| `SignalSlots` (abstract), `DynamicSignals` (`DynamicSignalsProofs`) | dynamic signals and slots; the table of indices implements connections by name | `MCDynamicSignals` |
| `VirtualDispatch` (`CallPartsProofs`) | the virtual flag, `callMethod` with its error paths, generated methods | `MCCalls` |
| `CallArguments` (`CallArgumentsProofs`) | arguments, temporaries, `temp_store` and its write-back | `MCCalls` |
| `ModelIndexes` (`CallPartsProofs`) | nodes stored in indexes of item models | `MCCalls` |
| `SingleShotTimer` (`CallPartsProofs`) | `QTimer::singleShot` | `MCCalls` |
| `UiClasses`, `UiParsers`, `UiDom` (`UiDomProofs`) | the classes of forms, what `ui4.cpp` does for each, the life of one object | `MCTools` |
| `UiGenerator` | the generator of `uic-qore` | `MCTools` |
| `SmokeTables`, `SmokeRegistration` (`ToolsProofs`) | the smoke generator, the look-ups, the registration | `MCTools` |

`MCCalls` and `MCTools` put modules side by side that share no state: each
behaviour is one of one part (`part`, `tool`), while the others rest in one of
their initial states.

Every module and every theorem of the plan is there. What could still be proved is
what `LoneProgram` excludes (section 9: which entries may be stale when Qt makes
objects), and the look-ups of section 6.

## 3. `WrapperLifecycle`

### State

| variable | code |
|---|---|
| `qt[a]` | the Qt object at address `a`: live, in its destructor (`dying`) or `free`; its kind; `bound` (made through smoke, so that its destructor calls `deleted()`); `taken` (another Qt object will delete it); its Qt parent |
| `wr[w]` | the Qore object: status (`ok`, `deleting` while its destructor runs, `deleted`), reference count, and `held`, the references variables of the program hold |
| `pd[w]` | `QoreSmokePrivate`: its own reference count, `attached` (still the private data of the wrapper), `obj` (`m_object` / `m_qobject`), `eo` = `externally_owned`, `obj_ref`, `is_qobject` |
| `map` | `qt_qore_map` |
| `qwm` | `QWM`: `widget_set` and `done` |
| `stack[t]` | the calls thread `t` is in, the running one first |
| `fault` | the assertion that failed or the access to freed memory that ended the program |

Kinds of objects: `app` is the `QApplication`, `widget` and `desktop` are
widgets, `object` is any other `QObject`, `plain` a class outside `QObject`
with a virtual destructor (one without is not entered in the map and has no
callback; it adds nothing here).

### Actions

A handler is split where it calls out (a Qt destructor, a Qore destructor, a
dereference) and where another thread can come between two locks; each part is
one action and the calls it makes are the frames it puts on the stack. `clear()`
holds no lock from its assertion to the reset of the pointer, so wherever it is called
(`common_destructor`, `externalDelete`, a returned value) it takes three steps: the
action of the caller tests the pointer and takes a window off `QWM` (`ClearFault`,
`ClearWindow`), `MapDel` is `qt_qore_map.del()` under the lock of the map, and the rest of
the caller resets the pointer (`Reset`) and goes on. `deleted()` looks the wrapper up
under the lock of the map (`Deleted`) and references its private data under the lock of
the object (`Hold`).

| action | code |
|---|---|
| `CommonConstructor`, `ConstructorReturns`, `ConstructorThrows` | `common_constructor`, then the rest of the constructor written in Qore, which may throw |
| `Release`, `Delete`, `Deref`, `UserDtorEnd`, `EndDelete` | the Qore library (external): a variable goes, the `delete` operator, `QoreObject::deref` with the delete blocker, `doDelete` |
| `CommonDestructor`, `DeleteAll`, `DtorRest`, `DtorRestEnd`, `ObjRefDrop`, `PdDeref` | `common_destructor`, `QoreWidgetManager::deleteAll`, `takeObjectForDelete`, the destructors of the private data |
| `MapDel` | the middle of `clear()`: `QtQoreMap::del` |
| `QtDestroy`, `Deleted`, `Hold`, `ExternalDelete`, `ExternalDeleteEnd`, `QtFree` | `~x_Class()`, `QoreSmokeBinding::deleted`, `externalDelete`, `~QObject` (external) |
| `ReturnObject`, `ReturnByValue`, `MapHit`, `MapMiss`, `MapMissCopy` | `Marshalling::stackToQore`, `doQObject`, `constructCopy` |
| `ReturnToQt`, `ReturnToQtEnd`, `SetExternallyOwned`, `SetParent` | `returnQtObjectOnStack` and the handlers |
| `CommonMethod`, `MethodCall` | `common_method`: the test, then the call |
| `QtCreate`, `QtReparent`, `QtDelete` | what Qt does by itself (external) |

What Qt and the Qore library do is taken from how `src/` uses them: `QPointer`s
become null in `~QObject`, children are deleted by their parent, an object that
Qt takes over is deleted by Qt.

### Runs

| run | instance | question |
|---|---|---|
| `LifecycleObjects` | 2 addresses, 2 wrappers, QObjects and plain objects, fairness | memory safety, assertions of the map, why entries leave it; every nest of destructors ends and no abandoned wrapper stays |
| `LifecycleWindows` | 3 addresses, an application and widgets | windows and the map while the application goes down |
| `LifecycleQt` | objects that Qt makes, throwing constructors, destructors that act | what still holds when the map may contain stale entries; reference counts |
| `LifecycleThreads` | two threads, 2 addresses, one wrapper, throwing constructors | between any two locks: the counts of wrappers and of private data |
| `FindObjRef`, `FindMapAdd`, `FindWindows` | small | what the code promises and does not keep (section 10) |

Bounds: `Addr` and `Wrap` bound the memory and are reused, which is what makes
stale entries visible; two addresses are enough for a parent and a child, for
an object and its copy, and for an address that returns as another object;
three for an application with a window and its child. With two threads one wrapper is
enough for both to clear the same private data, and for a wrapper that is freed and
used again between the lookup of one thread and its next step. `MaxHeld` bounds the
variables that hold one wrapper (two: the second release must not destroy).
`MaxDepth` bounds the call depth at which code of the program may act: with 1
it acts only when nothing runs, with 2 also in a constructor, with 5 also in
destructors that callbacks started. Symmetry of addresses, wrappers and (where
there are no liveness properties) nothing else is used. Deadlock is not checked:
after a fault the program has stopped.

Mistakes the properties would catch are written next to the operator they
belong to (`MapDelKeepsEntry`, `ObjRefDropNoDeref`, ...); no specification
uses them.

Fairness: `FairSpec` assumes only that a thread that is inside a call goes on
(`WF_vars(Unwind(t))`); nothing makes the program or Qt start anything. The
run that uses it has `MaxDepth = 1`: a constructor written in Qore may loop for
ever, and then nothing ends.

What does not hold with two threads: `LifecycleThreads` reaches the failed assertions of
`clear()` and of `QtQoreMap::del()` (two threads clear the same private data), the use of a
freed wrapper (`wrapper_gone`: it went between the lookup and the next step) and a call
of a null object (`null_this`). A program ends in them. When the wrapper's memory is used
again in time, nothing fails and `deleted()` clears the object of another, so
`EntryKept`, `MapComplete` and the assertions are properties of programs with one thread;
nothing in the code keeps two threads from it, and the code promises it nowhere. The
counts are right up to such an end and after such a mix-up.

`NestedUserCode` is FALSE in the runs that check `MemorySafe`: a destructor
written in Qore that drops the last reference to the parent of its object makes
Qt delete that object a second time (`double_free`). This is a restriction on
programs that the module does not enforce; `AlwaysMemorySafe` (section 9) assumes
it too.

## 4. `DynamicSignals` and `SignalSlots`

`SignalSlots` is what a program is promised: links by name between a signal and
a member, nested calls with what each has still to deliver, deliveries posted by
other threads. `DynamicSignals` is what the code does: Qt knows indices only, and
the private data of an object gives an index to each signal and slot written in
Qore.

### State

| variable | code |
|---|---|
| `obj[o]` | the pair of the Qt object and its wrapper, as far as calls tell the states apart: `rewrapped` is an object that `doQObject` wrapped anew, `dying` and `clearing` are before and after `deleted()` cleared the pointer, `orphan` a wrapper whose Qt object went silently, `forgotten` a Qt object that stayed with its parent |
| `methodList[o]`, `signalIndices[o]`, `slotIndices[o]` | the members of `QoreSmokePrivateQObjectData` |
| `conns` | the connections in Qt: sender and signal index, receiver and method index; `signal` and `target` record what the program asked for and are read by the refinement only |
| `serial` | the order of connections |
| `stack` | the calls of the thread of the event loop; an emission holds the connections it has still to serve |
| `posted` | the event queue |
| `fault` | the failed assertion or the null pointer that ended the program |

A member is a signal, a slot of the Qt class or a method written in Qore, with
its normalized signature. The methods of the Qt class (`Static`) come first, as
in `QMetaObject`.

### Actions

| action | code |
|---|---|
| `createSignal`, `emitSignal` | the methods of the same names of the private data |
| `connect`, `connectDynamic` | `f_QOBJECT_connect`, `QOBJECT_connect`, then `connectDynamic` with `getSlotIndex` and `getSignalIndex` |
| `Activate`, `ProcessEvent` | `QMetaObject::activate` and the event loop (external), then `qt_metacall`: `callMethod()` and `handleSignal()` in one step (`Metacall`, `MetacallFault`) |
| `QtEmit`, `emitFromThread` | emissions of Qt, and of another thread |
| `Delete`, `QtDelete`, `Deleted`, `DestructorEnds` | the two ways an object goes: destructor first, or callback first |
| `QtDeleteSilently`, `DropOrphan`, `Rewrap` | Qt objects without callback, and `doQObject` |

Every step of `DynamicSignals` is a step of `SignalSlots` or stutters
(`ImplementsLinks`). A connection counts as a link while both its indices mean
something: a dynamic index means nothing once the private data is gone, nor as a
target of an object that Qt made. The model does not take the moment of
`~QObject` apart in which `destroyed()` is emitted: this emission is a `QtEmit`
before the destructor ends. A destructor that deletes its own object by way of
its parent is left out, as in `WrapperLifecycle` without `NestedUserCode`.

### Runs

| run | instance | question |
|---|---|---|
| `Signals` | an object made from Qore and one made by Qt, a signal and a slot of the Qt class, a signature that is a signal and a slot at once, two connections, an emission of another thread | `IndicesSound`, `HandleAssertion`, `ImplementsLinks`, also while calls wait in the queue |
| `FindHandleSignal` | small | section 10 |

Bounds: two connections show their order, a doubled connection, a relay from
signal to signal to slot, and the loss of the second receiver while the first is
served. `MaxDepth` is the depth, counting the events that
wait, at which slots and destructors may act: a slot called by an emission deletes
objects, connects, and emits again. `MaxStack`
stands for the C stack, which a cycle of signals exhausts (fault `overflow`).
`MaxPosted = 1` bounds the emissions that wait. Deadlock is not checked: a fault
stops the program.

`StaleLinks` is FALSE in the passing runs: no object gets a new wrapper while
connections lead to the table it had. The code does not prevent that; it is what
`FindHandleSignal` shows.

## 5. A call: `VirtualDispatch`, `CallArguments`, `ModelIndexes`, `SingleShotTimer`

`VirtualDispatch` has a stack of calls per thread. A `virtual` frame is a generated
override that called `callMethod()`, `marshal` and `user` are that call converting
arguments and running the variant, `base` is a C++ implementation and `helper` a
call to Qt made under `QoreQtVirtualFlagHelper`. `VirtualCall` is Qt calling,
`QoreCalls` an `x_` method, and each way out of `callMethod()` is an action:
`SwallowVirtual`, `NoQoreObject`, `FindVariant`, `BadArguments`, `RunVariant`,
`UserReturns`, `BadResult`. `FlagOwned` says that the flag is on only inside a
helper and above no Qore code, and that an override is passed over only there;
`BaseCallReachesBase` that a method that calls what it overrides does not come
back to itself.

`CallArguments` converts the parameters of one call in order. A kind of parameter
stands for a branch of `qoreToStackStatic` (all types that take the same branch
and are stored alike are one kind); the mode says who converts: a call, an
emitted signal or a value returned to Qt. `entry` is the `temp_store_s` of each
parameter, `temp` the object made for it, `slot` what the stack item points to,
`variable` the variable passed by reference. `Raise` is the difference between the
constructor of `CommonQoreMethod` (stops) and an argument handler (goes on).
A container or a variant that is passed by reference is made from the reference node
itself and not from the value acquired from it (`commonqoremethod.cpp:709`, `:724`;
`Unresolved`): a variant and a list of objects raise an exception, a list of numbers or
strings becomes one of a single element (`ConvertReference`). Whether a program gets that
far depends on what Qore's types let through, which the model leaves open.
`ArgumentsLive`, `TemporariesReleased` and `OnlyQtWrites` relate them;
`Unstored` names what the code is known to leak; one of these is a list with an element
of the wrong type, which goes with the private data of the elements before it, and a list
of objects given by reference.

`ModelIndexes` keeps Qore values at addresses that are used again. `node_set` of the
model (`nodeSet`), the references of the program (`inUse`) and those that went
with a deleted wrapper (`leaked`) keep a value alive. `PointerFaithful`: an index
leads to the value it was made for or to nothing; `KeptAlive`: what can be handed
out is not freed. A wrapper of the wrong class and the handler of a view's
`reset()` end the program in the fault `cast`.

`SingleShotTimer` has timers that a program starts once, and calls of `timerEvent()`
nested by slots that run an event loop. Fairness: the event loop serves a timer
that is due, and slots return (`WF` of `TimerEvent`, `EmitTimeout`, `SlotReturns`,
`DeleteTimer`); under it `EveryTimerEnds`. A program that waits for ever in a slot
would refute it, and so would a bound smaller than the number of timers, so
`MaxNesting` is larger.

| run | instance | question |
|---|---|---|
| `Calls` | two threads, an object with the mark and one that Qt made, four frames; every call with one or two parameters; two addresses and four values; three timers and two receivers | the eleven properties above |
| `FindReference` | one parameter | section 10 |

Bounds: four frames let Qt call Qore, Qore call Qt under the flag, and that call
Qore again. An object of a generated class without the mark (`Unmarked`) is left out
of the instance: a method that overrides one of its methods and calls it comes
back to itself, which `BaseCallReachesBase` excepts. Two parameters show what a failing second one leaves of the first;
nothing in the code relates three. Four values at two addresses let an address
return twice. Three timers let two be due while a slot runs. Deadlock is not
checked: a finished call has no next step.

## 6. The generator of tables and the registration: `SmokeTables`, `SmokeRegistration`

A header is what the parser found: classes, templates and namespaces in the order
of their names, each with bases, methods and enumerations. `Prepare` is `preparse()`
(implicit constructors and destructors, the calls without defaulted parameters,
constructors of abstract classes), `IndexClasses` the choice of the classes with an index;
`WriteData` the tables of `smokedata.cpp`, with `cast()`; `WritePart` one file of
`x_*.cpp`. A method has at most one parameter, which is a class or one of four
types: enough for two methods with one munged name, for two with the same Qore
type (`int` and `long`), and for a type that Qore cannot pass. The list of
ambiguous methods is kept where the table has a negative index. `Tilde` is the place
of `~` in the alphabet: the name of a destructor sorts after all others.

`WellFormed` is what a compiler and the parser make sure of: the bases of a class are
parsed before it and are no namespaces, its members are distinct, at most one is a
destructor; a namespace has plain functions, and of a template the visitor enters
only the name (`generatorvisitor.cpp:736`). TLC evaluates it for every header of the run.

The look-ups of `smoke.h` are recursive functions over the tables: `Search` is the
loop of the binary search, with the row after the last one that `idMethod` may
read (`beyond`). `SmokeRegistration` runs the two loops of `registerSmoke()` over
them, a row at a time.

* `NumbersAgree`: each row of the table is dispatched by `xcall` to its own method.
* `LookupRight`: for every class and every munged name (and two that are nobody's)
  `findMethod` finds the method of the nearest class that declares one,
  `isDerivedFrom` the derivation, and `cast()` has a case for it. The reference is
  `Lineage`, taken from the headers and not from the tables. A class with a base
  outside the library is left out: there `findMethod` meets no smoke
  (`smoke.h:453`). A base that is a template has the index 0, which ends the list of
  parents; the bases after it are lost, as they are in the reference of
  `AllCallable`.
* `AllCallable`: after registration every callable method has a variant with its
  Qore types that runs it or one with the same types.

The loop of `setupClassHierarchy` ends before the last class. That class is the
namespace `Qt` in the libraries that are generated, which has no bases; the
headers of the run end with a namespace as well.

Not modelled: methods of several parameters, accessors of fields, excluded
signatures, renamed methods, enumerators of external classes, several libraries.

## 7. The reader of forms: `UiClasses`, `UiParsers`, `UiDom`

`UiClasses` is `ui4.h`: for each class its attributes and elements, single or list,
value or node. `UiParsers` is what `ui4.cpp` tests for in `read()`, writes in
`write()` and deletes in `clear()`, the destructor and the setters, in its order.
The assumption `TablesAgree` compares them for all classes, `TablesSimple` says what
the proofs of section 9 need of them. `UiDom` is an object of
any of them: it reads an element child by child (`ReadChild`, `ReadText`), is
changed (`SetElement`, `SetElementList`, `ClearElement`), is written and read again
(`WriteAndReadAgain`), and is deleted (`Delete`). A value is what conversions tell
apart: `fine` has more digits than `write()` prints.

* `OwnedOnce`: each node belongs to one member and is deleted once, but for those that
  the setter of a list lost: `setElementProperty(const QList<DomProperty*>&)` and its like
  (`ui4.cpp:2259-2272`) assign the list and delete nothing. `lost` collects these nodes, and
  `OwnedOnce` says that they belong to no member and are the only ones that are not owned.
* `ReadsDocument`: after reading, lists are in the order of the document, single
  elements the last of their tag, a choice the last it knows.
* `RoundTrip`: `write()` and `read()` are inverses down to the digits printed; bool
  attributes are the exception.

Two elements and edits (`MaxElements = 2`) suffice because an operation touches the
nodes of one member, or, in a choice, those of all; a third could only repeat the
second. The list a setter is given is empty, has a new node, or the old nodes and a
new one. The tool reads forms and never edits them; the setters and `write()` are
part of the classes and are checked as such.

## 8. The generator of `uic-qore`: `UiGenerator`

A form is a sequence of elements, each with the element it is in. The walks are
steps over a list of what to visit and to leave: `NameElement` (`Validator`,
`Driver::unique`), `DeclareElement` (`WriteDeclaration`), then `AcceptWidget`,
`LeaveWidget`, `AcceptLayout`, ... (`WriteInitialization`). A name is a base and a
number; a variable is a name with its prefix (`$`, `$.` or none); a statement is
the set of variables it makes and the set it uses, and the value a shared
variable was made for.

* `NamesResolved`: run in order, the statements of `setupUi()`, of the connections
  and of `retranslateUi()` use what was made before, make nothing twice and share
  a font, policy, icon or brush among equal values only; each element is declared
  once.
  The columns and rows of trees and tables, their items and the icons of pages are among
  them (`WriteTreeWidget`, `WriteTableWidget`, `AddPage`); `tmp__rowItem` is written without
  `$` throughout, so it is found. Of a stacking order the widgets are raised that are
  registered by then, so one that names a later widget leaves it out (`Registered`).
* `BuildsTree`: items are added to their own layout and to no other, the first
  layout of a widget is made for it, pages are added to their container, and a
  widget is made for the one it is in.

`Portable` restricts `NamesResolved` to forms in which the generator spells every
name in one way. These are the places where it does not:
`acceptAction` writes `new QAction( $parent)` whether or not the parent is the main
widget, and a second `$` in groups; `acceptActionGroup` writes a bare parent;
button groups get a bare class name; action references, stacking orders and tab stops write
`$.` for the main widget too; `initializeMenu` looks up a name with a prefix that was stored without, so
an action for a menu is used and never made; buddies are not checked any more
(`qorewriteinitialization.cpp:485`); `acceptConnection` tests for an empty name
after it put a prefix before it; `WriteDeclaration` turns the first letter of a
name into a small one and `WriteInitialization` does not; the margins of a
`Q3GroupBox` use a bare name; a colour without alpha shares its brush with one whose
alpha is 0; a first tab stop that is not registered drops the whole tab order.

| run | instance | question |
|---|---|---|
| `Tools` | every class of `ui4.h` with two elements; 320 libraries of three classes, a template and a namespace, written as two files; about 1000 forms of up to ten elements | the nine properties of sections 6 to 8 |

The libraries combine five lists of bases (single, diamond, private, a template
among the bases), listed and unlisted classes and four bodies (virtual, pure,
constant, static and defaulted methods, private and protected ones). The forms
combine pages, layouts in layouts, items, columns and rows, icons of pages, groups of actions and buttons and lists of
properties. Deadlock is not checked: a tool ends. All tools are sequential; there
is no fairness and no liveness to state.

## 9. What is proved

Every theorem holds for all values of the constants, finite or infinite sets
included, unless it names a condition. The assumptions are those the modules
state: `Kinds` is a subset of the kinds, `None` is none of the values it stands
next to, `GuiThread` is a thread, the methods of the Qt class are a sequence of
members, and the bounds are natural numbers (`KindsAssumption`,
`NoneAssumption`, `ThreadAssumption`, `StaticAssumption`, `BoundsAssumption`,
`LimitsAssumption`, ...). TLC evaluates them in the runs. Each inductive
invariant was checked by TLC on the run of its component before it was proved.

### Wrappers

| theorem | statement |
|---|---|
| `TypeCorrect` | `Spec => []TypeOK` |
| `WindowsFrozen` | `Spec => DoneFreezesWindows`: once `deleteAll()` has begun its set does not change |
| `CountsRight` | `Spec => []ReferencesAccounted`: no reference to a wrapper is given back twice or forgotten |
| `PrivateCountsRight` | `Spec => []PrivateReferencesAccounted`: private data has one reference for its object's key and one for every call that uses it |
| `FreeUnreferenced` | nothing refers to the memory of a freed wrapper |

For programs of one thread (`OneThread == Thread = {GuiThread}`), of any kind: Qt may make
and delete objects, constructors may throw, and entries may be stale.

| theorem | statement |
|---|---|
| `MapAlwaysComplete` | `Spec => []MapComplete`: private data that points to an object is registered under it, until `clear()` forgets both |
| `DelNeverFails` | `Spec => []DelAssertion`: `assert(contains(qto))` in `QtQoreMap::del` never fails |
| `IdentityKept` | `Spec => []QObjectIdentity`: a QObject made from Qore is never found under a wrapper of something else |

For programs of one thread, whose Qt objects are all made from Qore and whose
constructors do not throw (`LoneProgram == Thread = {GuiThread} /\ QtMakes = FALSE
/\ MayThrow = FALSE`), with code of the program in constructors and destructors
to any depth:

| theorem | statement |
|---|---|
| `EntriesSound` | `Spec => []MapSound`: an entry of the map leads to the wrapper of that object |
| `AssertionsHold` | `Spec => []MapAssertions`: no assertion of the map or of `clear()` fails |
| `NothingUsedAfterFree` | no Qt object, private data or wrapper is used after it was freed: `MemorySafe` without its `double_free` |
| `PrivateNeverDangles` | `Spec => []NoDanglingPrivate`: private data never points to a freed object |
| `WindowsNeverDangle` | `Spec => []NoDanglingWindow`: the windows to be deleted with the application have not been freed |
| `EntriesKept` | `Spec => EntryKept`: an entry leaves the map only with its object or its wrapper, and is never redirected |
| `AlwaysMemorySafe` | `Spec => []MemorySafe`, if destructors written in Qore leave other objects alone (`MutedProgram == LoneProgram /\ NestedUserCode = FALSE`): besides, no Qt object is deleted twice |

`WrapperLifecycleProofs`: `TypeOK` is inductive, with one lemma per action.
For `MapComplete` the three steps of `clear()` have to be followed: with one thread
nothing comes between them, so such a step is only ever on top of the stack
(`PhasesOnTop`). `MapInv` says that otherwise each pointer is registered (`Settled`), that
of the data being cleared the entry has gone and the pointer has not, and that before
its entry goes a QObject is still pointed to. Only `NewPrivate` makes a pointer,
and it enters it under an address whose entry the assertion of `add()` found
empty; `MapDel` and the destructor of the private data remove the entry of their
own pointer, and by `MapInv` no other pointer has it. `DelNeverFails`
follows because every call of `del()` is made with such a pointer. The condition
`OneThread` is needed: with two threads TLC finds all three violated.
`WindowsFrozen` needs only that each action that changes the set tests `done`.

`WrapperReferencesProofs`: the count of a wrapper is compared with the number of
frames on all stacks that owe it a reference, so the proof has to count. It
counts places: a frame is identified by its thread and its height above the
bottom of the stack (`Places`), which no call and no return above it changes. A
step then adds or removes at most one place of each kind (`PlacesAfter`), and
the cardinality follows. `ReferencesAccounted` is not inductive: the constructor
that raises an exception gives up the reference of `new`, so `RefsInv` adds that
a constructor in progress still has that reference (`HeldByCtor`), and that the
count of a free wrapper is zero. The references of private data are counted in the
same way (`PrivateInv`): the step that takes the data off its object puts the call
that releases it on the stack (`UseDetached`), so the reference changes hands, and
whoever uses the data adds a reference and a place (`UseAdded`).

The same module proves `IdentityKept`: an entry of the map is left behind only by
plain private data that gives up a live object, or by an object that is dying.
`IdentityInv` therefore adds to `MapComplete`: private data without references
points to nothing (`PrivateOk`), the destructor of Qt is at work on an object at
most once, and only while it is dying (`FreeOk`), and what a QObject made from
Qore is found under points to it and knows that it is a QObject (`KnownAs`).
It holds with stale entries, exceptions and nested destructors.

`LoneProgramProofs` is about the programs in which there are no stale entries. Each
condition of `LoneProgram` is needed: TLC finds `MapSound` violated when Qt makes
objects (the finding `FindMapAdd`), when a second thread looks an object up
between two locks, and when a constructor throws (its object lives on without the
private data, or stays in the widget manager). With one thread the order of
calls is the stack, and `LoneInv` describes it, each frame at its height above the
bottom: which call stands on which (`Fitted`), that a destructor in progress keeps its
wrapper from being used (`EndsOk`, `Awake`), that only the return of a reference
comes between `~QObject` and the call that asked for it (`DestroyLast`), and what
the call on top relies on (`SummitOk`). The data then follows the stack: what private
data points to is live, or the callback of its destructor is on top (`PointerOk`);
data that is no longer attached to its object belongs to exactly one rest of
`common_destructor` (`RestOk`, `LooseOk`), which only the destructor of the
application leaves waiting under other calls; the steps of `clear()` stand on top
(`MapInv`); objects made from Qore are `bound` to their callback (`ObjectOk`); `deleteAll()` runs for an application and
deletes none (`LoopOk`, `AppSafe`); windows are pointed to (`SetOk`); and `MapSound`.
Every step replaces the top of the stack by a few frames (`Rebuilt`). `Fits` and
`Keeps` say which frames these may be and what the step may do to the data,
`Moves` that a step is of this kind; that such steps keep `LoneInv` is proved once,
and for each action one lemma says that it is such a step. `Mild` is what it says of
`fault`: none but the assertions of the widget manager, `assert(!obj_ref)`, what
`deleteAll()` meets, and `double_free`.

That no object is deleted twice is a second layer on the same stack (`OnceInv`).
Whoever asks for a destructor of Qt must find the object alive (`TargetOk`). The
program acts only when no destructor is at work (`UserLow`), so what it deletes is
alive; `common_destructor` never runs the call of the smoke destructor inside a
destructor of Qt, for there the wrapper has lost its object already (`Shelter`); and
the windows of `deleteAll()` stand on a rest of `common_destructor`, below which no
destructor is at work either. There remain the children that `~QObject` deletes.
Each destructor on the stack is that of an object whose parent's destructor lies
below it, or the first one (`ChainOk`), and an object is dying only while its own
is there (`DyingOk`). A child that was already dying would close a circle: all
objects with a destructor at work would have their parents among themselves, in a
tree in which every set has a member whose parent is outside it (`TreeOk`).

### Dynamic signals

| theorem | statement |
|---|---|
| `SignalsTyped` | `Spec => []TypeOK` |
| `IndicesAlwaysSound` | `Spec => []IndicesSound`: list and indices describe each other |
| `CallsFound` | `StaleLinks = FALSE` implies `Spec => []HandleAssertion` |
| `LinksImplemented` | `StaleLinks = FALSE` implies `Spec => ImplementsLinks`: the tables implement `SignalSlots` |

`TypeOK` and `IndicesSound` are inductive together: each of the two operations
that add a method tests that the name has no index, so the new entry takes the
place of no other (`SignalAdded`, `SlotAdded`). For `CallsFound` they are
strengthened by `AllFound`: whatever connection is known to Qt, posted, or still
to be served by an emission, its receiver exists and its index lies in the table
of the receiver. Only `connect()` makes a connection, with an index inside the
list; every other step leaves at most the connections that were there
(`Shrinks`) and an object that may still be called keeps its table or extends it
(`Steady`).

For the refinement that is not enough: an index inside the table may be that of
another method. `NamedInv` adds that the indices of every connection, wherever
it waits, lead to the signal and the target that the program named (`AllNamed`,
`Leads`) and to no other, that connections are told apart by their number
(`Numbered`), that only slots written in Qore have an entry (`SlotsWritten`),
and that only emissions have connections to serve (`GoodCall`). An index, once
given, stays (`IndicesLast`, `Lasting`). Then `Init` maps to `ByName!Init`, and
one lemma per action maps it to a step of `SignalSlots`, or to a stutter:
`emitSignalStep` needs that the connections with the index of a signal are
those with its name, `ProcessEventStep` and `ActivateStep` that the call served
first is the one with the lowest number and reaches the slot that was asked for,
and `ForgetStep` that `~QObject()` takes the same links, posted calls and pending
calls away as the abstract `Destroy`. `StaleLinks = FALSE` is the condition
`FindHandleSignal` shows to be necessary (section 10).

### Calls

| theorem | statement |
|---|---|
| `FlagAlwaysOwned`, `BaseAlwaysReached` | the virtual flag is on only for the call it was set for; a method that calls what it overrides reaches Qt and not itself |
| `ArgumentsAlwaysLive`, `TemporariesAlwaysReleased`, `OnlyQtEverWrites` | while Qt runs the stack items point to live values of their own parameters; what was made for an argument is freed once; a variable changes only by what Qt wrote |
| `PointersFaithful`, `ReferencedAlive` | an index never gives another value than it was made for; a value lives exactly as long as somebody refers to it |
| `SlotCalledOnce`, `TimersFreed` | the slot of a timer is called at most once; a freed timer is used only after a slot deleted its sender |

Each part also has its type invariant proved. For `VirtualDispatch` the proof needs that
the flag is on only while its owner is the running call of its thread.
`CallArgumentsProofs` uses `CallInv`: the static facts of each
parameter, what the position of the call says of each of them (`Progress`) and
what the conversion of one leaves behind (`ParameterOk`); one lemma
(`ConversionKeeps`) covers all conversions, those that fail included.
For `ModelIndexes`, `CallPartsProofs` needs that the reference counts of nodes agree
with the sets that hold them, for `SingleShotTimer` that a timer with an event under
way or a running slot has no second one. `PartsTyped` is about `MCCalls`, which takes a
step of one part at a time: the four invariants hold together.

### The reader of forms

| theorem | statement |
|---|---|
| `NodesOwnedOnce` | `DomSpec => []OwnedOnce`: the child nodes that exist are the object's, each in one place, and those that setters of lists lost, which are in none; none is deleted twice |
| `DocumentRead` | `DomSpec => []ReadsDocument`: after `read()` each member shows what it should of the document |
| `WrittenReadAgain` | `DomSpec => []RoundTrip`: what `write()` puts out, `read()` reads as it was |

They hold for every class of the tables and any number of elements and edits. What is
assumed of the tables is `TablesSimple`: `write()` has one statement for each element,
and the objects that hold one of several values have no lists and no element called
`unknown` (TLC evaluates it for all classes of `ui4.h`).

A document has any length here, so the proofs need induction. The theorems of the
library cannot be instantiated (their parameter is an operator), so `UiDomProofs`
starts from the one fact that speaks of sets: the finite sets are well-founded under
inclusion. `Induction` is the induction over the natural numbers for a set of
numbers, drawn from it with the sets `0 .. k`; `Recursion` says that a function
defined by recursion has the values that its definition says, and the `Flatten...`
lemmas what `FlattenSeq` makes of an empty sequence and of one with one more element.
From these, `Tagged` (the elements of a document with some tags, in their order) is
described by its last step, and `ReadAllOk`, `ExpectedWritten` go through a document
element by element.

`DomInd` is inductive: the object is one of its class (`Objects`: each single member
that is set has one element, each element is in the member of its tag); the nodes
that exist and were not lost are those it owns, in one place each (`Owning`), and each is older than the
next one to be read, so that a new node is never one that is owned; until a setter is
called it shows what the items read so far call for (`Showing`); and `RoundTrip`. A
setter that replaces a member deletes exactly the nodes that leave it
(`ReplaceOwned`), and a choice deletes those of all its members (`ChoiceOwned`). For
`RoundTrip` the items that `write()` puts out are taken apart by tag (`TaggedAll`,
`TaggedNone`): of each member exactly its own, because no two statements of `write()` write
the same tag.

### The tables of the generator

| theorem | statement |
|---|---|
| `NumbersAlwaysAgree` | `RegistrationSpec => []NumbersAgree`: the number that `smokedata.cpp` gives a member is its case in the `xcall` function of its class |

It holds for every library that is `WellFormed`, of any size, and any number of files
`x_*.cpp`. `Among`, the elements of a sequence that are in a set, is written with
`FlattenSeq`, so `SequenceInduction` and the `Flatten...` lemmas say where each row of the
table comes from. What is defined by recursion over the bases of a class
exists because a class is parsed after them (`RankedRecursion`).

`TablesInv` says what each stage has fixed: `methods` is what `preparse()` makes of the
header, `classIndex` and `declared` what the virtual methods call for, `data.rows` is
`MethodTable`, and the classes of the files written so far have the cases of `Switch`, the
others none (`PartOf`, `Division`: each class is in one file, the last taking the rest).
`preparse()` keeps the members of a class distinct and its destructor single
(`ClassOk`). In the table the destructor comes last in its class and in the switch too,
so that leaving out one that is not public moves no other case (`SwitchRight`).
What the generated class reimplements is a method that is not private, of a class and not
of a template or namespace (`VirtualMethodsOk`), so each has a row, and only one
(`ListedOnce`, `OneRow`).

### Only model-checked

Liveness (`Unwinds`, `WrapperReclaimed`, `EveryTimerEnds`) is out of the
prover's reach. `LookupRight` and `AllCallable` rest on the binary searches over
sorted tables and on the recursion over parents, `NamesResolved` and `BuildsTree` on
what whole walks over a form leave behind; they and `ToolsTypeOK` are checked on the
libraries and forms of the run only.

## 10. Disagreements with what the code says

* `FindObjRef`: `assert(!obj_ref)` in `~QoreSmokePrivate` fails for an object
  with a parent that was kept by `deleteBlocker()` and is then deleted
  explicitly: the parent branch of `common_destructor` gives nothing back.
* `FindMapAdd`: `assert(!contains(qto))` fails when an object that Qt made and
  deleted leaves its entry behind and its address is used again.
* `FindWindows`: windows are to be deleted before the application, but one that
  was externally owned, or that Qt made parentless, is not in the set.
* `FindHandleSignal`: `assert(id < (int)methodList.size())` in `handleSignal()`
  fails for an object with a parent whose wrapper is deleted and that is then
  returned to Qore again: the connections outlive the table they lead to.
* `FindReference`: `~CommonQoreMethod()` writes back what Qt left in a variable
  passed by reference, but the case of QString falls through to that of bool, and
  an object of a Q class becomes NOTHING.

Found while modelling, without a run of their own:

* `Q_ASSERT_X(smc->object() != 0, ...)` in `common_method` fails when another
  thread deletes the object after the test; the model reaches the fault `null_this`.
* `connect()` accepts a dynamic signal of an object that Qt made as a target, and
  nothing is ever relayed to it (`qore/qt4/qoresmokeclass.h:311`).
* `~QoreSmokePrivateQAbstractItemModelData()` says that it dereferences the stored
  values and does not: `leaked` in `ModelIndexes`.
* An emitted signal with a variant, and NOTHING for a `QPaintDevice*`, use a null
  pointer (`NullVariant`, `NullDevice` in `CallArguments`).
* `DomWidget` writes its attribute `native` as a number and reads it as `true` or
  `false` (`ui4.cpp:2791`, `:2900`).
* The setters of lists of nodes assign the list and leak the nodes it had
  (`ui4.cpp:2259-2272` and the like): `lost` in `UiDom`.
* A container or a variant passed by reference is converted from the reference and not
  from its value (`qore/qt4/commonqoremethod.cpp:709`, `:724`): `Unresolved` in
  `CallArguments`.
* Two threads that clear the same private data fail `assert(contains(qto))` or
  `assert(m_qobject.data())`, and `deleted()` may find its wrapper freed (section 3).
* The places where the generator of `uic-qore` spells a name in another way than
  where it makes it; they are the conditions of `Portable` in `UiGenerator`, see
  section 8.

## 11. What is not modelled

The property `QORESMOKEPROPERTY` of QObjects (only the handler of
`internalPointer()` reads it: every other lookup goes through the map), the locks
inside Qore and Qt (each is one step), the unlocked accesses of the widget manager
and of the lists of dynamic methods (data races: each access is one step), the
values of arguments, `QShortcut`, the deletion of the maps of `ClassMap`, the parser
and preprocessor of the generator (vendored, sequential), the helpers for
enumerations and types (conversions without state), `rcc-qore`, and in `uic-qore`
the texts of statements, icon data, SQL connections, includes and the Qt 3 widgets other
than the group box.
