-------------------------------- MODULE MCTools --------------------------------
(***************************************************************************)
(* The tools that run before a program does, each on small inputs: the     *)
(* smoke generator with the registration that reads its tables, and        *)
(* uic-qore with the reader of its forms and its generator of code.  They  *)
(* share no state: every behaviour is one of one tool, and the others stay *)
(* in one of their initial states.                                         *)
(***************************************************************************)
EXTENDS UiDom, UiGenerator, SmokeRegistration

-----------------------------------------------------------------------------
\* Headers of a library with three classes, a template that is a base of one of them and a
\* namespace, which is last in the alphabet like Qt.  Names are numbers in that order.
Method(name, args) == [of |-> 0, name |-> name, args |-> args, access |-> "public", kind |-> "method",
                       virtual |-> "no", const |-> FALSE, static |-> FALSE, default |-> FALSE]
Foo == Method(10, <<>>)
Bar(t) == Method(11, <<t>>)
VirtualOne(m) == [m EXCEPT !.virtual = "yes"]
PrivateOne(m) == [m EXCEPT !.access = "private"]
StaticOne(m) == [m EXCEPT !.static = TRUE]
Defaulted(m) == [m EXCEPT !.default = TRUE]
CtorOf(c, args) == [Method(c, args) EXCEPT !.kind = "ctor"]
ProtectedDtor(c) == [Method(DtorName(c), <<>>) EXCEPT !.kind = "dtor", !.access = "protected"]
Enum(access, enumerators) == [access |-> access, members |-> enumerators]
Body(ms, enums) == [methods |-> ms, enums |-> enums]
BodyOf(c) == <<
    Body(<<>>, <<>>),
    Body(<<VirtualOne(Foo), Bar(CInt), Bar(CLong), PrivateOne(CtorOf(c, <<c>>))>>, <<>>),
    Body(<<Foo, Defaulted(Bar(CBool)), ProtectedDtor(c), CtorOf(c, <<1>>)>>,
         <<Enum("public", <<9, 12>>), Enum("private", <<13>>)>>),
    Body(<<[PrivateOne(Foo) EXCEPT !.virtual = "pure"], VirtualOne(Bar(CBool)),
           StaticOne(Bar(VoidPointer)), [VirtualOne(Foo) EXCEPT !.const = TRUE]>>,
         <<Enum("public", <<12>>)>>)>>
Base(c) == [class |-> c, private |-> FALSE]
PrivateBase(c) == [class |-> c, private |-> TRUE]
BaseLists == { <<<<Base(3)>>, <<Base(3)>>, <<>>>>,
               <<<<Base(2)>>, <<Base(3)>>, <<Base(4)>>>>,
               <<<<>>, <<Base(1)>>, <<Base(1), Base(2)>>>>,
               <<<<>>, <<PrivateBase(1), Base(3)>>, <<>>>>,
               <<<<Base(2), Base(3), Base(4)>>, <<>>, <<Base(2)>>>> }
Own(c, ms) == [i \in DOMAIN ms |-> [ms[i] EXCEPT !.of = c]]
AClass(c, listed, bases, body) ==
    [kind |-> "class", listed |-> listed, bases |-> bases, methods |-> Own(c, body.methods),
     enums |-> body.enums]
Template == [kind |-> "template", listed |-> FALSE, bases |-> <<>>, methods |-> <<>>, enums |-> <<>>]
Namespace == [kind |-> "namespace", listed |-> TRUE, bases |-> <<>>,
              methods |-> Own(5, <<StaticOne(Bar(CInt))>>), enums |-> <<Enum("public", <<12>>)>>]
NoHeader == <<>>
MCHeaders ==
    { <<AClass(1, TRUE, b[1], BodyOf(1)[i]), AClass(2, listed, b[2], BodyOf(2)[j]),
        AClass(3, TRUE, b[3], BodyOf(3)[k]), Template, Namespace>> :
      b \in BaseLists, listed \in BOOLEAN, i \in 1..4, j \in 1..4, k \in {2, 4} }
MCSkipped == {<<1, 10>>}

-----------------------------------------------------------------------------
\* Forms: elements in the order of the file, each with the element it is in.
Element(kind, up, cls) ==
    [kind |-> kind, up |-> up, class |-> cls, name |-> NoName, menu |-> FALSE, buttonGroup |-> "",
     props |-> <<>>, refs |-> <<>>, order |-> <<>>, items |-> <<>>, columns |-> <<>>, rows |-> <<>>,
     pageIcon |-> NoValue, toolTip |-> FALSE]
Widget(up, cls) == Element("widget", up, cls)
Layout(up) == Element("layout", up, "QVBoxLayout")
Named(e, base) == [e EXCEPT !.name = <<base, 0>>]
Property(name, kind, value) == [name |-> name, kind |-> kind, value |-> value]
PropertyLists == {
    <<>>,
    <<Property("font", "font", <<"a", "x">>), Property("text", "string", "t"),
      Property("palette", "palette", <<<<"", 1, Absent>>, <<"LinearGradientPattern", 1, Absent>>>>),
      Property("sizePolicy", "sizePolicy", <<"a", "y">>)>>,
    <<Property("font", "font", <<"a", "y">>), Property("sizePolicy", "sizePolicy", <<"a", "y">>),
      Property("icon", "icon", <<"i", "j">>), Property("brush", "brush", <<"SolidPattern", 1, 255>>),
      Property("geometry", "plain", 0), Property("leftMargin", "plain", 0)>>,
    <<Property("icon", "icon", <<"i", "k">>), Property("currentIndex", "plain", 0),
      Property("cursor", "empty", 0), Property("buddy", "cstring", <<"label", 0>>)>> }
Cell(text, icon) == [text |-> text, icon |-> icon, placed |-> TRUE]
TwoItems == <<Cell(TRUE, NoValue), Cell(FALSE, <<"i", "k">>)>>
ItemClasses == {"QListWidget", "QComboBox", "QTreeWidget", "QTableWidget"}
WithItems(e) ==
    [e EXCEPT !.items = IF e.class \in ItemClasses
                        THEN Append(TwoItems, [Cell(TRUE, NoValue) EXCEPT !.placed = FALSE]) ELSE <<>>,
              !.columns = IF e.class \in {"QTreeWidget", "QTableWidget"}
                          THEN <<Cell(TRUE, <<"i", "l">>), Cell(FALSE, <<"i", "k">>)>> ELSE <<>>,
              !.rows = IF e.class = "QTableWidget" THEN TwoItems ELSE <<>>]
Page(up, cls) == [Widget(up, cls) EXCEPT !.pageIcon = <<"i", "k">>, !.toolTip = TRUE,
                                         !.order = <<<<"my_box", 0>>>>]
MCForm(elements) ==
    [elements |-> elements, defaults |-> {"margin"},
     custom |-> [MyTab |-> [extends |-> "QTabWidget", page |-> TRUE]],
     tabs |-> <<<<"label", 0>>, <<"label", 1>>, <<"other", 0>>>>,
     connections |-> <<<<<<"label", 0>>, <<"my box", 0>>>>>>]
Mains == {Named(Widget(0, c), "Dialog") : c \in {"QMainWindow", "QWidget"}}
WithRefs(e) == [e EXCEPT !.order = <<<<"label", 0>>>>,
                         !.refs = <<<<"act", 0>>, <<"separator", 0>>, <<"nothing", 0>>>>]
Outer(c) == {[WithItems(Named(Widget(1, c), base)) EXCEPT !.props = p] :
               base \in {"", "label"}, p \in IF c \in ItemClasses THEN {<<>>} ELSE PropertyLists}
\* pages and layouts in layouts
NestedForms ==
    { MCForm(<<m, WithRefs(o), Named(Page(2, inner), "label"), Layout(up),
               [Named(Widget(4, "QLabel"), "my box") EXCEPT !.props = p],
               Element("spacer", 4, "QSpacerItem"), Layout(4), Named(Widget(7, inner), "label"),
               Named(Element("action", 1, "QAction"), "act")>>) :
      m \in Mains, inner \in {"QWidget", "QToolBar"}, up \in {1, 3}, p \in PropertyLists,
      o \in UNION {Outer(c) : c \in {"QTabWidget", "QWidget", "MyTab"} \cup ItemClasses} }
\* groups of actions and of buttons
GroupForms ==
    { MCForm(<<m, WithRefs(WithItems(Named(Widget(1, c), "label"))), Layout(2),
               [Named(Widget(3, "QPushButton"), "my box") EXCEPT !.buttonGroup = g],
               [Element("action", up, "QAction") EXCEPT !.menu = menu],
               Element("group", 1, "QActionGroup"), Named(Element("action", 6, "QAction"), "act"),
               [Named(Widget(2, "QPushButton"), "Upper") EXCEPT !.buttonGroup = g], Layout(2),
               Element("group", 6, "QActionGroup")>>) :
      m \in Mains, c \in {"Q3GroupBox", "QTableWidget"}, g \in {"", "buttons"}, menu \in BOOLEAN,
      up \in {1, 2} }
SmallestForm == MCForm(<<Named(Widget(0, "QWidget"), "Dialog")>>)
MCForms == NestedForms \cup GroupForms
MCIdentifier == ("my box" :> "my_box")
MCLowerFirst == [Dialog |-> "dialog", Upper |-> "upper"]
MCTypeName == [c \in {"QWidget", "QLabel"} |-> IF c = "QWidget" THEN "widget" ELSE "label"]
              @@ [c \in {e.class : e \in UNION {Range(f.elements) : f \in MCForms}} |-> "object"]

-----------------------------------------------------------------------------
VARIABLE tool
vars == <<tool, domVars, generatorVars, registrationVars>>

Init ==
    /\ tool \in {"reader", "generator", "smokegen"}
    /\ IF tool = "reader" THEN TRUE
       ELSE class = "DomHeader" /\ source = [attr |-> <<>>, text |-> FALSE, items |-> <<>>]
    /\ IF tool = "generator" THEN form \in Forms ELSE form = SmallestForm
    /\ IF tool = "smokegen" THEN header \in Headers ELSE header = NoHeader
    /\ DomInit /\ GeneratorStart /\ RegistrationStart

Next ==
    /\ UNCHANGED tool
    /\ \/ tool = "reader" /\ DomNext /\ UNCHANGED <<generatorVars, registrationVars>>
       \/ tool = "generator" /\ GeneratorNext /\ UNCHANGED <<domVars, registrationVars>>
       \/ tool = "smokegen" /\ RegistrationNext /\ UNCHANGED <<domVars, generatorVars>>

Spec == Init /\ [][Next]_vars

\* Types of the state of the tools (Dom classes, Driver and WriteInitialization, SmokeDataFile
\* and ClassMap).
ToolsTypeOK == DomTypeOK /\ GeneratorTypeOK /\ RegistrationTypeOK
=============================================================================
