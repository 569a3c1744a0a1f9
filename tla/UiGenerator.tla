------------------------------ MODULE UiGenerator ------------------------------
(***************************************************************************)
(* The code generator of uic-qore: it walks over the elements of a form    *)
(* three times, to name them (Validator, Driver), to declare them          *)
(* (WriteDeclaration) and to write setupUi() and retranslateUi()           *)
(* (WriteInitialization).  A name is a base and a number; a statement is   *)
(* what it makes and what it uses.  The items of tree widgets are one      *)
(* level deep here; of the Qt 3 classes only the group box is.             *)
(***************************************************************************)
EXTENDS Integers, Sequences, SequencesExt, FiniteSets, TLC

CONSTANTS Forms,        \* the forms that are compiled
          Identifier,   \* normalizedName() of the bases that are no identifiers,
          TypeName,     \* qtify() of the classes,
          LowerFirst    \* and the bases that begin with a capital letter with a small one

ASSUME GeneratorAssumption == \A g \in Forms : Len(g.elements) >= 1 /\ g.elements[1].kind = "widget"

VARIABLES form,
          pass,         \* name, declare, initialize, done
          todo,         \* the walk: elements to visit or to leave
          names,        \* Driver: names of the elements it has seen
          members,      \* declared members of the class
          widgetChain, layoutChain, groupChain,     \* elements that are open, 0 below them
          layoutWidget, \* the layout of this widget gets margins of 0
          out           \* the texts, and what the generator remembers of them

chains == <<widgetChain, layoutChain, groupChain>>
generatorVars == <<form, pass, todo, names, members, chains, layoutWidget, out>>

El(n) == form.elements[n]
ClassOf(n) == IF n = 0 THEN "" ELSE El(n).class
NoName == <<"", 0>>
NoOut == [setup |-> <<>>, rest |-> <<>>, refresh |-> <<>>, delayed |-> <<>>, actions |-> <<>>,
          taken |-> {}, registered |-> {}, helpers |-> <<>>, buddies |-> <<>>, groups |-> <<>>]

-----------------------------------------------------------------------------
\* Driver: unique() numbers a name that is taken; an element without one is named after its class
Spell(f, s) == IF s \in DOMAIN f THEN f[s] ELSE s
Normalized(x) == <<Spell(Identifier, x[1]), x[2]>>
UniqueName(used, x) ==
    LET Try(id) == IF id = 0 THEN Normalized(x)
                   ELSE <<Normalized(x)[1], IF x[2] = 0 THEN id ELSE 10 * x[2] + id>>
    IN Try(CHOOSE id \in 0..Cardinality(used) :
              Try(id) \notin used /\ \A k \in 0..id - 1 : Try(k) \in used)
NewName(e) == UniqueName(out.taken, IF e.name = NoName THEN <<TypeName[e.class], 0>> ELSE e.name)

\* names of local variables, of members, and what is written without a prefix
Local(x) == <<"$", x>>
Member(x) == <<"$.", x>>
Bare(x) == <<"", x>>
MainName == names[1]
ParentMember(n) == Member(names[n])
ParentVar(n) == IF names[n] = MainName THEN Local(names[n]) ELSE Member(names[n])
WidgetVar(n) == IF n = 1 THEN Bare(names[n]) ELSE Member(names[n])
NamesOf(kind) == {names[n] : n \in {k \in DOMAIN names : El(k).kind = kind}}

\* CustomWidgetsInfo and Uic: a class, or the one a custom widget extends
Extends(c, base) == c = base \/ (c \in DOMAIN form.custom /\ form.custom[c].extends = base)
ExtendsOne(c, bases) == \E b \in bases : Extends(c, b)
IsContainer(c) == ExtendsOne(c, {"QStackedWidget", "QToolBox", "QTabWidget", "QScrollArea",
                                 "QMdiArea", "QWizard"})
IsButton(c) == ExtendsOne(c, {"QRadioButton", "QToolButton", "QCheckBox", "QPushButton"})
HasPageMethod(c) == c \in DOMAIN form.custom /\ form.custom[c].page
AddsPage(c) == \/ HasPageMethod(c)
               \/ ExtendsOne(c, {"QStackedWidget", "QToolBar", "QDockWidget", "QScrollArea", "QSplitter",
                                 "QMdiArea", "QWorkspace", "QWizard", "QToolBox", "QTabWidget"})
TitlesPage(c) == ~HasPageMethod(c) /\ ExtendsOne(c, {"QToolBox", "QTabWidget"})
IsDocked(c) == c = "QWidget" \/ ExtendsOne(c, {"QMenuBar", "QToolBar", "QDockWidget", "QStatusBar"})
IsGroupBox(c) == ExtendsOne(c, {"Q3GroupBox", "Q3ButtonGroup"})

\* TreeWalker: what is visited below an element, and in which order
OfKind(n, kinds) == SelectSeq([i \in DOMAIN form.elements |-> i],
                              LAMBDA i : El(i).up = n /\ El(i).kind \in kinds)
FirstOf(s) == IF s = <<>> THEN <<>> ELSE <<s[1]>>
HasLayout(n) == OfKind(n, {"layout"}) # <<>>
Visits(s) == [i \in DOMAIN s |-> <<"visit", s[i]>>]
Below(n) ==
    CASE El(n).kind = "widget" ->
            Visits(OfKind(n, {"action"}) \o OfKind(n, {"group"}))
            \o [i \in DOMAIN El(n).refs |-> <<"ref", El(n).refs[i]>>]
            \o Visits(OfKind(n, {"widget"}))
            \o Visits(FirstOf(OfKind(n, {"layout"})))
      [] El(n).kind = "layout" ->
            FlattenSeq([i \in DOMAIN OfKind(n, {"widget", "layout", "spacer"}) |->
                LET k == OfKind(n, {"widget", "layout", "spacer"})[i]
                IN <<<<"visit", k>>, <<"add", k>>>>])
      [] El(n).kind = "group" -> Visits(OfKind(n, {"action"}) \o OfKind(n, {"group"}))
      [] OTHER -> <<>>
VisitsBelow(n) == SelectSeq(Below(n), LAMBDA t : t[1] = "visit")

-----------------------------------------------------------------------------
\* Statements
NoValue == <<>>
Make(v, uses) == [makes |-> {v}, uses |-> uses, value |-> NoValue]
Call(uses) == [makes |-> {}, uses |-> uses, value |-> NoValue]
Say(o, where, s) == [o EXCEPT ![where] = Append(@, s)]
If(b, S) == IF b THEN S ELSE {}
SayIf(b, o, where, s) == IF b THEN Say(o, where, s) ELSE o
Take(o, x) == [o EXCEPT !.taken = @ \cup {x}]
Fresh(o, base) == UniqueName(o.taken, <<base, 0>>)

\* Fonts, size policies, icons and brushes are shared by the properties with the same value
\* (FontHandle, SizePolicyHandle, IconHandle; only solid brushes, by their colour: one
\* without alpha counts as alpha 0)
Absent == -1
Style(v) == v[1]     Rgb(v) == v[2]     Alpha(v) == v[3]        \* of a brush
HelperKinds == {"font", "sizePolicy", "icon", "brush"}
HelperVar(kind, x) == CASE kind = "font" -> Member(x) [] kind = "sizePolicy" -> Local(x) [] OTHER -> Bare(x)
Solid(v) == Style(v) \in {"", "SolidPattern"}
Key(kind, v) == IF kind = "brush" THEN <<Rgb(v), IF Alpha(v) = Absent THEN 0 ELSE Alpha(v)>> ELSE v
SharedVar(o, kind, v) == o.helpers[<<kind, Key(kind, v)>>]
IsShared(o, kind, v) == (kind = "brush" => Solid(v)) /\ <<kind, Key(kind, v)>> \in DOMAIN o.helpers
\* writeBrush: a gradient is a variable of its own
WriteBrush(o, x, v) ==
    LET gradient == Fresh(o, "gradient")
        Brush(uses) == [makes |-> {x}, uses |-> uses, value |-> v]
    IN IF Style(v) # "LinearGradientPattern" THEN Say(o, "setup", Brush({}))
       ELSE Say(Say(Take(o, gradient), "setup", Make(Bare(gradient), {})), "setup",
                Brush({Bare(gradient)}))
\* writeSizePolicy, writeFontProperties, writeIconProperties
WriteShared(o, x, v) == Say(o, "setup", [makes |-> {x}, uses |-> {}, value |-> v])
\* each of them, and writeBrushInitialization, after the search for an equal one
WriteHelper(o, kind, v) ==
    LET name == Fresh(o, kind)
        x == HelperVar(kind, name)
        o1 == IF kind = "brush" THEN WriteBrush(Take(o, name), x, v) ELSE WriteShared(Take(o, name), x, v)
        o2 == IF kind = "brush" /\ ~Solid(v) THEN o1
              ELSE [o1 EXCEPT !.helpers = (<<kind, Key(kind, v)>> :> x) @@ @]
    IN IF IsShared(o, kind, v) THEN [out |-> o, var |-> SharedVar(o, kind, v)]
       ELSE [out |-> o2, var |-> x]
SetShared(o, v, kind, value) ==
    LET h == WriteHelper(o, kind, value)
    IN Say(h.out, "setup", [makes |-> {}, uses |-> v \cup {h.var}, value |-> value])
\* a palette is written for each property; its roles are brushes
SetPalette(o, v, roles) ==
    LET x == Fresh(o, "palette")
        o1 == Say(Take(o, x), "setup", Make(Member(x), {}))
        o2 == FoldLeft(LAMBDA acc, brush : SetShared(acc, {Member(x)}, "brush", brush), o1, roles)
    IN Say(o2, "setup", Call({v, Member(x)}))

\* writeProperties: a property is skipped, kept for the end, or written with its value; what
\* is translated goes into retranslateUi()
Delayed(class, p) ==
    \/ p = "currentRow" /\ Extends(class, "QListWidget")
    \/ p = "currentIndex" /\ ExtendsOne(class, {"QComboBox", "QStackedWidget", "QTabWidget", "QToolBox"})
    \/ p = "tabSpacing" /\ Extends(class, "QToolBox")
WritePlain(o, v) == Say(o, "setup", Call({v}))      \* numbers, texts, points, dates, ...
WriteProperty(o, v, class, layout, p) ==
    CASE \/ p.kind = "empty" \/ p.name \in {"database", "frameworkCode", "leftMargin"}
         \/ (layout /\ p.name \in {"margin", "spacing"}) -> o
      [] Delayed(class, p.name) -> Say(o, "delayed", Call({v}))
      [] p.kind = "cstring" /\ p.name = "buddy" /\ Extends(class, "QLabel") ->
            [o EXCEPT !.buddies = Append(@, <<v, p.value>>)]
      [] p.kind \in HelperKinds -> SetShared(o, {v}, p.kind, p.value)
      [] p.kind = "palette" -> SetPalette(o, v, p.value)
      [] p.kind = "string" -> Say(o, "refresh", Call({v}))
      [] OTHER -> WritePlain(o, v)
\* the main widget: a local variable
PropertyVar(v) == IF v[1] = "$." THEN v ELSE <<"$", v[2]>>
WriteMargins(o, v) ==
    LET w == Last(widgetChain)
        box == w # 0 /\ Last(layoutChain) = 0 /\ IsGroupBox(ClassOf(w))
    IN Say(o, "setup", Call({IF box THEN Bare(names[w]) ELSE v}))
WriteProperties(o, var, class, props, layout, margins) ==
    LET v == PropertyVar(var)
        o1 == Say(o, "setup", Call({v}))              \* setObjectName()
        o2 == FoldLeft(LAMBDA acc, p : WriteProperty(acc, v, class, layout, p), o1, props)
        given == \E i \in DOMAIN props : props[i].name = "leftMargin"
    IN IF margins \/ given THEN WriteMargins(o2, v) ELSE o2

\* initializeComboBox, initializeListWidget and initializeTreeWidget, initializeTableWidget
HasIcon(item) == item.icon # NoValue
IconOf(o, item) == IF HasIcon(item) THEN WriteHelper(o, "icon", item.icon) ELSE [out |-> o, var |-> Bare(NoName)]
ComboItem(o, v, item) ==
    LET h == IconOf(o, item)
    IN SayIf(item.text, Say(h.out, "setup", [makes |-> {}, uses |-> {v} \cup If(HasIcon(item), {h.var}),
                                             value |-> item.icon]), "refresh", Call({v}))
ComboItems(o, v, items) ==
    IF \A i \in DOMAIN items : ~HasIcon(items[i]) THEN Say(o, "refresh", Call({v}))
    ELSE FoldLeft(LAMBDA acc, item : ComboItem(acc, v, item), o, items)
ListItem(o, v, item, base) ==
    LET h == IconOf(o, item)
        x == Fresh(h.out, base)
        o1 == IF HasIcon(item)
              THEN Say(Say(Take(h.out, x), "setup", Make(Local(x), {v})), "setup",
                       [makes |-> {}, uses |-> {Local(x), h.var}, value |-> item.icon])
              ELSE Say(o, "setup", Call({v}))
    IN SayIf(item.text, o1, "refresh", Call({v}))
ListItems(o, v, items, base) ==                     \* sorting is off while they are set
    LET sorting == Fresh(o, "tmp__sortingEnabled")
        o1 == Say(Say(Take(o, sorting), "refresh", Make(Local(sorting), {v})), "refresh", Call({v}))
    IN Say(FoldLeft(LAMBDA acc, item : ListItem(acc, v, item, base), o1, items),
           "refresh", Call({v, Local(sorting)}))
\* the header of a tree; the headers and the items of a table, whose pixmaps are not shared
TreeColumn(o, v, column) ==
    LET h == IconOf(SayIf(column.text, o, "refresh", Call({v})), column)
    IN SayIf(HasIcon(column), h.out, "setup", [makes |-> {}, uses |-> {v, h.var}, value |-> column.icon])
TableItem(o, v, base, prefix) ==
    LET name == Fresh(o, base)
        x == <<prefix, name>>
        o1 == Say(Say(Take(o, name), "refresh", Make(x, {})), "refresh", Call({x}))
    IN Say(o1, "refresh", Call({v, x}))
TableItems(o, v, cells, base, prefix) ==
    FoldLeft(LAMBDA acc, c : IF c.text \/ HasIcon(c) THEN TableItem(acc, v, base, prefix) ELSE acc, o, cells)
TableHeader(o, v, cells, base, prefix) ==
    TableItems(SayIf(cells # <<>>, o, "refresh", Call({v})), v, cells, base, prefix)
WriteTableWidget(o, v, e) ==
    LET o1 == TableHeader(o, v, e.columns, "tmp__colItem", "$")
        o2 == TableHeader(o1, v, e.rows, "tmp__rowItem", "")
    IN TableItems(o2, v, SelectSeq(e.items, LAMBDA item : item.placed), "tmp__item", "$")
WriteTreeWidget(o, v, e) ==
    LET o1 == FoldLeft(LAMBDA acc, c : TreeColumn(acc, v, c), o, e.columns)
    IN IF e.items = <<>> THEN o1 ELSE ListItems(o1, v, e.items, "tmp__treeItem")
WriteItems(o, n) ==
    LET v == Member(names[n])  e == El(n)
    IN CASE Extends(e.class, "QComboBox") -> IF e.items = <<>> THEN o ELSE ComboItems(o, v, e.items)
         [] Extends(e.class, "QListWidget") ->
                IF e.items = <<>> THEN o ELSE ListItems(o, v, e.items, "tmp__listItem")
         [] Extends(e.class, "QTreeWidget") -> WriteTreeWidget(o, v, e)
         [] Extends(e.class, "QTableWidget") -> WriteTableWidget(o, v, e)
         [] OTHER -> o

-----------------------------------------------------------------------------
\* Validator and WriteDeclaration
Doing(p, what) == pass = p /\ todo # <<>> /\ Head(todo)[1] = what
Current == Head(todo)[2]
VisitNext(s) == todo' = s \o Tail(todo)

NameElement ==
    /\ Doing("name", "visit")
    /\ LET x == NewName(El(Current)) IN names' = (Current :> x) @@ names /\ out' = Take(out, x)
    /\ VisitNext(VisitsBelow(Current))
    /\ UNCHANGED <<form, pass, members, chains, layoutWidget>>
\* the members are declared with a small letter; the main widget is none of them
StartDeclaration ==
    /\ pass = "name" /\ todo = <<>>
    /\ pass' = "declare" /\ todo' = VisitsBelow(1)
    /\ UNCHANGED <<form, names, members, chains, layoutWidget, out>>
DeclareElement ==
    /\ Doing("declare", "visit")
    /\ LET x == names[Current] IN members' = Append(members, <<Spell(LowerFirst, x[1]), x[2]>>)
    /\ VisitNext(VisitsBelow(Current))
    /\ UNCHANGED <<form, pass, names, chains, layoutWidget, out>>
StartInitialization ==
    /\ pass = "declare" /\ todo = <<>>
    /\ pass' = "initialize" /\ todo' = <<<<"visit", 1>>>>
    /\ UNCHANGED <<form, names, members, chains, layoutWidget, out>>

-----------------------------------------------------------------------------
\* WriteInitialization
Visiting(kind) == Doing("initialize", "visit") /\ El(Current).kind = kind
Leaving(kind) == Doing("initialize", "leave") /\ El(Current).kind = kind
Top == Last(widgetChain)
TopLayout == Last(layoutChain)

\* the first button of a group makes it; its parent is the name of the class
AddToButtonGroup(o, n) ==
    LET g == El(n).buttonGroup
        x == Fresh(o, g)
        o1 == [Say(Take(o, x), "setup", Make(Member(x), {Bare(<<"Ui", 0>>)}))
                   EXCEPT !.groups = (g :> x) @@ @]
        o2 == IF g \in DOMAIN o.groups THEN o ELSE o1
    IN IF g = "" \/ ~IsButton(ClassOf(n)) THEN o
       ELSE Say(o2, "setup", Call({Member(o2.groups[g]), WidgetVar(n)}))

\* (initializeMenu() looks for an action whose name begins with "$.": there is none)
AcceptWidget ==
    /\ Visiting("widget")
    /\ LET e == El(Current)  var == WidgetVar(Current)
           registered == [out EXCEPT !.registered = @ \cup {names[Current]}]
           parent == IF Top = 0 \/ IsContainer(ClassOf(Top)) THEN {} ELSE {ParentVar(Top)}
           o1 == SayIf(Top # 0, registered, "setup", Make(var, parent))
           o2 == AddToButtonGroup(WriteItems(o1, Current), Current)
       IN out' = WriteProperties(o2, var, e.class, e.props, FALSE, FALSE)
    /\ layoutWidget' = (/\ ClassOf(Current) = "QWidget" /\ Top # 0
                        /\ ClassOf(Top) # "QMainWindow" /\ ~IsContainer(ClassOf(Top)))
    /\ widgetChain' = Append(widgetChain, Current)
    /\ layoutChain' = layoutChain \o (IF HasLayout(Current) THEN <<0>> ELSE <<0, 0>>)
    /\ VisitNext(Below(Current) \o <<<<"leave", Current>>>>)
    /\ UNCHANGED <<form, pass, names, members, groupChain>>

\* what is popped when the widget is left: without a layout, the chain got a second 0
ClosesOne(n) == 1
Closes(n) == IF HasLayout(n) THEN 1 ELSE 2
\* back in acceptWidget(): the widget is added to its parent, a page with its icon, its title
\* and its tool tip; of its stacking order, the widgets are raised that are registered by now
AddPage(o, e, both) ==
    LET h == IF e.pageIcon = NoValue THEN [out |-> o, var |-> Bare(NoName)]
             ELSE WriteHelper(o, "icon", e.pageIcon)
        o1 == Say(h.out, "setup", [makes |-> {}, value |-> e.pageIcon,
                                   uses |-> both \cup If(e.pageIcon # NoValue, {h.var})])
    IN SayIf(e.toolTip, Say(o1, "refresh", Call(both)), "refresh", Call(both))
Registered(x) == x \in out.registered
LeaveWidget ==
    /\ Leaving("widget")
    /\ LET e == El(Current)  var == WidgetVar(Current)
           above == widgetChain[Len(widgetChain) - 1]
           both == {var} \cup If(above # 0, {ParentVar(above)})
           o1 == SayIf(above # 0 /\ Extends(ClassOf(above), "QMainWindow") /\ IsDocked(e.class),
                       out, "setup", Call(both))
           o2 == IF above # 0 /\ TitlesPage(ClassOf(above)) THEN AddPage(o1, e, both)
                 ELSE SayIf(above # 0 /\ AddsPage(ClassOf(above)), o1, "setup", Call(both))
           raised == SelectSeq(e.order, Registered)
       IN out' = [o2 EXCEPT !.setup = @ \o [i \in DOMAIN raised |-> Call({Member(raised[i])})]]
    /\ widgetChain' = Front(widgetChain) /\ layoutWidget' = FALSE
    /\ layoutChain' = SubSeq(layoutChain, 1, Len(layoutChain) - Closes(Current))
    /\ VisitNext(<<>>)
    /\ UNCHANGED <<form, pass, names, members, groupChain>>

\* LayoutDefaultHandler: spacing and margin, of the form unless the layout has its own
WriteDefaults(o, v, props, nested) ==
    LET Written(p, suppress) == \/ \E i \in DOMAIN props : props[i].name = p
                                \/ ~suppress /\ p \in form.defaults
    IN SayIf(Written("margin", nested), SayIf(Written("spacing", FALSE), o, "setup", Call({v})),
             "setup", Call({v}))

AcceptLayout ==
    /\ Visiting("layout")
    /\ LET e == El(Current)  var == Member(names[Current])  w == Member(names[Top])
           box == TopLayout = 0 /\ IsGroupBox(ClassOf(Top))
           o1 == IF box THEN WriteDefaults(Say(out, "setup", Call({w})), w, e.props, FALSE) ELSE out
           o2 == Say(o1, "setup", Make(var, If(TopLayout = 0 /\ ~box, {ParentVar(Top)})))
           x == Fresh(o2, "boxlayout")
           o3 == IF box
                 THEN Say(Say(Say(Take(o2, x), "setup", Make(Bare(x), {w})),
                              "setup", Call({Bare(x), var})), "setup", Call({var}))
                 ELSE WriteDefaults(o2, var, e.props, TopLayout # 0)
       IN out' = WriteProperties(o3, var, e.class, e.props, TRUE, layoutWidget)
    /\ layoutWidget' = FALSE
    /\ layoutChain' = Append(layoutChain, Current)
    /\ VisitNext(Below(Current) \o <<<<"leave", Current>>>>)
    /\ UNCHANGED <<form, pass, names, members, widgetChain, groupChain>>
LeaveLayout ==
    /\ Leaving("layout")
    /\ layoutChain' = Front(layoutChain) /\ VisitNext(<<>>)
    /\ UNCHANGED <<form, pass, names, members, widgetChain, groupChain, layoutWidget, out>>
AcceptSpacer ==
    /\ Visiting("spacer")
    /\ out' = Say(out, "setup", Make(Member(names[Current]), {})) /\ VisitNext(<<>>)
    /\ UNCHANGED <<form, pass, names, members, chains, layoutWidget>>
\* the end of acceptLayoutItem()
AddLayoutItem ==
    /\ Doing("initialize", "add")
    /\ out' = SayIf(TopLayout # 0, out, "setup",
                    Call({Member(names[TopLayout]), Member(names[Current])}))
    /\ VisitNext(<<>>)
    /\ UNCHANGED <<form, pass, names, members, chains, layoutWidget>>

\* the parent of a group or of an action: the group that is open, or the widget
AcceptActionGroup ==
    /\ Visiting("group")
    /\ LET up == IF Last(groupChain) = 0 THEN Top ELSE Last(groupChain)
           var == Member(names[Current])
       IN out' = WriteProperties(Say(out, "setup", Make(var, {Bare(names[up])})), var, "QActionGroup",
                                 El(Current).props, FALSE, FALSE)
    /\ groupChain' = Append(groupChain, Current)
    /\ VisitNext(Below(Current) \o <<<<"leave", Current>>>>)
    /\ UNCHANGED <<form, pass, names, members, widgetChain, layoutChain, layoutWidget>>
LeaveActionGroup ==
    /\ Leaving("group")
    /\ groupChain' = Front(groupChain) /\ VisitNext(<<>>)
    /\ UNCHANGED <<form, pass, names, members, widgetChain, layoutChain, layoutWidget, out>>
AcceptAction ==
    /\ Visiting("action")
    /\ LET var == Member(names[Current])
           parent == IF Last(groupChain) = 0 THEN Local(names[Top]) ELSE <<"$$.", names[Last(groupChain)]>>
       IN out' = IF El(Current).menu THEN out
                 ELSE WriteProperties(Say(out, "setup", Make(var, {parent})), var, "QAction",
                                      El(Current).props, FALSE, FALSE)
    /\ VisitNext(<<>>)
    /\ UNCHANGED <<form, pass, names, members, chains, layoutWidget>>
\* addaction: a widget (a menu), an action or a separator by its name; kept for the end
Separator == <<"separator", 0>>
AcceptActionRef ==
    /\ Doing("initialize", "ref")
    /\ LET known == NamesOf("widget") \cup NamesOf("action") \cup {Separator}
           used == {Member(names[Top])} \cup If(Current # Separator, {Member(Current)})
       IN out' = SayIf(Current \in known /\ Current \notin NamesOf("group"), out, "actions", Call(used))
    /\ VisitNext(<<>>)
    /\ UNCHANGED <<form, pass, names, members, chains, layoutWidget>>

\* the rest of acceptUI(), in the order of the text
Buddies == [i \in DOMAIN out.buddies |-> Call({out.buddies[i][1], Member(out.buddies[i][2])})]
TabStops ==
    LET Known(i) == Registered(form.tabs[i])
        Step(acc, i) == IF ~Known(i) THEN acc
                        ELSE IF i = 1 THEN [acc EXCEPT !.last = form.tabs[i]]
                        ELSE IF acc.last = NoName THEN acc
                        ELSE [last |-> form.tabs[i],
                              text |-> Append(acc.text, Call({Member(acc.last), Member(form.tabs[i])}))]
    IN FoldLeft(Step, [last |-> NoName, text |-> <<>>], [i \in DOMAIN form.tabs |-> i]).text
\* findDeclaration() of the sender or the receiver; the test for an empty name comes after
\* the prefix is added
ConnectionVar(x) == LET y == IF Normalized(x) \in NamesOf("widget") \cup NamesOf("action")
                             THEN Normalized(x) ELSE NoName
                    IN IF y = MainName THEN Local(y) ELSE Member(y)
Connections == [i \in DOMAIN form.connections |->
                   Call({ConnectionVar(form.connections[i][1]), ConnectionVar(form.connections[i][2])})]
FinishUI ==
    /\ pass = "initialize" /\ todo = <<>>
    /\ pass' = "done"
    /\ out' = [out EXCEPT !.setup = @ \o Buddies \o TabStops \o out.actions,
                          !.rest = Connections \o out.delayed \o <<Call({Local(MainName)})>>]
    /\ UNCHANGED <<form, todo, names, members, chains, layoutWidget>>

GeneratorStart ==
    /\ pass = "name" /\ todo = <<<<"visit", 1>>>>
    /\ names = <<>> /\ members = <<>> /\ layoutWidget = FALSE /\ out = NoOut
    /\ widgetChain = <<0>> /\ layoutChain = <<0>> /\ groupChain = <<0>>
GeneratorInit == form \in Forms /\ GeneratorStart
GeneratorNext ==
    \/ NameElement \/ StartDeclaration \/ DeclareElement \/ StartInitialization
    \/ AcceptWidget \/ LeaveWidget \/ AcceptLayout \/ LeaveLayout \/ AcceptSpacer \/ AddLayoutItem
    \/ AcceptActionGroup \/ LeaveActionGroup \/ AcceptAction \/ AcceptActionRef \/ FinishUI
GeneratorSpec == GeneratorInit /\ [][GeneratorNext]_generatorVars

-----------------------------------------------------------------------------
\* Types of the state, and what is open when the walk is over.
GeneratorTypeOK ==
    /\ pass \in {"name", "declare", "initialize", "done"}
    /\ DOMAIN names \subseteq DOMAIN form.elements /\ layoutWidget \in BOOLEAN
    /\ DOMAIN out = DOMAIN NoOut
    /\ Last(groupChain) \in Nat /\ Last(layoutChain) \in Nat /\ Last(widgetChain) \in Nat
    /\ pass = "done" => widgetChain = <<0>> /\ layoutChain = <<0>> /\ groupChain = <<0>>

\* Forms whose statements the generator spells in one way throughout.  Elsewhere it is known
\* not to: actions below another widget than the main one or in a group, action groups, button
\* groups, actions added to the main widget, actions for menus, margins in a Qt 3 group box,
\* the main widget as tab stop or in a stacking order, buddies, senders and receivers that
\* are not in the form, names with a capital letter.
Portable ==
    /\ \A n \in DOMAIN names : LET e == El(n) IN
          /\ names[n][1] \notin DOMAIN LowerFirst \/ n = 1
          /\ e.kind = "action" => e.up = 1 /\ ~e.menu
          /\ e.kind # "group" /\ e.buttonGroup = ""
          /\ MainName \notin Range(e.order) \cup Range(e.refs)
          /\ n = 1 => e.refs = <<>>
          /\ \A i \in DOMAIN e.props :
                /\ e.props[i].name = "buddy" => \E k \in DOMAIN names \ {1} : names[k] = e.props[i].value
                /\ e.props[i].name = "leftMargin" => ~IsGroupBox(ClassOf(e.up))
    /\ MainName \notin Range(form.tabs)
    /\ \A i \in DOMAIN form.connections : \A j \in 1..2 : ConnectionVar(form.connections[i][j])[2] # NoName

\* The statements from the first on: each uses variables that are made before, makes new ones
\* only, and finds the value it wants in a shared one.
RunsFrom(made, text) ==
    LET Step(acc, s) == [ok |-> acc.ok /\ s.uses \subseteq acc.made /\ s.makes \cap acc.made = {},
                         made |-> acc.made \cup s.makes]
    IN FoldLeft(Step, [ok |-> TRUE, made |-> made], text)
\* A form is built from what it names: setupUi() and retranslateUi() use no variable before
\* it is made and none under another scope, make none twice, share fonts, policies, icons and
\* brushes among equal values only (a colour whose alpha is 0 apart), and the class declares
\* each element once (qorewriteinitialization.cpp:434-523, qorewritedeclaration.cpp:67-200).
NamesResolved ==
    pass = "done" /\ Portable =>
        LET setup == RunsFrom({Local(MainName)}, out.setup)
            refresh == RunsFrom({v \in setup.made : v[1] # "$"} \cup {Local(MainName)}, out.refresh)
            rest == RunsFrom(setup.made, out.rest)
            Clear(v) == v # NoValue /\ (Len(v) = 3 => Alpha(v) # 0)
        IN /\ setup.ok /\ refresh.ok /\ rest.ok
           /\ \A s, t \in Range(out.setup) :
                 s.makes # {} /\ s.makes \subseteq t.uses /\ Clear(s.value) /\ Clear(t.value) =>
                     s.value = t.value
           /\ \A n \in DOMAIN names \ {1} :
                 Cardinality({i \in DOMAIN members : members[i] = names[n]}) = 1

\* The program builds the tree of the form, whatever is nested: an item is added to its own
\* layout and to no other, the first layout of a widget is made for it and no other layout is,
\* a page is added to its container, and a widget is made for the widget it is drawn in.
EnclosingWidget(n) == LET up[k \in DOMAIN form.elements] ==
                              IF El(k).kind = "widget" THEN k ELSE up[El(k).up] IN up[El(n).up]
BuildsTree ==
    pass = "done" => \A n \in DOMAIN names \ {1} :
        LET up == El(n).up
            var == Member(names[n])
            made == {s \in Range(out.setup) : var \in s.makes}
            Adds(k) == \E s \in Range(out.setup) : s.makes = {} /\ {Member(names[k]), var} \subseteq s.uses
        IN /\ El(up).kind = "layout" => Adds(up)
           /\ \A l \in DOMAIN names \ {n, up} : El(l).kind = "layout" /\ El(l).up # n => ~Adds(l)
           /\ El(n).kind \in {"widget", "layout", "spacer"} =>
                 \E s \in made : s.uses =
                    CASE El(n).kind = "widget" /\ ~IsContainer(ClassOf(EnclosingWidget(n))) ->
                            {ParentVar(EnclosingWidget(n))}
                      [] El(n).kind = "layout" /\ El(up).kind = "widget" /\ ~IsGroupBox(ClassOf(up)) ->
                            {ParentVar(up)}
                      [] OTHER -> {}
           /\ El(n).kind = "widget" /\ up # 1 /\ IsContainer(ClassOf(up)) => Adds(up)
=============================================================================
