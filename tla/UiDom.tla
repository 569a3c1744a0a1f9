--------------------------------- MODULE UiDom ---------------------------------
(***************************************************************************)
(* The form reader of uic-qore: an object of one of the classes of ui4.h   *)
(* reads an XML element, is changed through its setters, is written, and   *)
(* what was written is read again; at last it is deleted with the nodes it *)
(* owns.  The nodes inside a child element are read in the same way by the *)
(* child's own object and are one identity here.                           *)
(***************************************************************************)
EXTENDS Naturals, Sequences, SequencesExt, UiClasses, UiParsers

CONSTANT MaxElements     \* bound: child elements that are read, and later calls of setters
                         \* and clearElement...(), together

ASSUME DomAssumption == MaxElements \in Nat

\* ui4.h and ui4.cpp agree: what a class declares is what it reads, writes and, if it is a
\* node, deletes.
Header(c) == ClassTable[c]
Elements(c) == Header(c).elements
IsNode(c, t) == Elements(c)[t].type \in ClassNames
LowerTags == [cursorShape |-> "cursorshape", longLong |-> "longlong", uInt |-> "uint",
              uLongLong |-> "ulonglong"]
Lower(tag) == IF tag \in DOMAIN LowerTags THEN LowerTags[tag] ELSE tag
ASSUME TablesAgree == \A c \in ClassNames :
    /\ Reads(c) = DOMAIN Elements(c)
    /\ {Lower(t) : t \in Range(Writes(c))} = Reads(c)
    /\ Deletes(c) = {t \in DOMAIN Elements(c) : IsNode(c, t)}
    /\ c \in DOMAIN AttributeTable => AttributeTable[c] = DOMAIN Header(c).attributes
\* Each element is written by one statement; a choice has no lists and no element unknown,
\* which is the kind of an object without one.
ASSUME TablesSimple == \A c \in ClassNames :
    /\ Len(Writes(c)) \in Nat /\ DOMAIN Writes(c) = 1..Len(Writes(c))
    /\ \A i, j \in DOMAIN Writes(c) : Lower(Writes(c)[i]) = Lower(Writes(c)[j]) => i = j
    /\ Header(c).choice =>
          "unknown" \notin Reads(c) /\ \A t \in DOMAIN Elements(c) : ~Elements(c)[t].many

VARIABLES class,   \* of the object
          source,  \* the element it reads: attributes, text and child elements
          at,      \* the next child element or edit
          phase,   \* read, edit, written, deleted
          object,  \* its members
          again,   \* the object that read what this one has written
          nodes,   \* nodes that exist
          lost,    \* those of them that a list setter has put out of their list
          edited, domFault

domVars == <<class, source, at, phase, object, again, nodes, lost, edited, domFault>>

\* An element of the document, and a value or a node that was made from it.
Item(tag, id, val) == [tag |-> tag, id |-> id, val |-> val]
Lowered(x) == [x EXCEPT !.tag = Lower(@)]
\* what a number or a truth value is apart from its digits: fine has more digits than
\* write() prints, rounded is what is left of it
Values(type) == CASE type = "real" -> {"exact", "fine"}
                  [] type = "bool" -> {"true", "false"}
                  [] OTHER -> {"exact"}
Empty(c) == [attr |-> <<>>, text |-> FALSE, bits |-> {}, kind |-> "unknown",
             elem |-> [t \in DOMAIN Elements(c) |-> <<>>]]

-----------------------------------------------------------------------------
\* Setters.  The nodes an assignment deletes are in Replaced().
SetOne(o, x) == [o EXCEPT !.bits = @ \cup {x.tag}, !.elem[x.tag] = <<x>>]
Prepend1(o, x) == [o EXCEPT !.elem[x.tag] = <<x>> \o @]
Append1(o, x) == [o EXCEPT !.elem[x.tag] = Append(@, x)]
NotCleared(c, o) == o.elem
\* clear(false) and the new kind
Cleared(c, o) == [t \in DOMAIN o.elem |-> IF t \in Deletes(c) THEN <<>> ELSE o.elem[t]]
SetChoice(c, o, x) == [o EXCEPT !.kind = x.tag, !.elem = [Cleared(c, o) EXCEPT ![x.tag] = <<x>>]]
Set(c, o, x) == IF Header(c).choice THEN SetChoice(c, o, x) ELSE SetOne(o, x)
\* a list as it is given; it has no bit
SetList(o, t, s) == [o EXCEPT !.elem[t] = s]
ClearOne(o, t) == [o EXCEPT !.bits = @ \ {t}, !.elem[t] = <<>>]

Ids(c, o, tags) == UNION {{x.id : x \in Range(o.elem[t])} : t \in tags \cap Deletes(c)}
ReplacedNone(c, o, t) == {}
Replaced(c, o, t) == Ids(c, o, IF Header(c).choice THEN Deletes(c) ELSE {t})

\* read(): the attributes, the elements by their lower-case tags, the text
ReadAttribute(type, v) == IF type = "bool" THEN (IF v = "true" THEN "true" ELSE "false") ELSE v
ReadAllAttributes(c, attr) ==
    [a \in DOMAIN attr |-> IF a \in DOMAIN Header(c).attributes
                           THEN ReadAttribute(Header(c).attributes[a], attr[a]) ELSE attr[a]]
ReadAttributes(c, attr) ==
    [a \in DOMAIN attr \cap DOMAIN Header(c).attributes |->
        ReadAttribute(Header(c).attributes[a], attr[a])]
Begin(c, e) == [Empty(c) EXCEPT !.attr = ReadAttributes(c, e.attr)]
ReadElement(c, o, x) ==
    LET y == Lowered(x)
    IN  CASE y.tag \notin Reads(c) -> o
          [] y.tag \in Reads(c) /\ Elements(c)[y.tag].many -> Append1(o, y)
          [] OTHER -> Set(c, o, y)
ReadAll(c, e) ==
    LET after[i \in 0..Len(e.items)] ==
            IF i = 0 THEN Begin(c, e) ELSE ReadElement(c, after[i - 1], e.items[i])
    IN [after[Len(e.items)] EXCEPT !.text = e.text]

\* write(): bool attributes are converted to int, numbers are printed with 8 or 15 digits
WriteAttribute(type, v) == CASE type = "bool" -> IF v = "true" THEN "1" ELSE "0"
                             [] v = "fine" -> "rounded"
                             [] OTHER -> v
WriteValue(x) == [x EXCEPT !.val = IF @ = "fine" THEN "rounded" ELSE @]
HasElement(c, o, t) == IF Header(c).choice THEN o.kind = t
                       ELSE Elements(c)[t].many \/ t \in o.bits
WriteStale(c, o, tag) ==
    LET s == o.elem[Lower(tag)] IN [i \in DOMAIN s |-> [WriteValue(s[i]) EXCEPT !.tag = tag]]
WriteElement(c, o, tag) ==
    IF HasElement(c, o, Lower(tag)) THEN WriteStale(c, o, tag) ELSE <<>>
Written(c, o) ==
    [attr |-> [a \in DOMAIN o.attr |-> WriteAttribute(Header(c).attributes[a], o.attr[a])],
     text |-> o.text,
     items |-> FlattenSeq([i \in DOMAIN Writes(c) |-> WriteElement(c, o, Writes(c)[i])])]

-----------------------------------------------------------------------------
\* a form has at most one of the attributes here; a tag and an attribute nobody declared
\* stand for all others
Attributes(c) ==
    {<<>>} \cup {[b \in {"other"} |-> "exact"]}
           \cup UNION {{[b \in {a} |-> v] : v \in Values(Header(c).attributes[a])} :
                          a \in DOMAIN Header(c).attributes}
ElementItems(c, id) ==
    {Item("other", id, "exact")}
        \cup UNION {{Item(t, id, v) : v \in Values(Elements(c)[Lower(t)].type)} :
                       t \in Range(Writes(c))}
Sources(c) == {[attr |-> a, text |-> b, items |-> <<>>] : a \in Attributes(c), b \in BOOLEAN}

DomInit ==
    /\ class \in ClassNames
    /\ source \in Sources(class)
    /\ at = 1 /\ phase = "read"
    /\ object = Begin(class, source) /\ again = Empty(class)
    /\ nodes = {} /\ lost = {} /\ edited = FALSE /\ domFault = "none"

\* A delete of nodes that are not there any more stops the program
Free(ids, new) == /\ nodes' = (nodes \ ids) \cup new
                  /\ domFault' = IF ids \subseteq nodes THEN domFault ELSE "double_delete"
New(x) == IF x.tag \in Deletes(class) THEN {x.id} ELSE {}

\* the next child element: a node is made and reads it before it is stored
ReadChild ==
    /\ phase = "read" /\ at <= MaxElements
    /\ source.attr = <<>>                          \* (the attributes are read alone)
    /\ \E x \in ElementItems(class, at) :
          LET y == Lowered(x)
              known == y.tag \in Reads(class)
          IN  /\ source' = [source EXCEPT !.items = Append(@, x)]
              /\ object' = ReadElement(class, object, x)
              /\ Free(IF known /\ ~Elements(class)[y.tag].many
                      THEN Replaced(class, object, y.tag) ELSE {},
                      IF known THEN New(y) ELSE {})
    /\ at' = at + 1
    /\ UNCHANGED <<class, phase, again, lost, edited>>

ReadText ==
    /\ phase = "read"
    /\ object' = [object EXCEPT !.text = source.text]
    /\ phase' = "edit"
    /\ UNCHANGED <<class, source, at, again, nodes, lost, edited, domFault>>

Editing == phase = "edit" /\ at <= MaxElements /\ edited' = TRUE /\ at' = at + 1
Singles == {t \in DOMAIN Elements(class) : ~Elements(class)[t].many}

SetElement(t) ==
    /\ Editing /\ t \in Singles
    /\ LET x == Item(t, at, "exact")
       IN  /\ object' = Set(class, object, x)
           /\ Free(Replaced(class, object, t), New(x))
    /\ UNCHANGED <<class, source, phase, again, lost>>

ClearElement(t) ==
    /\ Editing /\ t \in Singles /\ ~Header(class).choice
    /\ object' = ClearOne(object, t)
    /\ Free(Replaced(class, object, t), {})
    /\ UNCHANGED <<class, source, phase, again, lost>>

\* The setter of a list takes the list it is given, one of the caller's own or the old one with
\* an element more, and deletes nothing: no member has the nodes of the old list any more.
NewLists(s, x) == {<<>>, <<x>>, Append(s, x)}
SetElementList(t) ==
    /\ Editing /\ t \in DOMAIN Elements(class) \ Singles
    /\ LET x == Item(t, at, "exact")
       IN  \E s \in NewLists(object.elem[t], x) :
              /\ object' = SetList(object, t, s)
              /\ Free({}, IF s = <<>> THEN {} ELSE New(x))
              /\ lost' = lost \cup (Ids(class, object, {t}) \ Ids(class, SetList(object, t, s), {t}))
    /\ UNCHANGED <<class, source, phase, again>>

WriteAndReadAgain ==
    /\ phase = "edit"
    /\ again' = ReadAll(class, Written(class, object))
    /\ phase' = "written"
    /\ UNCHANGED <<class, source, at, object, nodes, lost, edited, domFault>>

\* ~Dom...(), or clear()
Delete ==
    /\ phase \in {"edit", "written"}
    /\ Free(Ids(class, object, Deletes(class)), {})
    /\ object' = Empty(class) /\ phase' = "deleted"
    /\ UNCHANGED <<class, source, at, again, lost, edited>>

DomNext ==
    \/ ReadChild \/ ReadText \/ WriteAndReadAgain \/ Delete
    \/ \E t \in DOMAIN Elements(class) : SetElement(t) \/ SetElementList(t) \/ ClearElement(t)

DomSpec == DomInit /\ [][DomNext]_domVars

-----------------------------------------------------------------------------
\* Types of the state (the classes of ui4.h).
DomTypeOK ==
    /\ class \in ClassNames /\ at \in 1..MaxElements + 1
    /\ Len(source.items) <= MaxElements /\ edited \in BOOLEAN
    /\ phase \in {"read", "edit", "written", "deleted"}
    /\ \A o \in {object, again} :
          /\ DOMAIN o.attr \subseteq DOMAIN Header(class).attributes
          /\ o.bits \subseteq Singles /\ o.kind \in Singles \cup {"unknown"}
          /\ Header(class).choice \/ \A t \in Singles : t \in o.bits <=> Len(o.elem[t]) = 1
          /\ \A t \in DOMAIN Elements(class) : \A x \in Range(o.elem[t]) : x.tag = t
    /\ nodes \subseteq 1..MaxElements /\ lost \subseteq 1..MaxElements
    /\ domFault \in {"none", "double_delete"}

\* Whatever was read twice, set again or cleared: a node is in one place of one member until it
\* is deleted, once, at the latest with the object.  The setters of lists are the exception:
\* they lose the nodes of the list they replace, which nothing deletes any more.  No other
\* operation loses a node, and none that is lost comes back.
OwnedOnce ==
    /\ domFault = "none"
    /\ nodes \ lost = Ids(class, object, Deletes(class)) /\ lost \subseteq nodes
    /\ \A t, u \in Deletes(class) :
          \A i \in DOMAIN object.elem[t], j \in DOMAIN object.elem[u] :
              object.elem[t][i].id = object.elem[u][j].id => t = u /\ i = j

\* the items with one of the tags, in their order and with their tags in lower case
Tagged(items, tags) ==
    FlattenSeq([i \in DOMAIN items |->
        IF Lower(items[i].tag) \in tags THEN <<Lowered(items[i])>> ELSE <<>>])
LastOf(s) == IF s = <<>> THEN <<>> ELSE <<s[Len(s)]>>
\* what a class makes of them for one of its members
Expected(c, items, t) ==
    IF Elements(c)[t].many THEN Tagged(items, {t})
    ELSE IF Header(c).choice
         THEN LET last == LastOf(Tagged(items, Reads(c)))
              IN IF last # <<>> /\ last[1].tag = t THEN last ELSE <<>>
    ELSE LastOf(Tagged(items, {t}))
Shown(c, o) == [t \in DOMAIN Elements(c) |-> IF HasElement(c, o, t) THEN o.elem[t] ELSE <<>>]

\* After read(): lists have the elements in the order of the document, single elements are the
\* last of their tag, a choice is the last element it knows; the rest is passed over.
ReadsDocument ==
    (phase = "edit" /\ ~edited) =>
        Shown(class, object) =
            [t \in DOMAIN Elements(class) |-> Expected(class, source.items, t)]

\* write() and read() are inverses: what was written is read as it was, down to the digits
\* write() prints.  (The attribute native of a widget is the exception: it is printed as a
\* number, which read() takes for false.)
RoundTrip ==
    phase = "written" =>
        /\ again.text = object.text
        /\ DOMAIN again.attr = DOMAIN object.attr
        /\ \A a \in DOMAIN again.attr :
              IF Header(class).attributes[a] = "bool" THEN again.attr[a] = "false"
              ELSE again.attr[a] = WriteAttribute("", object.attr[a])
        /\ Shown(class, again) = [t \in DOMAIN Elements(class) |->
              LET s == Shown(class, object)[t] IN [i \in DOMAIN s |-> WriteValue(s[i])]]
=============================================================================
