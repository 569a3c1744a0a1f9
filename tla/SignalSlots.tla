---------------------------- MODULE SignalSlots ----------------------------
(***************************************************************************)
(* What signals and slots promise to a Qore program: a link connects the   *)
(* signal of one object with a member of another (a slot, or a signal that *)
(* is emitted in turn), by their names.  An emission calls what is linked  *)
(* at that time, once for every link, in the order the links were made;    *)
(* what dies in the meantime is left out.                                  *)
(***************************************************************************)
EXTENDS Integers, Sequences

CONSTANTS
    Object,    \* the objects
    Member,    \* what can be emitted or called: records with kind and name
    Number,    \* numbers for links and posted emissions
    None,      \* no member
    Own        \* the members that exist only while a Qore object is there

VARIABLES
    links,     \* the links: number, sender, signal, receiver and member
    calls,     \* the nested calls, the running one first: who, which member, what is due
    posted     \* deliveries that other threads left for the event loop

svars == <<links, calls, posted>>

Init == links = {} /\ calls = <<>> /\ posted = {}

\* what a link has to deliver
Delivery(l) == [n |-> l.n, to |-> l.to, member |-> l.member]
Due(o, s) == {Delivery(l) : l \in {k \in links : k.from = o /\ k.signal = s}}
Call(o, m, ds) == [who |-> o, member |-> m, due |-> ds]
First(ds, d) == \A e \in ds : d.n <= e.n
Serve(c, ds) == [c EXCEPT !.due = ds]
Enter(o, m, ds) == calls' = <<Call(o, m, ds)>> \o calls

Connect(o, s, p, m) ==
    /\ UNCHANGED <<calls, posted>>
    /\ \E n \in Number :
          /\ \A l \in links : l.n < n
          /\ links' = links \cup
                {[n |-> n, from |-> o, signal |-> s, to |-> p, member |-> m]}

Emit(o, s) == Enter(o, s, Due(o, s)) /\ UNCHANGED <<links, posted>>

\* an emission of another thread
Post(o, s) ==
    /\ UNCHANGED <<links, calls>>
    /\ \E k \in Number :
          /\ \A e \in posted : e.k < k
          /\ posted' = posted \cup {[k |-> k, d |-> d] : d \in Due(o, s)}

\* what the delivery of d starts: an emission, or the call of a slot
Started(d) ==
    Call(d.to, d.member,
         IF d.member.kind = "signal" THEN Due(d.to, d.member) ELSE {})

Deliver ==
    /\ calls # <<>>
    /\ \E d \in Head(calls).due :
          /\ First(Head(calls).due, d)
          /\ calls' = <<Started(d), Serve(Head(calls), Head(calls).due \ {d})>>
                        \o Tail(calls)
    /\ UNCHANGED <<links, posted>>

\* the event loop takes the oldest delivery
Take ==
    /\ \E e \in posted :
          /\ \A f \in posted : e.k < f.k \/ (e.k = f.k /\ e.d.n <= f.d.n)
          /\ posted' = posted \ {e}
          /\ calls' = <<Started(e.d)>> \o calls
    /\ UNCHANGED links

\* something runs that calls nobody: a destructor, or what finds no method
Silent(o) == Enter(o, None, {}) /\ UNCHANGED <<links, posted>>

Return ==
    /\ calls # <<>> /\ Head(calls).due = {}
    /\ calls' = Tail(calls)
    /\ UNCHANGED <<links, posted>>

\* The Qore object is gone, the Qt object remains: what Qore added to it can
\* neither be emitted nor called any more.
Forget(o) ==
    LET gone(d) == d.to = o /\ d.member \in Own
    IN  /\ links' = {l \in links : ~gone(l) /\ ~(l.from = o /\ l.signal \in Own)}
        /\ calls' = [i \in DOMAIN calls |->
                        Serve(calls[i], {d \in calls[i].due : ~gone(d)})]
        /\ posted' = {e \in posted : ~gone(e.d)}

\* Both are gone, and the emissions of the object end.
Destroy(o) ==
    /\ links' = {l \in links : l.to # o /\ l.from # o}
    /\ calls' = [i \in DOMAIN calls |->
                    Serve(calls[i], IF calls[i].who = o THEN {}
                                    ELSE {d \in calls[i].due : d.to # o})]
    /\ posted' = {e \in posted : e.d.to # o}

Next ==
    \/ Deliver \/ Take \/ Return
    \/ \E o \in Object :
          \/ Silent(o) \/ Forget(o) \/ Destroy(o)
          \/ \E s \in Member :
                \/ Emit(o, s) \/ Post(o, s)
                \/ \E p \in Object, m \in Member : Connect(o, s, p, m)

Spec == Init /\ [][Next]_svars
=============================================================================
