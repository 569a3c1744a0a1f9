-------------------------- MODULE MCDynamicSignals --------------------------
EXTENDS DynamicSignals

CONSTANTS o1, o2

\* The Qt class has a signal "a" and a slot "b"; the Qore class of o1 has a
\* method of its own for "b".
MCStatic == <<[kind |-> "signal", name |-> "a"], [kind |-> "slot", name |-> "b"]>>
MCMethods == [o \in Object |-> IF o = o1 THEN {"b"} ELSE {}]
MCCompatible ==
    {<<"a", "b">>, <<"b", "b">>, <<"a", "c">>, <<"c", "b">>}
=============================================================================
