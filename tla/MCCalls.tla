------------------------------- MODULE MCCalls -------------------------------
(***************************************************************************)
(* The four parts of a call between Qore and Qt, each on a small instance. *)
(* They share no state: every behaviour is one of one part, and the other  *)
(* three stay in one of their initial states.                              *)
(***************************************************************************)
EXTENDS VirtualDispatch, CallArguments, ModelIndexes, SingleShotTimer

CONSTANTS t1, t2, madeHere, foreign
MCOverridden == {<<madeHere, "plain">>, <<madeHere, "pure">>}

VARIABLE part
vars == <<part, dispatchVars, callVars, modelVars, timerVars>>

AScalar == [kind |-> "scalar", const |-> FALSE, byRef |-> FALSE, given |-> "good"]

Init ==
    /\ part \in {"dispatch", "arguments", "model", "timer"}
    /\ IF part = "dispatch" THEN TRUE ELSE wrapped = CallObjects
    /\ IF part = "arguments" THEN TRUE
       ELSE mode = "call" /\ handler = FALSE /\ params = <<AScalar>>
    /\ IF part = "timer" THEN TRUE
       ELSE receiver = [s \in Timers |-> CHOOSE r \in Receivers : TRUE]
    /\ DispatchInit /\ CallInit /\ ModelInit /\ TimerInit

Next ==
    /\ UNCHANGED part
    /\ \/ part = "dispatch" /\ DispatchNext /\ UNCHANGED <<callVars, modelVars, timerVars>>
       \/ part = "arguments" /\ CallNext /\ UNCHANGED <<dispatchVars, modelVars, timerVars>>
       \/ part = "model" /\ ModelNext /\ UNCHANGED <<dispatchVars, callVars, timerVars>>
       \/ part = "timer" /\ TimerNext /\ UNCHANGED <<dispatchVars, callVars, modelVars>>

\* the other parts need no fairness: only the timers have a liveness property
Spec == Init /\ [][Next]_vars /\ TimerFairness

\* Types of the state of the four parts (callMethod(), CommonQoreMethod,
\* QoreSmokePrivateQAbstractItemModelData, mySingleShotTimer).
PartsTypeOK == DispatchTypeOK /\ CallTypeOK /\ ModelTypeOK /\ TimerTypeOK
=============================================================================
