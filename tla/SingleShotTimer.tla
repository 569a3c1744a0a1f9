---------------------------- MODULE SingleShotTimer ----------------------------
(***************************************************************************)
(* QTimer::singleShot() of Qore programs: mySingleShotTimer is a QObject   *)
(* with a Qore object that nobody but itself refers to.  It connects its   *)
(* dynamic signal timeout() to the slot, emits it once from timerEvent()   *)
(* and then deletes itself.  Slots run inside the event loop, may run an   *)
(* event loop of their own, delete receivers, and start other timers.      *)
(***************************************************************************)
EXTENDS Naturals, Sequences, FiniteSets

CONSTANTS Timers,        \* timers a program starts, each once
          Receivers,
          MaxNesting     \* bound: calls of timerEvent() in progress

ASSUME NestingAssumption == MaxNesting \in Nat

VARIABLES timer,     \* per timer: unused, armed, stopped, freed
          receiver,  \* per timer: the object its signal was connected to
          alive,     \* receivers that exist
          loop,      \* the calls of timerEvent() in progress, the innermost last:
                     \* [timer, pc : emit, slot, delete]
          calls,     \* per timer: how often its slot was called
          deleted,   \* timers that a slot deleted through sender()
          timerFault

timerVars == <<timer, receiver, alive, loop, calls, deleted, timerFault>>

TimerInit ==
    /\ timer = [s \in Timers |-> "unused"]
    /\ receiver \in [Timers -> Receivers]
    /\ alive = Receivers /\ loop = <<>>
    /\ calls = [s \in Timers |-> 0]
    /\ deleted = {} /\ timerFault = "none"

Inner == loop[Len(loop)]
AtPc(pc) == timerFault = "none" /\ loop # <<>> /\ Inner.pc = pc
\* Qore code runs outside the event loop or in a slot; the event loop is run by the
\* program or by the slot
QoreRuns == timerFault = "none" /\ (loop = <<>> \/ AtPc("slot"))
MoveTo(pc) == loop' = [loop EXCEPT ![Len(loop)].pc = pc]

Becomes(s, state) == timer' = [timer EXCEPT ![s] = state]

\* arg_handler_QTimer_singleShot(): a receiver that is gone is refused before there is a
\* timer; when the slot cannot be connected the new object is dereferenced
StartTimer(s) ==
    /\ QoreRuns /\ timer[s] = "unused" /\ receiver[s] \in alive
    /\ Becomes(s, "armed")
    /\ UNCHANGED <<receiver, alive, loop, calls, deleted, timerFault>>

KeptByNobody == "stopped"
Dereferenced == "freed"
RefuseSlot(s) ==
    /\ QoreRuns /\ timer[s] = "unused" /\ receiver[s] \in alive
    /\ Becomes(s, Dereferenced)
    /\ UNCHANGED <<receiver, alive, loop, calls, deleted, timerFault>>

\* timerEvent(): the timer is killed before timeout() is emitted
NotKilled(s) == UNCHANGED timer
KillTimer(s) == Becomes(s, "stopped")
TimerEvent(s) ==
    /\ QoreRuns /\ timer[s] = "armed" /\ Len(loop) < MaxNesting
    /\ KillTimer(s)
    /\ loop' = Append(loop, [timer |-> s, pc |-> "emit"])
    /\ UNCHANGED <<receiver, alive, calls, deleted, timerFault>>

EmitTimeout ==
    /\ AtPc("emit")
    /\ IF receiver[Inner.timer] \in alive
       THEN MoveTo("slot") /\ calls' = [calls EXCEPT ![Inner.timer] = @ + 1]
       ELSE MoveTo("delete") /\ UNCHANGED calls
    /\ UNCHANGED <<timer, receiver, alive, deleted, timerFault>>

SlotReturns ==
    /\ AtPc("slot") /\ MoveTo("delete")
    /\ UNCHANGED <<timer, receiver, alive, calls, deleted, timerFault>>

\* doDelete() of the Qore object deletes the QObject; one that a slot deleted is used here
LeaveAlone(s) == UNCHANGED timer
DoDelete(s) == Becomes(s, "freed")
DeleteTimer ==
    /\ AtPc("delete")
    /\ IF timer[Inner.timer] = "freed"
       THEN timerFault' = "freed" /\ UNCHANGED timer
       ELSE DoDelete(Inner.timer) /\ UNCHANGED timerFault
    /\ loop' = SubSeq(loop, 1, Len(loop) - 1)
    /\ UNCHANGED <<receiver, alive, calls, deleted>>

\* a slot deletes the object that sender() gives it
DeleteSender ==
    /\ AtPc("slot") /\ timer[Inner.timer] # "freed"
    /\ Becomes(Inner.timer, "freed")
    /\ deleted' = deleted \cup {Inner.timer}
    /\ UNCHANGED <<receiver, alive, loop, calls, timerFault>>

\* deleting a receiver disconnects it
DeleteReceiver(r) ==
    /\ QoreRuns /\ r \in alive
    /\ alive' = alive \ {r}
    /\ UNCHANGED <<timer, receiver, loop, calls, deleted, timerFault>>

TimerNext ==
    \/ \E s \in Timers : StartTimer(s) \/ RefuseSlot(s) \/ TimerEvent(s)
    \/ EmitTimeout \/ SlotReturns \/ DeleteTimer \/ DeleteSender
    \/ \E r \in Receivers : DeleteReceiver(r)

\* the event loop serves every timer that is due, and slots return
TimerFairness ==
    /\ \A s \in Timers : WF_timerVars(TimerEvent(s))
    /\ WF_timerVars(EmitTimeout) /\ WF_timerVars(SlotReturns) /\ WF_timerVars(DeleteTimer)

TimerSpec == TimerInit /\ [][TimerNext]_timerVars /\ TimerFairness

-----------------------------------------------------------------------------
EventsOf(s) == {i \in DOMAIN loop : loop[i].timer = s}

\* Types of the state (mySingleShotTimer).
TimerTypeOK ==
    /\ timer \in [Timers -> {"unused", "armed", "stopped", "freed"}]
    /\ receiver \in [Timers -> Receivers] /\ alive \subseteq Receivers
    /\ loop \in Seq([timer : Timers, pc : {"emit", "slot", "delete"}])
    /\ calls \in [Timers -> Nat]
    /\ deleted \subseteq Timers /\ timerFault \in {"none", "freed"}

\* "need to kill the timer _before_ we emit timeout() in case the slot connected to timeout
\* calls processEvents()" (timerEvent()): the slot is called at most once, and there is never
\* a second event of a timer inside the first.
FiresOnce == \A s \in Timers : calls[s] <= 1 /\ Cardinality(EventsOf(s)) <= 1

\* The program only uses a freed timer when a slot deleted its sender(); and a timer that
\* will not fire any more is freed, also when its slot could not be connected: what is
\* neither armed nor in timerEvent() is gone.
FreedOnce ==
    /\ timerFault # "none" => deleted # {}
    /\ \A s \in Timers : timer[s] = "stopped" => EventsOf(s) # {}

\* A timer that was started fires and frees itself, unless the program fails first.
EveryTimerEnds ==
    \A s \in Timers : timer[s] = "armed" ~> (timer[s] = "freed" \/ timerFault # "none")
=============================================================================
