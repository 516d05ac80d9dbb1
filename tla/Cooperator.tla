------------------------------- MODULE Cooperator -------------------------------
(***************************************************************************)
(* twisted.internet.task.Cooperator and CooperativeTask: iterators that    *)
(* take turns, one work unit each, in ticks that a scheduler calls.        *)
(*                                                                         *)
(* self._metarator is a Python list iterator: an index into a list that    *)
(* goes on changing under it.  stop() gives the Cooperator a new list and  *)
(* leaves the metarator on the old one.                                    *)
(***************************************************************************)
EXTENDS Integers, Sequences, SequencesExt, FiniteSets

CONSTANTS Tasks,      \* the iterators given to cooperate()
          MaxPause    \* bound: pause() calls of the application outstanding per task

Idle == "idle"          \* no tick is going on
Between == "between"    \* a tick is between two work units

ASSUME CooperatorAssumption == {Idle, Between} \cap Tasks = {} /\ MaxPause \in Nat

VARIABLES
    ready,       \* self._tasks
    index,       \* how many elements the metarator has passed
    leftover,    \* the old list the metarator is on, if detached
    detached,    \* the metarator is not on self._tasks
    delayed,     \* self._delayedCall is not None
    stopped, started, mustSchedule,
    turn,        \* the task whose iterator is running, Idle or Between
    completion,  \* [t] _completionState: "unborn", "running" or how it ended
    pauseCount,  \* [t]
    waits,       \* [t] the iterator yielded a Deferred that has not fired
    answered,    \* [t] history: whenDone's Deferred has a result
    impolite,    \* history: an iterator went on after its task had been ended
    dropped      \* history: the tasks stop() forgot without ending them

coopVars == <<ready, index, leftover, detached, delayed, stopped, started, mustSchedule,
              turn, completion, pauseCount, waits, answered, impolite, dropped>>

Init ==
    /\ ready = <<>> /\ index = 0 /\ leftover = <<>> /\ detached = TRUE
    /\ delayed = FALSE /\ stopped = FALSE /\ started \in BOOLEAN /\ mustSchedule = FALSE
    /\ turn = Idle
    /\ completion = [t \in Tasks |-> "unborn"]
    /\ pauseCount = [t \in Tasks |-> 0]
    /\ waits = [t \in Tasks |-> FALSE]
    /\ answered = [t \in Tasks |-> FALSE]
    /\ impolite = FALSE /\ dropped = {}

iteration == <<index, leftover, detached>>
history == <<impolite, dropped>>

-------------------------------------------------------------------------------
(***************************************************************************)
(* _reschedule, _addTask and _removeTask, given the list that results.     *)
(***************************************************************************)
Reschedule(list) ==
    IF started
    THEN delayed' = (delayed \/ list # <<>>) /\ UNCHANGED mustSchedule
    ELSE mustSchedule' = TRUE /\ UNCHANGED delayed

Finished(t) == completion[t] \notin {"unborn", "running"}

\* A task that is added after stop() is put on the list only to be removed.
AddTask(t, pauses) ==
    /\ pauseCount' = pauses
    /\ IF stopped
       THEN /\ completion' = [completion EXCEPT ![t] = "SchedulerStopped"]
            /\ answered' = [answered EXCEPT ![t] = TRUE]
            /\ delayed' = (delayed /\ ready # <<>>)
            /\ UNCHANGED <<ready, mustSchedule>>
       ELSE /\ completion' = [completion EXCEPT ![t] = "running"]
            /\ ready' = Append(ready, t)
            /\ Reschedule(ready')
            /\ UNCHANGED answered

AlwaysKeepCall(list) == delayed

\* The delayed call is cancelled when the last task goes.
KeepCall(list) == delayed /\ list # <<>>

RemoveTask(t) ==
    /\ ready' = RemoveFirst(ready, t)
    /\ delayed' = KeepCall(ready')

\* list.remove raises ValueError: the task is not paused and yet not listed.
Missing(t) == pauseCount[t] = 0 /\ ~Contains(ready, t)

\* _completeWith; the ValueError comes before the Deferreds are fired.
CompleteWith(t, how) ==
    /\ completion' = [completion EXCEPT ![t] = how]
    /\ answered' = [answered EXCEPT ![t] = @ \/ ~Missing(t)]
    /\ IF pauseCount[t] = 0 THEN RemoveTask(t) ELSE UNCHANGED <<ready, delayed>>

-------------------------------------------------------------------------------
(***************************************************************************)
(* The API.  Applications call it between ticks or from an iterator.       *)
(***************************************************************************)
Cooperate(t) ==
    /\ completion[t] = "unborn"
    /\ AddTask(t, pauseCount)
    /\ UNCHANGED <<iteration, stopped, started, turn, waits, history>>

Pause(t) ==
    /\ completion[t] = "running" /\ pauseCount[t] < MaxPause
    /\ pauseCount' = [pauseCount EXCEPT ![t] = @ + 1]
    /\ IF pauseCount[t] = 0 THEN RemoveTask(t) ELSE UNCHANGED <<ready, delayed>>
    /\ UNCHANGED <<iteration, stopped, started, mustSchedule, turn, completion, waits,
                   answered, history>>

\* resume(), by the application or as the callback of the Deferred yielded.
ResumeTask(t) ==
    /\ pauseCount[t] > 0
    /\ IF pauseCount[t] = 1 /\ completion[t] = "running"
       THEN AddTask(t, [pauseCount EXCEPT ![t] = 0])
       ELSE /\ pauseCount' = [pauseCount EXCEPT ![t] = @ - 1]
            /\ UNCHANGED <<ready, delayed, mustSchedule, completion, answered>>
    /\ UNCHANGED <<iteration, stopped, started, turn, history>>

\* The application undoes its own pauses only.
Resume(t) ==
    /\ pauseCount[t] > (IF waits[t] THEN 1 ELSE 0)
    /\ ResumeTask(t)
    /\ UNCHANGED waits

StopTask(t) ==
    /\ completion[t] = "running"
    /\ CompleteWith(t, "TaskStopped")
    /\ UNCHANGED <<iteration, stopped, started, mustSchedule, turn, pauseCount, waits, history>>

Start ==
    /\ started' = TRUE /\ stopped' = FALSE
    /\ mustSchedule' = FALSE
    /\ delayed' = (delayed \/ (mustSchedule /\ ready # <<>>))
    /\ UNCHANGED <<ready, iteration, turn, completion, pauseCount, waits, answered, history>>

\* stop() walks the list that _completeWith removes the tasks from, so that
\* every second one is passed over and then forgotten.
Passed == [i \in 1..Len(ready) \div 2 |-> ready[2 * i]]
Reached == ToSet(ready) \ ToSet(Passed)

Stop ==
    /\ stopped' = TRUE
    /\ completion' = [t \in Tasks |-> IF t \in Reached THEN "SchedulerStopped" ELSE completion[t]]
    /\ answered' = [t \in Tasks |-> answered[t] \/ t \in Reached]
    /\ leftover' = IF detached THEN leftover ELSE Passed
    /\ detached' = TRUE
    /\ dropped' = dropped \cup ToSet(Passed)
    /\ ready' = <<>>
    /\ delayed' = FALSE
    /\ UNCHANGED <<index, started, mustSchedule, turn, pauseCount, waits, impolite>>

-------------------------------------------------------------------------------
(***************************************************************************)
(* _tick.  Next element of the metarator, a new metarator if it has none,  *)
(* the end of the tick if there is no task left.                           *)
(***************************************************************************)
Round == IF detached THEN leftover ELSE ready

TakeTurn ==
    IF index < Len(Round)
    THEN /\ turn' = Round[index + 1] /\ index' = index + 1
         /\ UNCHANGED <<leftover, detached, delayed, mustSchedule>>
    ELSE /\ detached' = FALSE /\ leftover' = <<>>
         /\ IF ready # <<>>
            THEN turn' = ready[1] /\ index' = 1 /\ UNCHANGED <<delayed, mustSchedule>>
            ELSE turn' = Idle /\ index' = 0 /\ Reschedule(ready)

Tick ==
    /\ turn = Idle /\ delayed
    /\ LET fresh == index >= Len(Round) IN
       /\ delayed' = FALSE
       /\ turn' = IF fresh THEN ready[1] ELSE Round[index + 1]
       /\ index' = IF fresh THEN 1 ELSE index + 1
       /\ detached' = (detached /\ ~fresh)
       /\ leftover' = IF fresh THEN <<>> ELSE leftover
    /\ UNCHANGED <<ready, stopped, started, mustSchedule, completion, pauseCount, waits,
                   answered, history>>

-------------------------------------------------------------------------------
(***************************************************************************)
(* _oneWorkUnit, after the iterator has yielded, ended or raised; then the *)
(* terminator is asked.                                                    *)
(***************************************************************************)

\* An exception leaves _oneWorkUnit and _tick: nothing is rescheduled.
Escapes(t) ==
    /\ impolite' = TRUE
    /\ turn' = Idle
    /\ UNCHANGED <<ready, iteration, delayed, stopped, started, mustSchedule, answered, dropped>>

Yields(t) ==
    /\ turn = t
    /\ turn' = Between
    /\ UNCHANGED <<ready, iteration, delayed, stopped, started, mustSchedule, completion,
                   pauseCount, waits, answered, history>>

YieldsDeferred(t) ==
    /\ turn = t
    /\ IF Finished(t)
       THEN Escapes(t) /\ UNCHANGED <<completion, pauseCount, waits>>
       ELSE IF Missing(t)
       THEN /\ Escapes(t)
            /\ pauseCount' = [pauseCount EXCEPT ![t] = @ + 1]
            /\ UNCHANGED <<completion, waits>>
       ELSE /\ turn' = Between
            /\ waits' = [waits EXCEPT ![t] = TRUE]
            /\ pauseCount' = [pauseCount EXCEPT ![t] = @ + 1]
            /\ IF pauseCount[t] = 0 THEN RemoveTask(t) ELSE UNCHANGED <<ready, delayed>>
            /\ UNCHANGED <<iteration, stopped, started, mustSchedule, completion, answered,
                           history>>

Ends(t, how) ==
    /\ turn = t
    /\ how \in {"TaskDone", "TaskFailed"}
    /\ IF Missing(t)
       THEN /\ Escapes(t)
            /\ completion' = [completion EXCEPT ![t] = how]
       ELSE /\ turn' = Between
            /\ CompleteWith(t, how)
            /\ impolite' = (impolite \/ Finished(t))
            /\ UNCHANGED <<iteration, stopped, started, mustSchedule, dropped>>
    /\ UNCHANGED <<pauseCount, waits>>

\* The terminator lets the tick go on ...
GoesOn ==
    /\ turn = Between
    /\ TakeTurn
    /\ UNCHANGED <<ready, stopped, started, completion, pauseCount, waits, answered, history>>

TickEndsTheRound ==
    /\ turn = Between
    /\ turn' = Idle
    /\ index' = 0
    /\ Reschedule(ready)
    /\ UNCHANGED <<ready, leftover, detached, stopped, started, completion, pauseCount, waits,
                   answered, history>>

\* ... or ends it; the next one goes on where the metarator is.
TickEnds ==
    /\ turn = Between
    /\ turn' = Idle
    /\ Reschedule(ready)
    /\ UNCHANGED <<ready, iteration, stopped, started, completion, pauseCount, waits,
                   answered, history>>

\* The Deferred an iterator yielded fires, or fails: failLater does not ask
\* whether the task has ended in the meantime.
DeferredFires(t) ==
    /\ waits[t] /\ turn # Between
    /\ waits' = [waits EXCEPT ![t] = FALSE]
    /\ ResumeTask(t)

DeferredFails(t) ==
    /\ waits[t] /\ turn # Between
    /\ waits' = [waits EXCEPT ![t] = FALSE]
    /\ CompleteWith(t, "TaskFailed")
    /\ UNCHANGED <<iteration, stopped, started, mustSchedule, turn, pauseCount, history>>

-------------------------------------------------------------------------------
UnitEnds(t) ==
    \/ Yields(t)
    \/ YieldsDeferred(t)
    \/ \E how \in {"TaskDone", "TaskFailed"} : Ends(t, how)

Api ==
    \/ \E t \in Tasks : Cooperate(t) \/ Pause(t) \/ Resume(t) \/ StopTask(t)
    \/ Start
    \/ Stop

Next ==
    \/ turn # Between /\ Api
    \/ Tick
    \/ \E t \in Tasks : UnitEnds(t) \/ DeferredFires(t) \/ DeferredFails(t)
    \/ GoesOn
    \/ TickEnds

\* The reactor makes the scheduler's calls, iterators return, and a tick goes
\* on from one to the next.
Fairness ==
    /\ WF_coopVars(Tick)
    /\ WF_coopVars(\E t \in Tasks : UnitEnds(t))
    /\ WF_coopVars(GoesOn \/ TickEnds)

Spec == Init /\ [][Next]_coopVars /\ Fairness

-------------------------------------------------------------------------------
(***************************************************************************)
(* Stop of a Cooperator ends the tasks that have been added to it: none is *)
(* forgotten while its whenDone Deferreds wait.                            *)
(***************************************************************************)
StopEndsAllTasks == dropped = {}

Orderly == ~impolite /\ dropped = {}

(***************************************************************************)
(* Whatever order tasks are added, paused, resumed, stopped and ended in,  *)
(* also by the iterators themselves: the list holds exactly the tasks that *)
(* can run, a tick is scheduled whenever there is one and none is          *)
(* otherwise (a Cooperator never stalls), and whenDone has been answered   *)
(* for a task exactly when it has ended.  It takes iterators that, once    *)
(* their task has been ended, merely yield, and a stop() that passed over  *)
(* no task.                                                                *)
(***************************************************************************)
CooperatorNeverStalls ==
    Orderly =>
        /\ IsInjective(ready)
        /\ ToSet(ready) = {t \in Tasks : completion[t] = "running" /\ pauseCount[t] = 0}
        /\ delayed => ready # <<>>
        /\ (turn = Idle /\ started /\ ready # <<>>) => delayed
        /\ \A t \in Tasks : answered[t] <=> Finished(t)
        /\ stopped => ready = <<>>

(***************************************************************************)
(* Turns are shared: a task on the list gets a work unit or leaves the     *)
(* list, although the metarator skips tasks when others before them leave. *)
(***************************************************************************)
GetsATurn(t) ==
    (Contains(ready, t) /\ started /\ Orderly) ~> (turn = t \/ ~Contains(ready, t) \/ ~Orderly)
===============================================================================
