--------------------------- MODULE ReactorLifecycle ---------------------------
(***************************************************************************)
(* How a reactor starts and stops: the five flags of ReactorBase, the main *)
(* loop, and the `startup' and `shutdown' system events, whose triggers    *)
(* (_ThreePhaseEvent) set and reset those flags.                           *)
(*                                                                         *)
(* One thread runs everything.  Application code has control outside run,  *)
(* in the reactor's callbacks, and inside each trigger; from any of these  *)
(* places it may stop or crash the reactor, add and remove triggers, and   *)
(* fire a Deferred that a `before' trigger returned, which resumes the     *)
(* suspended event then and there.                                         *)
(***************************************************************************)
EXTENDS Integers, Sequences, SequencesExt, FiniteSets

CONSTANTS Triggers,     \* the application's triggers, each added at most once
          AsyncEvents,  \* the events whose `before' triggers may return Deferreds
          MaxCrashes,   \* bound: calls of crash() by the application
          ReallyStart,  \* the trigger _reallyStartRunning
          CrashReactor, \* the trigger crash
          Disconnect,   \* the trigger disconnectAll
          NONE

Events == {"startup", "shutdown"}
Phases == {"before", "during", "after"}
Builtin == {ReallyStart, CrashReactor, Disconnect}

ReactorLifecycleAssumption ==
    /\ AsyncEvents \subseteq Events /\ MaxCrashes \in Nat
    /\ Cardinality(Builtin) = 3 /\ Builtin \cap Triggers = {}
    /\ NONE \notin Triggers \cup Builtin

VARIABLES
    stopped, justStopped, started, startedBefore,   \* ReactorBase._stopped, ...
    running,
    triggers,        \* the lists before, during and after of each event
    state,           \* _ThreePhaseEvent.state
    finishedBefore,  \* _ThreePhaseEvent.finishedBefore
    stack,           \* the calls of fireEvent and _continueFiring in progress
    waits,           \* the DeferredLists that will call _continueFiring
    owed,            \* the <<event, trigger>> whose Deferred has yet to fire
    pc,              \* where the reactor's thread is
    added,           \* the triggers that were added so far
    whenRunning,     \* ... and those that callWhenRunning added
    due,             \* history: the `shutdown' triggers that are to run
    crashes          \* bookkeeping for MaxCrashes

flags == <<stopped, justStopped, started, startedBefore, running>>
events == <<triggers, state, finishedBefore, stack, waits, owed>>
history == <<added, whenRunning, due, crashes>>
vars == <<flags, events, pc, history>>

Init ==
    /\ stopped = TRUE /\ justStopped = FALSE /\ started = FALSE
    /\ startedBefore = FALSE /\ running = FALSE
    /\ triggers = [e \in Events |-> [p \in Phases |->
                      IF p # "during" THEN <<>>
                      ELSE IF e = "startup" THEN <<ReallyStart>>
                      ELSE <<CrashReactor, Disconnect>>]]
    /\ state = [e \in Events |-> "BASE"]
    /\ finishedBefore = [e \in Events |-> {}]
    /\ stack = <<>> /\ waits = {} /\ owed = {} /\ pc = "out"
    /\ added = {} /\ whenRunning = {} /\ due = {} /\ crashes = 0

Elements(s) == {s[i] : i \in DOMAIN s}

Top == stack[Len(stack)]
Below == SubSeq(stack, 1, Len(stack) - 1)

Frame(e, p) == [event |-> e, phase |-> p, calling |-> NONE, results |-> {}]

(***************************************************************************)
(* Where the application has control.                                      *)
(***************************************************************************)
Application ==
    IF stack = <<>> THEN pc \in {"out", "calls", "io"} ELSE Top.calling # NONE

-------------------------------------------------------------------------------
(***************************************************************************)
(* fireEvent begins the `before' phase; _continueFiring the other two.     *)
(***************************************************************************)
FireEvent(e) ==
    /\ stack' = Append(stack, Frame(e, "before"))
    /\ state' = [state EXCEPT ![e] = "BEFORE"]
    /\ finishedBefore' = [finishedBefore EXCEPT ![e] = {}]

ContinueFiring(frames, e) ==
    /\ stack' = Append(frames, Frame(e, "during"))
    /\ state' = [state EXCEPT ![e] = "BASE"]
    /\ finishedBefore' = [finishedBefore EXCEPT ![e] = {}]

AddTrigger(ts, e, p, t) == [ts EXCEPT ![e][p] = Append(@, t)]

LoopGoesOn == UNCHANGED started

LoopEnds == started' = FALSE

StayRunning == UNCHANGED running

NotRunning == running' = FALSE

(***************************************************************************)
(* crash(), by the application or as the trigger of `during shutdown'.     *)
(***************************************************************************)
Crash(ts) ==
    /\ LoopEnds /\ NotRunning
    /\ triggers' = AddTrigger(ts, "startup", "during", ReallyStart)

-------------------------------------------------------------------------------
(***************************************************************************)
(* The operations of the application.                                      *)
(***************************************************************************)
Stop ==
    /\ Application
    /\ ~stopped
    /\ stopped' = TRUE /\ justStopped' = TRUE /\ startedBefore' = TRUE
    /\ UNCHANGED <<started, running, events, pc, history>>

CallCrash ==
    /\ Application
    /\ crashes < MaxCrashes
    /\ crashes' = crashes + 1
    /\ Crash(triggers)
    /\ UNCHANGED <<stopped, justStopped, startedBefore, state, finishedBefore,
                   stack, waits, owed, pc, added, whenRunning, due>>

(***************************************************************************)
(* An added `shutdown' trigger is due if its phase has yet to begin.       *)
(***************************************************************************)
InProgress(e) == {i \in DOMAIN stack : stack[i].event = e}

Suspended(e) == {w \in waits : w.event = e}

Ahead(e, p) ==
    \/ ~startedBefore \/ justStopped
    \/ /\ p # "before"
       /\ Suspended(e) # {} \/ \E i \in InProgress(e) : stack[i].phase = "before"

AddSystemEventTrigger(e, p, t) ==
    /\ Application
    /\ t \notin added
    /\ added' = added \cup {t}
    /\ triggers' = AddTrigger(triggers, e, p, t)
    /\ due' = IF e = "shutdown" /\ Ahead(e, p) THEN due \cup {t} ELSE due
    /\ UNCHANGED <<flags, state, finishedBefore, stack, waits, owed, pc,
                   whenRunning, crashes>>

(***************************************************************************)
(* callWhenRunning.  On a running reactor the callable is called at once,  *)
(* and what it does is what the application may do at this place anyway.   *)
(***************************************************************************)
NeverAtOnce == FALSE

WhenStarted == "after"

CallAtOnce == running

CallWhenRunning(t) ==
    /\ Application
    /\ t \notin added
    /\ added' = added \cup {t}
    /\ IF CallAtOnce THEN UNCHANGED <<triggers, whenRunning>>
       ELSE /\ triggers' = AddTrigger(triggers, "startup", WhenStarted, t)
            /\ whenRunning' = whenRunning \cup {t}
    /\ UNCHANGED <<flags, state, finishedBefore, stack, waits, owed, pc,
                   due, crashes>>

(***************************************************************************)
(* removeSystemEventTrigger.  A `before' trigger that this firing already  *)
(* called only earns a warning, any other absent trigger a ValueError.     *)
(***************************************************************************)
RemoveSystemEventTrigger(e, p, t) ==
    /\ Application
    /\ ~(state[e] = "BEFORE" /\ p = "before" /\ t \in finishedBefore[e])
    /\ \E i \in DOMAIN triggers[e][p] :
          triggers[e][p][i] = t /\ triggers' = [triggers EXCEPT ![e][p] = RemoveAt(@, i)]
    /\ due' = due \ {t}
    /\ UNCHANGED <<flags, state, finishedBefore, stack, waits, owed, pc, added,
                   whenRunning, crashes>>

(***************************************************************************)
(* The Deferred that trigger t returned fires: the last one of a firing    *)
(* runs the rest of the event before it returns to whoever fired it.       *)
(***************************************************************************)
Owed(e) == {t \in Triggers : <<e, t>> \in owed}

Completes(w, e, t) == w.event = e /\ w.on \cap Owed(e) = {t}

FireDeferred(e, t) ==
    /\ Application
    /\ <<e, t>> \in owed
    /\ owed' = owed \ {<<e, t>>}
    /\ IF \E w \in waits : Completes(w, e, t)
       THEN LET w == CHOOSE w \in waits : Completes(w, e, t)
            IN waits' = waits \ {w} /\ ContinueFiring(stack, e)
       ELSE UNCHANGED <<waits, stack, state, finishedBefore>>
    /\ UNCHANGED <<flags, triggers, pc, history>>

-------------------------------------------------------------------------------
(***************************************************************************)
(* The loops of fireEvent and _continueFiring.                             *)
(***************************************************************************)
SetTop(frame) == stack' = Append(Below, frame)

Firing == stack # <<>> /\ Top.calling = NONE

Listed == triggers[Top.event][Top.phase]

Popped == [triggers EXCEPT ![Top.event][Top.phase] = Tail(@)]

NoteFinished ==
    finishedBefore' = IF Top.phase # "before" THEN finishedBefore
                      ELSE [finishedBefore EXCEPT ![Top.event] = @ \cup {Head(Listed)}]

(***************************************************************************)
(* The reactor's own triggers; disconnectAll calls the connectionLost of   *)
(* the application's protocols and is thus one more place where the        *)
(* application has control.                                                *)
(***************************************************************************)
CallReallyStartRunning ==
    /\ Firing /\ Listed # <<>> /\ Head(Listed) = ReallyStart
    /\ running' = TRUE
    /\ triggers' = Popped
    /\ UNCHANGED <<stopped, justStopped, started, startedBefore, state,
                   finishedBefore, stack, waits, owed, pc, history>>

CallCrashTrigger ==
    /\ Firing /\ Listed # <<>> /\ Head(Listed) = CrashReactor
    /\ Crash(Popped)
    /\ UNCHANGED <<stopped, justStopped, startedBefore, state,
                   finishedBefore, stack, waits, owed, pc, history>>

CallTrigger ==
    /\ Firing /\ Listed # <<>> /\ Head(Listed) \in Triggers \cup {Disconnect}
    /\ triggers' = Popped
    /\ NoteFinished
    /\ SetTop([Top EXCEPT !.calling = Head(Listed)])
    /\ due' = due \ {Head(Listed)}
    /\ UNCHANGED <<flags, state, waits, owed, pc, added, whenRunning, crashes>>

(***************************************************************************)
(* The trigger returns or raises; a Deferred counts only in `before'.      *)
(***************************************************************************)
TriggerReturns ==
    /\ stack # <<>> /\ Top.calling # NONE
    /\ SetTop([Top EXCEPT !.calling = NONE])
    /\ UNCHANGED <<flags, triggers, state, finishedBefore, waits, owed, pc, history>>

ReturnsDeferred ==
    /\ stack # <<>> /\ Top.calling \in Triggers
    /\ Top.phase = "before" /\ Top.event \in AsyncEvents
    /\ owed' = owed \cup {<<Top.event, Top.calling>>}
    /\ SetTop([Top EXCEPT !.calling = NONE, !.results = @ \cup {Top.calling}])
    /\ UNCHANGED <<flags, triggers, state, finishedBefore, waits, pc, history>>

(***************************************************************************)
(* DeferredList(beforeResults).addCallback(self._continueFiring): called   *)
(* at once when all of them have fired.                                    *)
(***************************************************************************)
BeforeEnds ==
    /\ Firing /\ Listed = <<>> /\ Top.phase = "before"
    /\ IF Top.results \cap Owed(Top.event) = {}
       THEN ContinueFiring(Below, Top.event) /\ UNCHANGED waits
       ELSE /\ waits' = waits \cup {[event |-> Top.event, on |-> Top.results]}
            /\ stack' = Below
            /\ UNCHANGED <<state, finishedBefore>>
    /\ UNCHANGED <<flags, triggers, owed, pc, history>>

AfterUnlessCrashed == IF started THEN SetTop([Top EXCEPT !.phase = "after"]) ELSE stack' = Below

AfterIsNext == SetTop([Top EXCEPT !.phase = "after"])

DuringEnds ==
    /\ Firing /\ Listed = <<>> /\ Top.phase = "during"
    /\ AfterIsNext
    /\ UNCHANGED <<flags, triggers, state, finishedBefore, waits, owed, pc, history>>

AfterEnds ==
    /\ Firing /\ Listed = <<>> /\ Top.phase = "after"
    /\ stack' = Below
    /\ UNCHANGED <<flags, triggers, state, finishedBefore, waits, owed, pc, history>>

-------------------------------------------------------------------------------
(***************************************************************************)
(* run(): startRunning, then mainLoop.  It is called from outside only.    *)
(***************************************************************************)
Run ==
    /\ pc = "out" /\ stack = <<>>
    /\ ~started /\ ~startedBefore
    /\ started' = TRUE /\ stopped' = FALSE
    /\ FireEvent("startup")
    /\ pc' = "loop"
    /\ UNCHANGED <<justStopped, startedBefore, running, triggers, waits, owed, history>>

LoopAgain ==
    /\ pc = "loop" /\ stack = <<>> /\ started
    /\ pc' = "calls"
    /\ UNCHANGED <<flags, events, history>>

RunReturns ==
    /\ pc = "loop" /\ stack = <<>> /\ ~started
    /\ pc' = "out"
    /\ UNCHANGED <<flags, events, history>>

(***************************************************************************)
(* runUntilCurrent has made the calls that were due.                       *)
(***************************************************************************)
KeepStop == UNCHANGED justStopped

NoteStop == justStopped' = FALSE

CallsMade ==
    /\ pc = "calls" /\ stack = <<>>
    /\ pc' = "io"
    /\ IF justStopped THEN NoteStop /\ FireEvent("shutdown")
       ELSE UNCHANGED <<justStopped, stack, state, finishedBefore>>
    /\ UNCHANGED <<stopped, started, startedBefore, running, triggers, waits,
                   owed, history>>

DoIterationReturns ==
    /\ pc = "io" /\ stack = <<>>
    /\ pc' = "loop"
    /\ UNCHANGED <<flags, events, history>>

-------------------------------------------------------------------------------
Reactor ==
    \/ CallReallyStartRunning \/ CallCrashTrigger \/ CallTrigger
    \/ TriggerReturns \/ BeforeEnds \/ DuringEnds \/ AfterEnds
    \/ LoopAgain \/ RunReturns \/ CallsMade \/ DoIterationReturns

Next ==
    \/ Reactor \/ ReturnsDeferred \/ Run \/ Stop \/ CallCrash
    \/ \E t \in Triggers :
          \/ CallWhenRunning(t)
          \/ \E e \in Events : FireDeferred(e, t)
          \/ \E e \in Events, p \in Phases :
                AddSystemEventTrigger(e, p, t) \/ RemoveSystemEventTrigger(e, p, t)

(***************************************************************************)
(* The thread goes on, and triggers and callbacks return.                  *)
(***************************************************************************)
Spec == Init /\ [][Next]_vars /\ WF_vars(Reactor)

(***************************************************************************)
(* Moreover the Deferreds that triggers returned fire, one after another;  *)
(* for one that never does, crash() is the way out.                        *)
(***************************************************************************)
SomeDeferredFires == \E e \in Events, t \in Triggers : FireDeferred(e, t)

FairSpec == Spec /\ SF_vars(SomeDeferredFires)

-------------------------------------------------------------------------------
TypeOK ==
    /\ \A f \in {stopped, justStopped, started, startedBefore, running} : f \in BOOLEAN
    /\ \A e \in Events :
          /\ \A p \in Phases : Elements(triggers[e][p]) \subseteq Triggers \cup Builtin
          /\ state[e] \in {"BASE", "BEFORE"}
          /\ finishedBefore[e] \subseteq Triggers
          /\ crashes = 0 /\ state[e] = "BASE" => finishedBefore[e] = {}
    /\ \A i \in DOMAIN stack :
          /\ stack[i].event \in Events /\ stack[i].phase \in Phases
          /\ stack[i].calling \in Triggers \cup {Disconnect, NONE}
          /\ stack[i].results \subseteq Triggers
          /\ i < Len(stack) => stack[i].calling # NONE
    /\ waits \subseteq [event : Events, on : SUBSET Triggers]
    /\ owed \subseteq Events \X Triggers
    /\ pc \in {"out", "loop", "calls", "io"}
    /\ added \subseteq Triggers /\ whenRunning \subseteq added /\ due \subseteq added
    /\ crashes \in 0..MaxCrashes

(***************************************************************************)
(* A stopped reactor shuts down completely: when the main loop ends after  *)
(* stop(), and the application did not crash it, every `shutdown' trigger  *)
(* that was added before its phase began has run or was removed, however   *)
(* the event was suspended and whatever ran in between.                    *)
(***************************************************************************)
ShutdownIsComplete ==
    pc = "loop" /\ stack = <<>> /\ ~started /\ crashes = 0 =>
        startedBefore /\ due = {} /\ Suspended("shutdown") = {}

(***************************************************************************)
(* `during' and `after' triggers of an event run only when every Deferred  *)
(* that a `before' trigger of the event returned has fired, unless the     *)
(* application crashed the reactor and fired the event a second time.      *)
(***************************************************************************)
BeforeIsAwaited ==
    crashes = 0 =>
        \A i \in DOMAIN stack : stack[i].phase # "before" => Owed(stack[i].event) = {}

(***************************************************************************)
(* One stop, one shutdown: the event is never fired while an earlier       *)
(* firing of it is in progress or suspended, nor while one is due.         *)
(***************************************************************************)
OneShutdown ==
    /\ Cardinality(InProgress("shutdown")) + Cardinality(Suspended("shutdown")) <= 1
    /\ justStopped => InProgress("shutdown") = {} /\ Suspended("shutdown") = {}

(***************************************************************************)
(* No callable given to callWhenRunning is forgotten: on a running reactor *)
(* whose startup is over, none of them is left in the list.                *)
(***************************************************************************)
WhenRunningIsCalled ==
    running /\ InProgress("startup") = {} =>
        whenRunning \cap Elements(triggers["startup"]["after"]) = {}

LifecycleIsSound ==
    ShutdownIsComplete /\ BeforeIsAwaited /\ OneShutdown /\ WhenRunningIsCalled

(***************************************************************************)
(* IReactorCore.running: true from `during startup' to `during shutdown'   *)
(* and false the rest of the time, so never true outside run().            *)
(***************************************************************************)
RunningOnlyWhileStarted == pc = "out" /\ stack = <<>> => ~running

(***************************************************************************)
(* After stop() run() returns, provided that the Deferreds of the `before  *)
(* shutdown' triggers fire.                                                *)
(***************************************************************************)
StopEndsRun == startedBefore ~> pc = "out"
===============================================================================
