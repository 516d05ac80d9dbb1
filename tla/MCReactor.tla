------------------------------- MODULE MCReactor -------------------------------
(***************************************************************************)
(* The reactor's delayed calls, its start and end, and a LoopingCall, for  *)
(* TLC.  They are checked side by side: the initial state chooses the one  *)
(* that is used.  (The instance MCHandlers has more delayed calls, and no  *)
(* liveness.)                                                              *)
(***************************************************************************)
EXTENDS TimedCalls

CONSTANTS Triggers, AsyncEvents, MaxCrashes, ReallyStart, CrashReactor, Disconnect, NONE,
          Intervals, MaxTime, MaxStarts

VARIABLES
    kind,
    stopped, justStopped, started, startedBefore, running, triggers, state,
    finishedBefore, stack, waits, owed, runPc, added, whenRunning, due, crashes,
    loopNow, looping, call, orphans, inside, outstanding, current, answer, starttime,
    interval, runAtStart, lastTime, counted, fresh, overlapped

lifeVars == <<stopped, justStopped, started, startedBefore, running, triggers, state,
              finishedBefore, stack, waits, owed, runPc, added, whenRunning, due, crashes>>
loopVars == <<loopNow, looping, call, orphans, inside, outstanding, current, answer,
              starttime, interval, runAtStart, lastTime, counted, fresh, overlapped>>

Life == INSTANCE ReactorLifecycle WITH pc <- runPc

Loop == INSTANCE LoopingCall WITH now <- loopNow

ASSUME Life!ReactorLifecycleAssumption /\ Loop!LoopingCallAssumption

SomeShifts == {-2, 1}
BothEvents == {"startup", "shutdown"}

-------------------------------------------------------------------------------
AnyInit ==
    /\ kind \in {"TimedCalls", "ReactorLifecycle", "LoopingCall"}
    /\ Init /\ Life!Init /\ Loop!Init

AnyNext ==
    \/ kind = "TimedCalls" /\ Next /\ UNCHANGED <<kind, lifeVars, loopVars>>
    \/ kind = "ReactorLifecycle" /\ Life!Next /\ UNCHANGED <<kind, vars, loopVars>>
    \/ kind = "LoopingCall" /\ Loop!Next /\ UNCHANGED <<kind, vars, lifeVars>>

\* What each part assumes of the scheduler and of the triggers' Deferreds, for
\* the part that is used.
AnySpec ==
    /\ AnyInit /\ [][AnyNext]_<<kind, vars, lifeVars, loopVars>>
    /\ WF_vars(kind = "TimedCalls" /\ Reactor) /\ WF_vars(kind = "TimedCalls" /\ Tick)
    /\ WF_lifeVars(kind = "ReactorLifecycle" /\ Life!Reactor)
    /\ SF_lifeVars(kind = "ReactorLifecycle" /\ Life!SomeDeferredFires)

-------------------------------------------------------------------------------
(***************************************************************************)
(* EveryCallEnds is stated in TimedCalls, the others in the modules of     *)
(* their components; here they get the names that the configuration uses.  *)
(***************************************************************************)
\* Shutdown is complete, waits for its Deferreds and happens once, and no
\* callable given to callWhenRunning is forgotten.
LifecycleIsSound == Life!LifecycleIsSound

\* run() returns after stop().
StopEndsRun == Life!StopEndsRun

\* A LoopingCall that has not ended is carried on by exactly one thing.
LoopIsCarriedOn == Loop!LoopIsCarriedOn
===============================================================================
