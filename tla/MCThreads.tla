------------------------------- MODULE MCThreads -------------------------------
(***************************************************************************)
(* The parts of Twisted that threads share, for TLC: the calls from other  *)
(* threads, the two kinds of IExclusiveWorker and the thread pool.  They   *)
(* are checked side by side, without interaction: the initial state        *)
(* chooses the one that is used.  Call 1 queues call 4 when it runs.       *)
(***************************************************************************)
EXTENDS ThreadCalls

CONSTANTS Callers, Works, MayRaise, Workers, Tasks, Sizes, InitialSize, MaxCalls, NONE

VARIABLES
    kind,
    hasQuit, workQueue, callerPc, workArg, workThread, workCur, workOffered,
    workAccepted, workEnded,
    lockIsSet, hasLock, holder, working, lockPc, saw, lockArg, lockCur, lockOffered,
    lockAccepted, lockEnded,
    started, joined, size, teamQuit, shouldQuit, toShrink, idle, busyCount, pending,
    coordinatorQuit, lock, thread, task, picked, taskQueue, workerQuit, poolPc, seen, n,
    then, calls, accepted, begun, ended

workVars == <<hasQuit, workQueue, callerPc, workArg, workThread, workCur, workOffered,
              workAccepted, workEnded>>
lockVars == <<lockIsSet, hasLock, holder, working, lockPc, saw, lockArg, lockCur,
              lockOffered, lockAccepted, lockEnded>>
poolVars == <<started, joined, size, teamQuit, shouldQuit, toShrink, idle, busyCount,
              pending, coordinatorQuit, lock, thread, task, picked, taskQueue, workerQuit,
              poolPc, seen, n, then, calls, accepted, begun, ended>>

Worker == INSTANCE ThreadWorker WITH
    isSet <- hasQuit, q <- workQueue, pc <- callerPc, arg <- workArg, thread <- workThread,
    cur <- workCur, offered <- workOffered, accepted <- workAccepted, ended <- workEnded

Lock == INSTANCE LockWorker WITH
    isSet <- lockIsSet, pc <- lockPc, arg <- lockArg, cur <- lockCur,
    offered <- lockOffered, accepted <- lockAccepted, ended <- lockEnded

Pool == INSTANCE ThreadPool WITH q <- taskQueue, hasQuit <- workerQuit, pc <- poolPc

ASSUME WorkerParameters == Worker!ThreadWorkerAssumption /\ Lock!LockWorkerAssumption

ASSUME PoolParameters == Pool!ThreadPoolAssumption

AddsCallFour == [c \in {1} |-> 4]
SmallSizes == {<<0, 1>>, <<1, 2>>}
FirstSize == <<0, 1>>

-------------------------------------------------------------------------------
AnyInit ==
    /\ kind \in {"ThreadCalls", "ThreadWorker", "LockWorker", "ThreadPool"}
    /\ Init /\ Worker!Init /\ Lock!Init /\ Pool!Init

AnyNext ==
    \/ kind = "ThreadCalls" /\ Next /\ UNCHANGED <<kind, workVars, lockVars, poolVars>>
    \/ kind = "ThreadWorker" /\ Worker!Next /\ UNCHANGED <<kind, vars, lockVars, poolVars>>
    \/ kind = "LockWorker" /\ Lock!Next /\ UNCHANGED <<kind, vars, workVars, poolVars>>
    \/ kind = "ThreadPool" /\ Pool!Next /\ UNCHANGED <<kind, vars, workVars, lockVars>>

\* What each part assumes of the scheduler, for the part that is used.
AnySpec ==
    /\ AnyInit /\ [][AnyNext]_<<kind, vars, workVars, lockVars, poolVars>>
    /\ WF_vars(kind = "ThreadCalls" /\ Reactor)
    /\ \A t \in Threads : WF_vars(kind = "ThreadCalls" /\ Write(t))
    /\ WF_workVars(kind = "ThreadWorker" /\ Worker!Get)
    /\ WF_workVars(kind = "ThreadWorker" /\ Worker!TaskEnds)
    /\ \A c \in Callers : WF_workVars(kind = "ThreadWorker" /\ Worker!CallerProceeds(c))
    /\ \A t \in Threads : WF_lockVars(kind = "LockWorker" /\ Lock!Proceed(t))
    /\ WF_poolVars(kind = "ThreadPool" /\ Pool!CallerProceeds)
    /\ \A w \in Workers : WF_poolVars(kind = "ThreadPool" /\ Pool!ThreadProceeds(w))

-------------------------------------------------------------------------------
(***************************************************************************)
(* Both kinds of worker implement IExclusiveWorker: work begins only if it *)
(* was accepted, one piece at a time, and none is accepted once quit() has *)
(* returned.  (ExclusiveWorker.tla has the abstract specification.)        *)
(***************************************************************************)
WorkersImplement == Worker!Implements /\ Lock!Implements

(***************************************************************************)
(* A LockWorker does what it accepted, whichever thread runs it and        *)
(* however do() is nested, and quit() ends the thread of a ThreadWorker.   *)
(***************************************************************************)
WorkersFinish == Worker!QuitEndsThread /\ Lock!AcceptedIsDone

(***************************************************************************)
(* The Team's bookkeeping is true whenever its lock is free, idle workers  *)
(* accept work, and no task is lost, stranded or done twice by shrinking,  *)
(* growing, recycling and quitting (ThreadPool.tla has the parts).         *)
(***************************************************************************)
PoolIsSound == Pool!PoolIsSound

(***************************************************************************)
(* stop() returns, and the tasks that a started pool has taken end.        *)
(***************************************************************************)
PoolFinishes == Pool!PoolFinishes
===============================================================================
