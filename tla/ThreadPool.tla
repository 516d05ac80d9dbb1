------------------------------ MODULE ThreadPool ------------------------------
(***************************************************************************)
(* twisted.python.threadpool.ThreadPool on top of twisted._threads: a Team *)
(* whose coordinator is a LockWorker and whose workers are ThreadWorkers.  *)
(*                                                                         *)
(* One thread (the reactor's: "callInThread and stop should only be called *)
(* from a single thread") calls the pool's methods.  Each worker's thread  *)
(* takes tasks from its own queue and reports to the coordinator after     *)
(* each.  The Team's state changes under the coordinator's lock, but       *)
(* ThreadPool.workers and start() read it without, one attribute after the *)
(* other: what they see may never have been true.  The critical sections   *)
(* of a worker's thread are therefore cut where such a reader can tell.    *)
(* Those of the caller are not, nobody else reads without the lock.        *)
(***************************************************************************)
EXTENDS Integers, Sequences, FiniteSets

CONSTANTS Workers,     \* ThreadWorkers; one whose thread has ended stands for a new one
          Tasks,       \* callables passed to callInThread, each of them once
          Sizes,       \* <<minthreads, maxthreads>> pairs passed to adjustPoolsize
          InitialSize, \* the pair passed to the constructor
          MaxCalls,    \* bound: calls of the methods that adjust the pool
          NONE

ThreadPoolAssumption ==
    /\ Sizes \cup {InitialSize} \subseteq {s \in Nat \X Nat : s[1] <= s[2]}
    /\ MaxCalls \in Nat
    /\ NONE \notin Workers \cup Tasks \cup {"caller"}
    /\ Workers \cap {"caller"} = {} /\ Tasks \cap {"stop"} = {}

VARIABLES
    started, joined, size,             \* ThreadPool: flags, and <<min, max>>
    teamQuit, shouldQuit, toShrink,    \* Team._quit, _shouldQuitCoordinator, _toShrink
    idle, busyCount, pending,          \* Team._idle, _busyCount, _pending
    coordinatorQuit,                   \* Team._coordinator._quit
    lock,                              \* who holds the coordinator's lock
    thread,                            \* where each worker's thread is
    task,                              \* the task it has in hand, or NONE
    picked,                            \* Team._coordinateThisTask's local `worker'
    q, hasQuit,                        \* ThreadWorker._q and ._hasQuit
    pc,                                \* where the calling thread is
    seen,                              \* ... the len(_idle) it has read, or -1
    n,                                 \* ... the argument of its grow() or shrink()
    then,                              \* ... where it goes on when adjustPoolsize returns
    calls,                             \* bookkeeping for MaxCalls
    accepted, begun, ended             \* history: tasks taken on; times begun; ended

pool == <<started, joined, size>>
team == <<shouldQuit, toShrink, idle, busyCount, pending, coordinatorQuit>>
workers == <<thread, task, picked, q, hasQuit>>
caller == <<pc, seen, n, then, calls>>
history == <<accepted, begun, ended>>
vars == <<pool, teamQuit, team, lock, workers, caller, history>>

Init ==
    /\ started = FALSE /\ joined = FALSE /\ size = InitialSize
    /\ teamQuit = FALSE /\ shouldQuit = FALSE /\ toShrink = 0
    /\ idle = {} /\ busyCount = 0 /\ pending = <<>>
    /\ coordinatorQuit = FALSE /\ lock = NONE
    /\ thread = [w \in Workers |-> "none"]
    /\ task = [w \in Workers |-> NONE]
    /\ picked = NONE
    /\ q = [w \in Workers |-> <<>>] /\ hasQuit = [w \in Workers |-> FALSE]
    /\ pc = "free" /\ seen = -1 /\ n = 0 /\ then = "free" /\ calls = 0
    /\ accepted = {} /\ begun = [t \in Tasks |-> 0] /\ ended = {}

Goto(label) == pc' = label

(***************************************************************************)
(* What the coordinator does to ThreadWorkers: quit() and do(), and the    *)
(* constructor, which starts a thread on a new queue.                      *)
(***************************************************************************)
SetFlagOnly(W) ==
    /\ hasQuit' = [w \in Workers |-> w \in W \/ hasQuit[w]]
    /\ UNCHANGED q

QuitWorkers(W) ==
    /\ hasQuit' = [w \in Workers |-> w \in W \/ hasQuit[w]]
    /\ q' = [w \in Workers |-> IF w \in W THEN Append(q[w], "stop") ELSE q[w]]

DoTask(w, t) ==
    /\ q' = [q EXCEPT ![w] = Append(@, t)]
    /\ UNCHANGED hasQuit

NewWorker(w) ==
    /\ thread[w] \in {"none", "dead"}
    /\ thread' = [thread EXCEPT ![w] = "get"]
    /\ UNCHANGED <<task, picked>>

(***************************************************************************)
(* limitedWorkerCreator.                                                   *)
(***************************************************************************)
CurrentLimit == IF started THEN size[2] ELSE 0

MayCreate == busyCount + Cardinality(idle) < CurrentLimit

(***************************************************************************)
(* Parts of _coordinateThisTask, idleAndPending and _recycleWorker.        *)
(***************************************************************************)
ForgetToCount == UNCHANGED busyCount

CountBusy == busyCount' = busyCount + 1

CountBack == busyCount' = busyCount - 1

PeekPending == UNCHANGED pending

TakePending == pending' = Tail(pending)

RetryUnlessShrinking == pending # <<>> /\ toShrink = 0

RetryUnlessQuitting == pending # <<>> /\ ~shouldQuit

MustRetry == pending # <<>>

StayIdle(w) == UNCHANGED idle

LeaveIdle(w) == idle' = idle \ {w}

QuitCoordinatorEarly(flag) == flag

MayQuitCoordinator(flag) == flag /\ busyCount = 0

(***************************************************************************)
(* Team._quitIdlers(k).  k may be negative when the caller's two reads of  *)
(* the number of workers disagree; range(k) is then empty.                 *)
(***************************************************************************)
QuitIdlers(k, flag) ==
    \E W \in SUBSET idle :
        /\ Cardinality(W) = IF k < 0 THEN 0
                            ELSE IF k < Cardinality(idle) THEN k ELSE Cardinality(idle)
        /\ idle' = idle \ W
        /\ QuitWorkers(W)
        /\ toShrink' = toShrink + (IF k > Cardinality(W) THEN k - Cardinality(W) ELSE 0)
        /\ coordinatorQuit' = (coordinatorQuit \/ MayQuitCoordinator(flag))

EveryWorker == Cardinality(idle) + busyCount

-------------------------------------------------------------------------------
(***************************************************************************)
(* The calling thread.                                                     *)
(***************************************************************************)

Call(label, next) ==
    /\ pc = "free" /\ calls < MaxCalls
    /\ calls' = calls + 1
    /\ Goto(label) /\ then' = next
    /\ UNCHANGED <<teamQuit, team, lock, workers, seen, history>>

Start ==
    /\ Call("tooMany", "backlog")
    /\ joined' = FALSE /\ started' = TRUE
    /\ UNCHANGED <<size, n>>

AdjustPoolsize(s) ==
    /\ Call(IF started THEN "tooMany" ELSE "free", "free")
    /\ size' = s
    /\ UNCHANGED <<started, joined, n>>

StartAWorker == Call("grow", "free") /\ n' = 1 /\ UNCHANGED pool

StopAWorker == Call("shrink", "free") /\ n' = 1 /\ UNCHANGED pool

Stop ==
    /\ Call(IF teamQuit THEN "free" ELSE "quit", "free")
    /\ joined' = TRUE /\ started' = FALSE
    /\ UNCHANGED <<size, n>>

(***************************************************************************)
(* The body of adjustPoolsize.  ThreadPool.workers reads len(_idle) first  *)
(* and _busyCount afterwards, and is evaluated again for the difference.   *)
(***************************************************************************)
ReadIdle ==
    /\ pc \in {"tooMany", "shrinkBy", "tooFew", "growBy"} /\ seen = -1
    /\ seen' = Cardinality(idle)
    /\ UNCHANGED <<pool, teamQuit, team, lock, workers, pc, n, then, calls, history>>

ReadBusy(label, result, next) ==
    /\ pc = label /\ seen # -1
    /\ seen' = -1
    /\ n' = result
    /\ Goto(next)
    /\ UNCHANGED <<pool, teamQuit, team, lock, workers, then, calls, history>>

Count == seen + busyCount

CheckMax == ReadBusy("tooMany", 0, IF Count > size[2] THEN "shrinkBy" ELSE "tooFew")

ExcessOverMax == ReadBusy("shrinkBy", Count - size[2], "shrinkExcess")

CheckMin == ReadBusy("tooFew", 0, IF Count < size[1] THEN "growBy" ELSE then)

ShortOfMin == ReadBusy("growBy", size[1] - Count, "grow")

(***************************************************************************)
(* The rest of start(): workers for the tasks that came before it.         *)
(***************************************************************************)
Backlog ==
    /\ pc = "backlog"
    /\ n' = Len(pending)
    /\ then' = "free"
    /\ Goto(IF pending = <<>> THEN "free" ELSE "grow")
    /\ UNCHANGED <<pool, teamQuit, team, lock, workers, seen, calls, history>>

(***************************************************************************)
(* Team.grow, shrink, do and quit: the check of Team._quit, and then a     *)
(* critical section of the coordinator.  The loop of grow() is one step    *)
(* per worker, with the lock held between them.                            *)
(***************************************************************************)
Refused ==
    /\ pc \in {"grow", "shrink", "shrinkExcess"} /\ teamQuit
    /\ Goto("free")
    /\ UNCHANGED <<pool, teamQuit, team, lock, workers, seen, n, then, calls, history>>

Shrink ==
    /\ pc \in {"shrink", "shrinkExcess"} /\ ~teamQuit /\ lock = NONE
    /\ QuitIdlers(n, shouldQuit)
    /\ Goto(IF pc = "shrink" THEN "free" ELSE "tooFew")
    /\ UNCHANGED <<pool, teamQuit, shouldQuit, busyCount, pending, lock, thread, task,
                   picked, seen, n, then, calls, history>>

Growing ==
    /\ pc = "grow" /\ ~teamQuit /\ lock \in {NONE, "caller"}

GrowOne(w) ==
    /\ Growing /\ n > 0 /\ MayCreate
    /\ lock' = "caller" /\ n' = n - 1
    /\ NewWorker(w)
    /\ UNCHANGED <<pool, teamQuit, shouldQuit, coordinatorQuit, pc, seen, then, calls, history>>

GrowForPending(w) ==
    /\ MustRetry
    /\ GrowOne(w)
    /\ \E v \in idle \cup {w} :
        /\ idle' = (idle \cup {w}) \ {v}
        /\ q' = [[q EXCEPT ![w] = <<>>] EXCEPT ![v] = Append(@, Head(pending))]
    /\ TakePending
    /\ CountBusy
    /\ hasQuit' = [hasQuit EXCEPT ![w] = FALSE]
    /\ UNCHANGED toShrink

GrowForShrink(w) ==
    /\ ~MustRetry /\ toShrink > 0
    /\ GrowOne(w)
    /\ toShrink' = toShrink - 1
    /\ q' = [q EXCEPT ![w] = <<"stop">>]
    /\ hasQuit' = [hasQuit EXCEPT ![w] = TRUE]
    /\ UNCHANGED <<idle, busyCount, pending>>

GrowIdle(w) ==
    /\ ~MustRetry /\ toShrink = 0
    /\ GrowOne(w)
    /\ idle' = idle \cup {w}
    /\ q' = [q EXCEPT ![w] = <<>>]
    /\ hasQuit' = [hasQuit EXCEPT ![w] = FALSE]
    /\ UNCHANGED <<busyCount, pending, toShrink>>

GrowEnds ==
    /\ Growing /\ (n <= 0 \/ ~MayCreate)
    /\ lock' = NONE /\ n' = 0
    /\ Goto(then)
    /\ UNCHANGED <<pool, teamQuit, team, workers, seen, then, calls, history>>

(***************************************************************************)
(* callInThread(t): a call after stop() returns without a trace.  Finding  *)
(* a worker for the task is _coordinateThisTask.                           *)
(***************************************************************************)
CallInThread(t) ==
    /\ pc = "free" /\ ~joined /\ ~teamQuit /\ lock = NONE
    /\ t \notin accepted /\ accepted' = accepted \cup {t}
    /\ UNCHANGED <<pool, teamQuit, shouldQuit, toShrink, coordinatorQuit, lock, task,
                   picked, caller, begun, ended>>

CallOnIdle(t) ==
    /\ CallInThread(t)
    /\ \E w \in idle : idle' = idle \ {w} /\ DoTask(w, t)
    /\ CountBusy
    /\ UNCHANGED <<pending, thread>>

CallOnNew(t) ==
    /\ CallInThread(t)
    /\ idle = {} /\ MayCreate
    /\ \E w \in Workers : /\ NewWorker(w)
                          /\ q' = [q EXCEPT ![w] = <<t>>]
                          /\ hasQuit' = [hasQuit EXCEPT ![w] = FALSE]
    /\ CountBusy
    /\ UNCHANGED <<idle, pending>>

CallBacklogged(t) ==
    /\ CallInThread(t)
    /\ idle = {} /\ ~MayCreate
    /\ pending' = Append(pending, t)
    /\ UNCHANGED <<idle, busyCount, thread, q, hasQuit>>

(***************************************************************************)
(* The rest of stop(): Team.quit and the joins.                            *)
(***************************************************************************)
TeamQuit ==
    /\ pc = "quit" /\ lock = NONE
    /\ teamQuit' = TRUE /\ shouldQuit' = TRUE
    /\ QuitIdlers(EveryWorker, TRUE)
    /\ Goto("join")
    /\ UNCHANGED <<pool, busyCount, pending, lock, thread, task, picked, seen, n, then,
                   calls, history>>

Ended(w) == thread[w] \in {"none", "dead", "raised"}

Join ==
    /\ pc = "join" /\ \A w \in Workers : Ended(w)
    /\ Goto("free")
    /\ UNCHANGED <<pool, teamQuit, team, lock, workers, seen, n, then, calls, history>>

-------------------------------------------------------------------------------
(***************************************************************************)
(* A worker's thread: ThreadWorker's loop, around doWork of the Team.      *)
(***************************************************************************)
At(w, label, next) ==
    /\ thread[w] = label
    /\ thread' = [thread EXCEPT ![w] = next]
    /\ UNCHANGED <<pool, teamQuit, caller, accepted>>

GetTask(w) ==
    /\ At(w, "get", "task")
    /\ q[w] # <<>> /\ Head(q[w]) # "stop"
    /\ q' = [q EXCEPT ![w] = Tail(@)]
    /\ task' = [task EXCEPT ![w] = Head(q[w])]
    /\ begun' = [begun EXCEPT ![Head(q[w])] = @ + 1]
    /\ UNCHANGED <<team, lock, picked, hasQuit, ended>>

GetStop(w) ==
    /\ At(w, "get", "dead")
    /\ q[w] # <<>> /\ Head(q[w]) = "stop"
    /\ q' = [q EXCEPT ![w] = Tail(@)]
    /\ UNCHANGED <<team, lock, task, picked, hasQuit, begun, ended>>

TaskEnds(w) ==
    /\ At(w, "task", "report")
    /\ ended' = ended \cup {task[w]}
    /\ task' = [task EXCEPT ![w] = NONE]
    /\ UNCHANGED <<team, lock, picked, q, hasQuit, begun>>

(***************************************************************************)
(* coordinator.do(idleAndPending): an exception when the coordinator has   *)
(* quit, which ends the thread; else the lock.                             *)
(***************************************************************************)
Report(w) ==
    /\ At(w, "report", IF coordinatorQuit THEN "raised" ELSE "wait")
    /\ UNCHANGED <<team, lock, task, picked, q, hasQuit, begun, ended>>

Acquire(w) ==
    /\ At(w, "wait", "decrement")
    /\ lock = NONE /\ lock' = w
    /\ UNCHANGED <<team, task, picked, q, hasQuit, begun, ended>>

Decrement(w) ==
    /\ At(w, "decrement", "add")
    /\ CountBack
    /\ UNCHANGED <<shouldQuit, toShrink, idle, pending, coordinatorQuit, lock, task,
                   picked, q, hasQuit, begun, ended>>

AddIdle(w) ==
    /\ At(w, "add", "recycle")
    /\ idle' = idle \cup {w}
    /\ UNCHANGED <<shouldQuit, toShrink, busyCount, pending, coordinatorQuit, lock, task,
                   picked, q, hasQuit, begun, ended>>

RetryPending(w) ==
    /\ At(w, "recycle", "dispatch")
    /\ MustRetry
    /\ \E v \in idle : idle' = idle \ {v} /\ picked' = v
    /\ task' = [task EXCEPT ![w] = Head(pending)]
    /\ TakePending
    /\ UNCHANGED <<shouldQuit, toShrink, busyCount, coordinatorQuit, lock, q, hasQuit,
                   begun, ended>>

Dispatch(w) ==
    /\ At(w, "dispatch", "get")
    /\ CountBusy
    /\ DoTask(picked, task[w])
    /\ task' = [task EXCEPT ![w] = NONE]
    /\ picked' = NONE /\ lock' = NONE
    /\ UNCHANGED <<shouldQuit, toShrink, idle, pending, coordinatorQuit, begun, ended>>

RecycleToQuit(w) ==
    /\ At(w, "recycle", "get")
    /\ ~MustRetry /\ shouldQuit
    /\ QuitIdlers(EveryWorker, TRUE)
    /\ lock' = NONE
    /\ UNCHANGED <<shouldQuit, busyCount, pending, task, picked, begun, ended>>

RecycleToShrink(w) ==
    /\ At(w, "recycle", "get")
    /\ ~MustRetry /\ ~shouldQuit /\ toShrink > 0
    /\ toShrink' = toShrink - 1
    /\ LeaveIdle(w)
    /\ QuitWorkers({w})
    /\ lock' = NONE
    /\ UNCHANGED <<shouldQuit, busyCount, pending, coordinatorQuit, task, picked, begun, ended>>

RecycleToIdle(w) ==
    /\ At(w, "recycle", "get")
    /\ ~MustRetry /\ ~shouldQuit /\ toShrink = 0
    /\ lock' = NONE
    /\ UNCHANGED <<team, task, picked, q, hasQuit, begun, ended>>

-------------------------------------------------------------------------------
CallerProceeds ==
    \/ ReadIdle \/ CheckMax \/ ExcessOverMax \/ CheckMin \/ ShortOfMin \/ Backlog
    \/ Refused \/ Shrink \/ GrowEnds \/ TeamQuit \/ Join
    \/ \E w \in Workers : GrowForPending(w) \/ GrowForShrink(w) \/ GrowIdle(w)

ThreadProceeds(w) ==
    \/ GetTask(w) \/ GetStop(w) \/ TaskEnds(w) \/ Report(w) \/ Acquire(w)
    \/ Decrement(w) \/ AddIdle(w) \/ RetryPending(w) \/ Dispatch(w)
    \/ RecycleToQuit(w) \/ RecycleToShrink(w) \/ RecycleToIdle(w)

Methods ==
    \/ Start \/ Stop \/ StartAWorker \/ StopAWorker
    \/ \E s \in Sizes : AdjustPoolsize(s)
    \/ \E t \in Tasks : CallOnIdle(t) \/ CallOnNew(t) \/ CallBacklogged(t)

Next == Methods \/ CallerProceeds \/ \E w \in Workers : ThreadProceeds(w)

(***************************************************************************)
(* Threads are scheduled by the operating system and tasks end; the        *)
(* application calls what it likes, when it likes.                         *)
(***************************************************************************)
Fairness ==
    /\ WF_vars(CallerProceeds)
    /\ \A w \in Workers : WF_vars(ThreadProceeds(w))

Spec == Init /\ [][Next]_vars /\ Fairness

-------------------------------------------------------------------------------
Labels == {"none", "get", "task", "report", "wait", "decrement", "add", "recycle",
           "dispatch", "dead", "raised"}

TypeOK ==
    /\ started \in BOOLEAN /\ joined \in BOOLEAN
    /\ size \in Sizes \cup {InitialSize}
    /\ teamQuit \in BOOLEAN /\ shouldQuit \in BOOLEAN /\ coordinatorQuit \in BOOLEAN
    /\ toShrink \in Nat /\ busyCount \in Nat
    /\ idle \in SUBSET Workers
    /\ pending \in Seq(Tasks)
    /\ lock \in Workers \cup {NONE, "caller"}
    /\ thread \in [Workers -> Labels]
    /\ task \in [Workers -> Tasks \cup {NONE}]
    /\ picked \in Workers \cup {NONE}
    /\ q \in [Workers -> Seq(Tasks \cup {"stop"})] /\ hasQuit \in [Workers -> BOOLEAN]
    /\ seen \in Nat \cup {-1} /\ n \in Int

(***************************************************************************)
(* Whenever the coordinator's lock is free, Team.statistics() is the       *)
(* truth: the workers that were created and have not been quit are the     *)
(* idle ones and _busyCount others.  limitedWorkerCreator relies on it.    *)
(***************************************************************************)
Live == {w \in Workers : ~Ended(w) /\ ~hasQuit[w]}

StatisticsAreTrue ==
    lock = NONE => /\ idle \subseteq Live
                   /\ Cardinality(Live) = Cardinality(idle) + busyCount

(***************************************************************************)
(* An idle worker has an empty queue, has not been quit, and its thread    *)
(* waits for work (or is just reporting): idle.pop().do() and .quit()      *)
(* never raise AlreadyQuit inside the coordinator, and a task given to an  *)
(* idle worker has no other task before it.                                *)
(***************************************************************************)
IdleWorkersAccept ==
    \A w \in idle : /\ q[w] = <<>> /\ ~hasQuit[w]
                    /\ thread[w] = "get" \/ lock = w

(***************************************************************************)
(* The coordinator is not quit while a worker has still to report to it,   *)
(* so that Team.quit never makes coordinator.do raise in a pool thread.    *)
(***************************************************************************)
CoordinatorOutlivesWork == \A w \in Workers : thread[w] # "raised"

(***************************************************************************)
(* A maximum of 0 is allowed.  A pool that has it keeps its backlog, also  *)
(* when adjustPoolsize raises the maximum afterwards, and stop() drops it. *)
(***************************************************************************)
CanRunTasks == \A s \in Sizes \cup {InitialSize} : s[2] > 0

(***************************************************************************)
(* Work is backlogged only while some busy worker will come back for it:   *)
(* a started pool that can run tasks never strands one in _pending.        *)
(***************************************************************************)
BacklogIsServed ==
    CanRunTasks /\ pc = "free" /\ lock = NONE /\ ~teamQuit /\ started /\ pending # <<>>
        => busyCount > 0

(***************************************************************************)
(* A task passed to callInThread is called once at most, however workers   *)
(* are recycled, shrunk or quit.                                           *)
(***************************************************************************)
TasksRunOnce == \A t \in Tasks : begun[t] <= 1

(***************************************************************************)
(* When stop() returns all the pool's threads are gone, and if the pool    *)
(* ever had a thread every task that callInThread took has been done (if   *)
(* it could run tasks at all times).                                       *)
(***************************************************************************)
StopFinishesWork ==
    teamQuit /\ pc = "free" =>
        /\ \A w \in Workers : thread[w] \in {"none", "dead"}
        /\ CanRunTasks /\ (\E w \in Workers : thread[w] # "none") => ended = accepted

PoolIsSound ==
    /\ StatisticsAreTrue /\ IdleWorkersAccept /\ CoordinatorOutlivesWork
    /\ BacklogIsServed /\ TasksRunOnce /\ StopFinishesWork

(***************************************************************************)
(* stop() returns: every thread it joins gets its stop marker.             *)
(***************************************************************************)
StopReturns == pc = "quit" ~> pc = "free"

(***************************************************************************)
(* A task that a started pool has taken is done in the end, also when the  *)
(* pool is shrunk or stopped meanwhile.                                    *)
(***************************************************************************)
TasksEnd == \A t \in Tasks : (t \in accepted /\ started /\ ~teamQuit) ~> t \in ended

PoolFinishes == StopReturns /\ TasksEnd
===============================================================================
