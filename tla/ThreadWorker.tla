----------------------------- MODULE ThreadWorker -----------------------------
(***************************************************************************)
(* twisted._threads.ThreadWorker: an IExclusiveWorker that owns a thread   *)
(* and hands it work through a Queue.Queue.  Its do() and quit() are       *)
(* called from any thread; each is a look at the Quit flag and then a put  *)
(* on the queue, and other threads may run between the two.                *)
(***************************************************************************)
EXTENDS Integers, Sequences, FiniteSets

CONSTANTS Callers,    \* the threads that call do() and quit()
          Works,      \* the callables passed to do(); each is passed once
          NONE,       \* Python's None
          MayRaise    \* the callables that may raise an exception

Stop == "stop"   \* the module's _stop

ThreadWorkerAssumption == {NONE, Stop} \cap Works = {} /\ MayRaise \subseteq Works

VARIABLES
    isSet,      \* ThreadWorker._hasQuit.isSet
    q,          \* the queue
    pc,         \* where each caller is
    arg,        \* the argument of the do() each caller has begun
    thread,     \* the worker's thread: waiting in "get", in a "task", "dead"
    cur,        \* the callable that the thread is calling, or NONE
    offered,    \* history: callables that were passed to do()
    accepted,   \* history: callables for which do() did not raise AlreadyQuit
    ended       \* history: callables that have returned or raised

vars == <<isSet, q, pc, arg, thread, cur, offered, accepted, ended>>

Init ==
    /\ isSet = FALSE /\ q = <<>>
    /\ pc = [c \in Callers |-> "free"] /\ arg = [c \in Callers |-> NONE]
    /\ thread = "get" /\ cur = NONE
    /\ offered = {} /\ accepted = {} /\ ended = {}

Goto(c, label) == pc' = [pc EXCEPT ![c] = label]

(***************************************************************************)
(* do(task): the check, which raises AlreadyQuit or accepts, and the put.  *)
(***************************************************************************)
DoRefused(c, w) ==
    /\ pc[c] = "free" /\ w \notin offered /\ isSet
    /\ offered' = offered \cup {w}
    /\ UNCHANGED <<isSet, q, pc, arg, thread, cur, accepted, ended>>

AlwaysOpen == TRUE

Open == ~isSet

Do(c, w) ==
    /\ pc[c] = "free" /\ w \notin offered /\ Open
    /\ offered' = offered \cup {w} /\ accepted' = accepted \cup {w}
    /\ arg' = [arg EXCEPT ![c] = w]
    /\ Goto(c, "put")
    /\ UNCHANGED <<isSet, q, thread, cur, ended>>

Put(c) ==
    /\ pc[c] = "put"
    /\ q' = Append(q, arg[c])
    /\ arg' = [arg EXCEPT ![c] = NONE]
    /\ Goto(c, "free")
    /\ UNCHANGED <<isSet, thread, cur, offered, accepted, ended>>

(***************************************************************************)
(* quit(): Quit.set() is a check and an assignment; then _stop is put.     *)
(***************************************************************************)
Quit(c) ==
    /\ pc[c] = "free" /\ Open
    /\ Goto(c, "set")
    /\ UNCHANGED <<isSet, q, arg, thread, cur, offered, accepted, ended>>

Set(c) ==
    /\ pc[c] = "set"
    /\ isSet' = TRUE
    /\ Goto(c, "stop")
    /\ UNCHANGED <<q, arg, thread, cur, offered, accepted, ended>>

NoStop == UNCHANGED q

EnqueueStop == q' = Append(q, Stop)

PutStop(c) ==
    /\ pc[c] = "stop"
    /\ EnqueueStop
    /\ Goto(c, "free")
    /\ UNCHANGED <<isSet, arg, thread, cur, offered, accepted, ended>>

(***************************************************************************)
(* The thread: for task in iter(queue.get, _stop): task().  An exception   *)
(* of a task ends the thread, and nobody empties its queue.                *)
(***************************************************************************)
Get ==
    /\ thread = "get" /\ q # <<>>
    /\ q' = Tail(q)
    /\ IF Head(q) = Stop
       THEN thread' = "dead" /\ cur' = NONE
       ELSE thread' = "task" /\ cur' = Head(q)
    /\ UNCHANGED <<isSet, pc, arg, offered, accepted, ended>>

TaskEnds ==
    /\ thread = "task"
    /\ \/ thread' = "get"
       \/ thread' = "dead" /\ cur \in MayRaise
    /\ cur' = NONE
    /\ ended' = ended \cup {cur}
    /\ UNCHANGED <<isSet, q, pc, arg, offered, accepted>>

CallerProceeds(c) == Put(c) \/ Set(c) \/ PutStop(c)

Next ==
    \/ Get \/ TaskEnds
    \/ \E c \in Callers : \/ CallerProceeds(c) \/ Quit(c)
                          \/ \E w \in Works : Do(c, w) \/ DoRefused(c, w)

(***************************************************************************)
(* Threads are scheduled by the operating system and tasks end.  Nobody    *)
(* need call do() or quit().                                               *)
(***************************************************************************)
Fairness ==
    /\ WF_vars(Get) /\ WF_vars(TaskEnds)
    /\ \A c \in Callers : WF_vars(CallerProceeds(c))

Spec == Init /\ [][Next]_vars /\ Fairness

-------------------------------------------------------------------------------
(***************************************************************************)
(* ThreadWorker.do and quit, called from several threads at once,          *)
(* implement IExclusiveWorker: tasks run one at a time, each once at most, *)
(* and only the tasks that were accepted before quit().                    *)
(***************************************************************************)
Abstract == INSTANCE ExclusiveWorker WITH
    running <- {cur} \ {NONE}, closed <- isSet

Implements == Abstract!Spec

(***************************************************************************)
(* ThreadWorker.quit stops the thread, whatever else is going on: the      *)
(* stop marker reaches the thread behind the tasks queued before it.       *)
(***************************************************************************)
QuitEndsThread == isSet ~> thread = "dead"

(***************************************************************************)
(* quit() sets the flag before it enqueues _stop "so that no work is ever  *)
(* enqueued _after_ _stop" (_threadworker.py:63-64).                       *)
(***************************************************************************)
NothingAfterStop ==
    \A i, j \in DOMAIN q : i < j /\ q[i] = Stop => q[j] = Stop
===============================================================================
