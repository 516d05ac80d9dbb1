------------------------------ MODULE LockWorker ------------------------------
(***************************************************************************)
(* twisted._threads.LockWorker: an IExclusiveWorker that runs the work on  *)
(* the thread that calls do(), with a mutex held.  Any number of threads   *)
(* call do() and quit(), also from inside the work they are running: such  *)
(* a re-entrant do() only leaves its work for the outer activation, in the *)
(* thread-local list `working'.                                            *)
(***************************************************************************)
EXTENDS Integers, Sequences, FiniteSets

CONSTANTS Threads,    \* the threads that share the LockWorker
          Works,      \* the callables passed to do(); each is passed once
          NONE,       \* Python's None
          MayRaise    \* the callables that may raise an exception

(***************************************************************************)
(* None is neither a callable nor a thread nor a list.                     *)
(***************************************************************************)
LockWorkerAssumption ==
    /\ NONE \notin Works \cup Threads /\ NONE \notin Seq(Works)
    /\ MayRaise \subseteq Works

VARIABLES
    isSet,      \* LockWorker._quit.isSet
    hasLock,    \* whether LockWorker._lock still refers to the mutex
    holder,     \* the thread that holds the mutex, or NONE
    working,    \* threading.local().working of each thread: a list, or NONE
    pc,         \* where each thread is
    saw,        \* do()'s local `lock' in each thread: TRUE when it is the mutex
    arg,        \* the argument of the do() each thread has begun
    cur,        \* the callable each thread is calling, or NONE
    offered,    \* history: callables that were passed to do()
    accepted,   \* history: callables for which do() did not raise AlreadyQuit
    ended       \* history: callables that have returned or raised

vars == <<isSet, hasLock, holder, working, pc, saw, arg, cur, offered, accepted, ended>>

Init ==
    /\ isSet = FALSE /\ hasLock = TRUE /\ holder = NONE
    /\ working = [t \in Threads |-> NONE]
    /\ pc = [t \in Threads |-> "free"]
    /\ saw = [t \in Threads |-> FALSE]
    /\ arg = [t \in Threads |-> NONE]
    /\ cur = [t \in Threads |-> NONE]
    /\ offered = {} /\ accepted = {} /\ ended = {}

Goto(t, label) == pc' = [pc EXCEPT ![t] = label]

(***************************************************************************)
(* do(work): read self._lock, then check the flag, then queue the work.  A *)
(* thread is "free" to call when it is outside of the worker and also when *)
(* it is inside a callable, cur[t] # NONE.                                 *)
(***************************************************************************)
Do(t, w) ==
    /\ pc[t] = "free" /\ w \notin offered
    /\ offered' = offered \cup {w}
    /\ arg' = [arg EXCEPT ![t] = w]
    /\ saw' = [saw EXCEPT ![t] = hasLock]
    /\ Goto(t, "check")
    /\ UNCHANGED <<isSet, hasLock, holder, working, cur, accepted, ended>>

CheckRaises(t) ==
    /\ pc[t] = "check" /\ isSet
    /\ arg' = [arg EXCEPT ![t] = NONE]
    /\ Goto(t, "free")
    /\ UNCHANGED <<isSet, hasLock, holder, working, saw, cur, offered, accepted, ended>>

AlwaysOutermost(t) == TRUE

Outermost(t) == working[t] = NONE

CheckPasses(t) ==
    /\ pc[t] = "check" /\ ~isSet
    /\ accepted' = accepted \cup {arg[t]}
    /\ arg' = [arg EXCEPT ![t] = NONE]
    /\ IF Outermost(t)
       THEN /\ working' = [working EXCEPT ![t] = <<arg[t]>>]
            /\ Goto(t, "acquire")
       ELSE /\ working' = [working EXCEPT ![t] = Append(@, arg[t])]
            /\ Goto(t, "free")
    /\ UNCHANGED <<isSet, hasLock, holder, saw, cur, offered, ended>>

LockIgnored(t) == TRUE

LockFree(t) == holder = NONE

Acquire(t) ==
    /\ pc[t] = "acquire" /\ saw[t] /\ LockFree(t)
    /\ holder' = t
    /\ Goto(t, "loop")
    /\ UNCHANGED <<isSet, hasLock, working, saw, arg, cur, offered, accepted, ended>>

PeekWork(t) == UNCHANGED working

PopWork(t) == working' = [working EXCEPT ![t] = Tail(@)]

CallWork(t) ==
    /\ pc[t] = "loop" /\ working[t] # <<>>
    /\ cur' = [cur EXCEPT ![t] = Head(working[t])]
    /\ PopWork(t)
    /\ Goto(t, "free")
    /\ UNCHANGED <<isSet, hasLock, holder, saw, arg, offered, accepted, ended>>

WorkReturns(t) ==
    /\ pc[t] = "free" /\ cur[t] # NONE
    /\ ended' = ended \cup {cur[t]}
    /\ cur' = [cur EXCEPT ![t] = NONE]
    /\ Goto(t, "loop")
    /\ UNCHANGED <<isSet, hasLock, holder, working, saw, arg, offered, accepted>>

(***************************************************************************)
(* The `finally' clause.  An exception takes the rest of the list with it. *)
(***************************************************************************)
Release(t) ==
    /\ holder' = NONE
    /\ working' = [working EXCEPT ![t] = NONE]
    /\ Goto(t, "free")

LoopEnds(t) ==
    /\ pc[t] = "loop" /\ working[t] = <<>>
    /\ Release(t)
    /\ UNCHANGED <<isSet, hasLock, saw, arg, cur, offered, accepted, ended>>

WorkRaises(t) ==
    /\ pc[t] = "free" /\ cur[t] \in MayRaise
    /\ ended' = ended \cup {cur[t]}
    /\ cur' = [cur EXCEPT ![t] = NONE]
    /\ Release(t)
    /\ UNCHANGED <<isSet, hasLock, saw, arg, offered, accepted>>

(***************************************************************************)
(* quit(): Quit.set(), itself a check and an assignment, and then the      *)
(* reference to the mutex goes.                                            *)
(***************************************************************************)
Quit(t) ==
    /\ pc[t] = "free" /\ ~isSet
    /\ Goto(t, "set")
    /\ UNCHANGED <<isSet, hasLock, holder, working, saw, arg, cur, offered, accepted, ended>>

ForgetThenSet(t) ==
    \/ /\ pc[t] = "set"
       /\ hasLock' = FALSE
       /\ Goto(t, "forget")
       /\ UNCHANGED isSet
    \/ /\ pc[t] = "forget"
       /\ isSet' = TRUE
       /\ Goto(t, "free")
       /\ UNCHANGED hasLock

SetThenForget(t) ==
    \/ /\ pc[t] = "set"
       /\ isSet' = TRUE
       /\ Goto(t, "forget")
       /\ UNCHANGED hasLock
    \/ /\ pc[t] = "forget"
       /\ hasLock' = FALSE
       /\ Goto(t, "free")
       /\ UNCHANGED isSet

QuitProceeds(t) ==
    /\ SetThenForget(t)
    /\ UNCHANGED <<holder, working, saw, arg, cur, offered, accepted, ended>>

(***************************************************************************)
(* Everything a thread does once it has called do() or is inside of it.    *)
(***************************************************************************)
Proceed(t) ==
    \/ CheckRaises(t) \/ CheckPasses(t) \/ Acquire(t) \/ CallWork(t)
    \/ WorkReturns(t) \/ WorkRaises(t) \/ LoopEnds(t)
    \/ QuitProceeds(t)

Next == \E t \in Threads : Proceed(t) \/ Quit(t) \/ \E w \in Works : Do(t, w)

(***************************************************************************)
(* Threads are scheduled by the operating system, and the callables return *)
(* or raise.  A thread need never call do() or quit().                     *)
(***************************************************************************)
Fairness == \A t \in Threads : WF_vars(Proceed(t))

Spec == Init /\ [][Next]_vars /\ Fairness

-------------------------------------------------------------------------------
(***************************************************************************)
(* do() reads self._lock before it checks the flag, and quit() sets the    *)
(* flag before it clears self._lock: whatever the interleaving, a thread   *)
(* that passed the check has a mutex to acquire and never None.            *)
(***************************************************************************)
LockIsThere == \A t \in Threads : pc[t] = "acquire" => saw[t]

(***************************************************************************)
(* LockWorker.do and LockWorker.quit, called from several threads and      *)
(* re-entrantly, implement IExclusiveWorker: one callable at a time, each  *)
(* once at most, and only work that was accepted before quit().            *)
(***************************************************************************)
Abstract == INSTANCE ExclusiveWorker WITH
    running <- {cur[t] : t \in Threads} \ {NONE}, closed <- isSet

Implements == Abstract!Spec

(***************************************************************************)
(* All the accepted work is done, the work that was queued re-entrantly or *)
(* after a concurrent quit() included: neither the re-entrant do() nor the *)
(* mutex keeps a thread waiting for ever.  This is as long as no callable  *)
(* that may raise has run: an exception drops what its thread has queued.  *)
(***************************************************************************)
AcceptedIsDone ==
    \A w \in Works : w \in accepted ~> (w \in ended \/ ended \cap MayRaise # {})
===============================================================================
