------------------------------ MODULE DeferredLock ------------------------------
(***************************************************************************)
(* twisted.internet.defer.DeferredLock, which its source writes out apart  *)
(* from the semaphore, and which implements a semaphore of one token.      *)
(***************************************************************************)
EXTENDS Integers, Sequences, FiniteSets

CONSTANT Users

VARIABLES
    locked,     \* DeferredLock.locked
    waiting,    \* _ConcurrencyPrimitive.waiting
    holders     \* the users whose Deferred was called back and who have not
                \* released yet

vars == <<locked, waiting, holders>>

Queued == {waiting[i] : i \in DOMAIN waiting}

Init == locked = FALSE /\ waiting = <<>> /\ holders = {}

Acquire(u) ==
    /\ u \notin Queued \cup holders
    /\ IF locked
       THEN waiting' = Append(waiting, u) /\ UNCHANGED <<locked, holders>>
       ELSE /\ locked' = TRUE
            /\ holders' = holders \cup {u}
            /\ UNCHANGED waiting

Unlock(u) ==
    /\ locked' = FALSE
    /\ holders' = holders \ {u}
    /\ UNCHANGED waiting

PassOnUnlocked(u) ==
    /\ locked' = FALSE
    /\ holders' = (holders \ {u}) \cup {Head(waiting)}
    /\ waiting' = Tail(waiting)

PassOn(u) ==
    /\ locked' = TRUE
    /\ holders' = (holders \ {u}) \cup {Head(waiting)}
    /\ waiting' = Tail(waiting)

Release(u) ==
    /\ u \in holders
    /\ locked
    /\ IF waiting = <<>> THEN Unlock(u) ELSE PassOn(u)

Without(u) ==
    LET i == CHOOSE j \in DOMAIN waiting : waiting[j] = u
    IN SubSeq(waiting, 1, i - 1) \o SubSeq(waiting, i + 1, Len(waiting))

CancelAcquire(u) ==
    /\ u \in Queued
    /\ waiting' = Without(u)
    /\ UNCHANGED <<locked, holders>>

Next == \E u \in Users : Acquire(u) \/ Release(u) \/ CancelAcquire(u)

Spec == Init /\ [][Next]_vars

-------------------------------------------------------------------------------
(***************************************************************************)
(* A DeferredLock does what a DeferredSemaphore(1) does.                   *)
(***************************************************************************)
Semaphore ==
    INSTANCE DeferredSemaphore WITH Limit <- 1, tokens <- IF locked THEN 0 ELSE 1

IsSemaphore == Semaphore!Safety
===============================================================================
