--------------------------- MODULE DeferredSemaphore ---------------------------
(***************************************************************************)
(* twisted.internet.defer.DeferredSemaphore, with _ConcurrencyPrimitive.   *)
(*                                                                         *)
(* Everything runs in one thread, but acquire and release call the winner  *)
(* back before they return, and the callbacks may re-enter the semaphore.  *)
(* Its state is settled before every such call, so the interleaving of     *)
(* whole operations below covers the nesting.                              *)
(***************************************************************************)
EXTENDS Integers, Sequences, FiniteSets

CONSTANTS Users, Limit

ASSUME SemaphoreAssumption == IsFiniteSet(Users) /\ Limit \in Nat \ {0}

VARIABLES
    tokens,     \* DeferredSemaphore.tokens
    waiting,    \* _ConcurrencyPrimitive.waiting: who asked for each Deferred
    holders     \* the users whose Deferred was called back and who have not
                \* released yet

vars == <<tokens, waiting, holders>>

Queued == {waiting[i] : i \in DOMAIN waiting}

Init == tokens = Limit /\ waiting = <<>> /\ holders = {}

-------------------------------------------------------------------------------
(***************************************************************************)
(* acquire(), also as the first step of run() and of `async with'.         *)
(***************************************************************************)
Acquire(u) ==
    /\ u \notin Queued \cup holders
    /\ IF tokens = 0
       THEN waiting' = Append(waiting, u) /\ UNCHANGED <<tokens, holders>>
       ELSE /\ tokens' = tokens - 1
            /\ holders' = holders \cup {u}
            /\ UNCHANGED waiting

(***************************************************************************)
(* release(), by a user who acquired; run() adds it to the Deferred of its *)
(* function with addBoth, so that success, failure and cancellation all    *)
(* lead here.                                                              *)
(***************************************************************************)
GiveBack(u) ==
    /\ tokens' = tokens + 1
    /\ holders' = holders \ {u}
    /\ UNCHANGED waiting

PassOnNewest(u) ==
    /\ holders' = (holders \ {u}) \cup {waiting[Len(waiting)]}
    /\ waiting' = SubSeq(waiting, 1, Len(waiting) - 1)
    /\ UNCHANGED tokens

PassOnAndKeep(u) ==
    /\ holders' = (holders \ {u}) \cup {Head(waiting)}
    /\ waiting' = Tail(waiting)
    /\ tokens' = tokens + 1

PassOn(u) ==
    /\ holders' = (holders \ {u}) \cup {Head(waiting)}
    /\ waiting' = Tail(waiting)
    /\ UNCHANGED tokens

Hand(u) == IF waiting = <<>> THEN GiveBack(u) ELSE PassOn(u)

Release(u) ==
    /\ u \in holders
    /\ tokens < Limit
    /\ Hand(u)

(***************************************************************************)
(* _cancelAcquire: cancel() of a Deferred that has not fired.              *)
(***************************************************************************)
Without(u) ==
    LET i == CHOOSE j \in DOMAIN waiting : waiting[j] = u
    IN SubSeq(waiting, 1, i - 1) \o SubSeq(waiting, i + 1, Len(waiting))

CancelAcquire(u) ==
    /\ u \in Queued
    /\ waiting' = Without(u)
    /\ UNCHANGED <<tokens, holders>>

Next == \E u \in Users : Acquire(u) \/ Release(u) \/ CancelAcquire(u)

Safety == Init /\ [][Next]_vars

(***************************************************************************)
(* Whoever acquired releases in the end.                                   *)
(***************************************************************************)
Fairness == \A u \in Users : WF_vars(Release(u))

Spec == Safety /\ Fairness

-------------------------------------------------------------------------------
TypeOK == tokens \in 0..Limit /\ waiting \in Seq(Users) /\ holders \in SUBSET Users

(***************************************************************************)
(* Every token is either free or with one holder, through every order of   *)
(* acquisitions, releases and cancellations (the `tokens' attribute is     *)
(* documented as the difference between limit and the number of users).    *)
(***************************************************************************)
TokensAreConserved == tokens + Cardinality(holders) = Limit

(***************************************************************************)
(* Nobody waits for a token that is free.                                  *)
(***************************************************************************)
NoIdleToken == tokens > 0 => waiting = <<>>

(***************************************************************************)
(* Both at once: no token is lost or made up, and none lies idle while     *)
(* somebody waits, through cancellations and hand-overs.                   *)
(***************************************************************************)
TokensAreUsed == TokensAreConserved /\ NoIdleToken

(***************************************************************************)
(* First come, first served: a user who gets a token was first in the list *)
(* or found it empty, so nobody overtakes the waiting users.               *)
(***************************************************************************)
NoOvertaking ==
    [][\A u \in Users : u \in holders' /\ u \notin holders =>
            waiting = <<>> \/ u = waiting[1]]_vars

(***************************************************************************)
(* Who waits gets a token, or cancels.                                     *)
(***************************************************************************)
WaitersAreServed == \A u \in Users : u \in Queued ~> u \notin Queued
===============================================================================
