----------------------------- MODULE DeferredQueue -----------------------------
(***************************************************************************)
(* twisted.internet.defer.DeferredQueue.  As with DeferredSemaphore, put   *)
(* calls the first waiting Deferred back after the queue's own state is    *)
(* settled, so whole operations interleave.  Objects and Deferreds are     *)
(* named after the call that brought them, so each of them occurs once.    *)
(***************************************************************************)
EXTENDS Integers, Sequences

CONSTANTS Objects,    \* the arguments of put, in distinct calls
          Gets,       \* the calls of get
          Size,       \* DeferredQueue.size
          Backlog,    \* DeferredQueue.backlog
          NoLimit     \* what size and backlog are when they are None

(***************************************************************************)
(* What the arguments of the constructor have to be.                       *)
(***************************************************************************)
QueueAssumption ==
    /\ Size \in Nat \cup {NoLimit} /\ Backlog \in Nat \cup {NoLimit}
    /\ NoLimit \notin Nat

VARIABLES
    waiting,     \* DeferredQueue.waiting
    pending,     \* DeferredQueue.pending
    accepted,    \* history: the objects that put took, in order
    delivered,   \* history: the objects that Deferreds were fired with, in order
    served       \* history: the gets whose Deferreds fired, in the same order

vars == <<waiting, pending, accepted, delivered, served>>

Elements(s) == {s[i] : i \in DOMAIN s}

Init ==
    /\ waiting = <<>> /\ pending = <<>>
    /\ accepted = <<>> /\ delivered = <<>> /\ served = <<>>

HasRoom(s, limit) == limit = NoLimit \/ Len(s) < limit

Deliver(g, o) == served' = Append(served, g) /\ delivered' = Append(delivered, o)

-------------------------------------------------------------------------------
(***************************************************************************)
(* put(): to the first who waits, or to the end of the queue, or refused   *)
(* with QueueOverflow (which changes nothing).                             *)
(***************************************************************************)
PutToFirst(o) ==
    /\ Deliver(Head(waiting), o)
    /\ waiting' = Tail(waiting)

PutToWaiting(o) ==
    /\ o \notin Elements(accepted)
    /\ waiting # <<>>
    /\ accepted' = Append(accepted, o)
    /\ PutToFirst(o)
    /\ UNCHANGED pending

PutPending(o) ==
    /\ o \notin Elements(accepted)
    /\ waiting = <<>> /\ HasRoom(pending, Size)
    /\ accepted' = Append(accepted, o)
    /\ pending' = Append(pending, o)
    /\ UNCHANGED <<waiting, delivered, served>>

(***************************************************************************)
(* get(): the first object, or a Deferred, or QueueUnderflow.              *)
(***************************************************************************)
TakeNewest(g) ==
    /\ Deliver(g, pending[Len(pending)])
    /\ pending' = SubSeq(pending, 1, Len(pending) - 1)

TakeOldest(g) ==
    /\ Deliver(g, Head(pending))
    /\ pending' = Tail(pending)

GetPending(g) ==
    /\ g \notin Elements(served) \cup Elements(waiting)
    /\ pending # <<>>
    /\ TakeOldest(g)
    /\ UNCHANGED <<waiting, accepted>>

GetAnyway(g) ==
    /\ g \notin Elements(served) \cup Elements(waiting)
    /\ HasRoom(waiting, Backlog)
    /\ waiting' = Append(waiting, g)
    /\ UNCHANGED <<pending, accepted, delivered, served>>

GetDeferred(g) ==
    /\ g \notin Elements(served) \cup Elements(waiting)
    /\ pending = <<>> /\ HasRoom(waiting, Backlog)
    /\ waiting' = Append(waiting, g)
    /\ UNCHANGED <<pending, accepted, delivered, served>>

(***************************************************************************)
(* _cancelGet: cancel() of a Deferred that has not fired.                  *)
(***************************************************************************)
CancelGet(g) ==
    /\ g \in Elements(waiting)
    /\ LET i == CHOOSE j \in DOMAIN waiting : waiting[j] = g
       IN waiting' = SubSeq(waiting, 1, i - 1) \o SubSeq(waiting, i + 1, Len(waiting))
    /\ UNCHANGED <<pending, accepted, delivered, served>>

Next ==
    \/ \E o \in Objects : PutToWaiting(o) \/ PutPending(o)
    \/ \E g \in Gets : GetPending(g) \/ GetDeferred(g) \/ CancelGet(g)

Spec == Init /\ [][Next]_vars

-------------------------------------------------------------------------------
TypeOK ==
    /\ waiting \in Seq(Gets) /\ pending \in Seq(Objects)
    /\ accepted \in Seq(Objects) /\ delivered \in Seq(Objects) /\ served \in Seq(Gets)

(***************************************************************************)
(* It is a queue: what was accepted is what was delivered followed by what *)
(* is pending, in that order; a cancelled get loses no object.             *)
(***************************************************************************)
FirstInFirstOut == accepted = delivered \o pending

(***************************************************************************)
(* Nobody waits while there is an object to be had.                        *)
(***************************************************************************)
NobodyWaitsInVain == waiting = <<>> \/ pending = <<>>

QueueIsSound == FirstInFirstOut /\ NobodyWaitsInVain

(***************************************************************************)
(* Neither list outgrows its limit.                                        *)
(***************************************************************************)
WithinLimits ==
    /\ Size # NoLimit => Len(pending) <= Size
    /\ Backlog # NoLimit => Len(waiting) <= Backlog

(***************************************************************************)
(* The waiting Deferreds fire in the order of the gets: a get that is      *)
(* served was first in the list, or the list was empty.                    *)
(***************************************************************************)
GetsInTurn ==
    [][\A g \in Gets : served' = Append(served, g) =>
            waiting = <<>> \/ g = waiting[1]]_vars
===============================================================================
