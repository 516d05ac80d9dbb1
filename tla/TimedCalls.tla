------------------------------ MODULE TimedCalls ------------------------------
(***************************************************************************)
(* The timed calls of the reactor: twisted.internet.base.DelayedCall and   *)
(* the part of ReactorBase that keeps, moves, runs and forgets them.       *)
(*                                                                         *)
(* One thread goes round: runUntilCurrent, which calls what is due; then   *)
(* timeout, which says how long to sleep; then the poll, and the event     *)
(* handlers it leads to.  Application code has control in the handlers and *)
(* inside each timed call, and may then schedule, cancel, reset and delay  *)
(* any call.  New calls wait in a list of their own, cancelled ones stay   *)
(* where they are, and a call that was put off keeps its old place in the  *)
(* heap until it gets to the top.                                          *)
(***************************************************************************)
EXTENDS Integers, Sequences, FiniteSets

CONSTANTS Calls,       \* the DelayedCalls
          Seconds,     \* arguments of callLater and reset
          Shifts,      \* arguments of DelayedCall.delay
          Threshold,   \* cancellations tolerated in the heap: 50
          Longest,     \* the longest sleep that timeout() asks for: 2147483
          MaxOps       \* bound: operations of the application

ASSUME TimedCallsAssumption ==
    /\ Seconds \subseteq Nat /\ Shifts \subseteq Int
    /\ Threshold \in Nat /\ Longest \in Nat \ {0} /\ MaxOps \in Nat

VARIABLES
    clock,           \* seconds()
    made,            \* the calls that callLater has returned
    time, delayed,   \* DelayedCall.time and .delayed_time
    cancelled, called,
    newCalls,        \* ReactorBase._newTimedCalls
    heap,            \* ReactorBase._pendingTimedCalls
    cancellations,   \* ReactorBase._cancellations
    pc,              \* where the reactor's thread is
    now,             \* runUntilCurrent's local `now'
    deadline,        \* when the poll ends at the latest; -1: no timeout
    ops              \* bookkeeping for MaxOps

vars == <<clock, made, time, delayed, cancelled, called, newCalls, heap,
          cancellations, pc, now, deadline, ops>>

GetTime(c) == time[c] + delayed[c]

Active(c) == c \in made /\ ~cancelled[c] /\ ~called[c]

Elements(s) == {s[i] : i \in DOMAIN s}

-------------------------------------------------------------------------------
(***************************************************************************)
(* The heap.  Parent moves are those of _moveCallLaterSooner and of        *)
(* heapq.heappush: from `pos', on the way up to the root, every element    *)
(* goes down one place until one is found that need not.  From heappop and *)
(* heapify the reactor only needs that they leave a heap of the right      *)
(* elements.                                                               *)
(***************************************************************************)
Parent(i) == i \div 2

Ordered(h, key) == \A i \in 2..Len(h) : key[h[Parent(i)]] <= key[h[i]]

Heaps(S, key) == {h \in [1..Cardinality(S) -> S] : Elements(h) = S /\ Ordered(h, key)}

\* The positions that the loop may come to: no smaller set has `pos' and all parents.
WayUp(pos) ==
    {i \in 1..pos : \A S \in SUBSET (1..pos) :
                       (pos \in S /\ \A j \in S : j > 1 => Parent(j) \in S) => i \in S}

\* The loop ends at p: the root, or a place whose parent is not later.
Stops(h, p, elt, key) == p = 1 \/ key[h[Parent(p)]] <= key[elt]

Resting(h, pos, key) ==
    CHOOSE p \in WayUp(pos) :
       /\ Stops(h, p, h[pos], key)
       /\ \A q \in WayUp(pos) : Stops(h, q, h[pos], key) => q <= p

MoveUp(h, pos, key) ==
    LET rest == Resting(h, pos, key)
    IN [i \in 1..Len(h) |-> IF i = rest THEN h[pos]
                            ELSE IF i \in WayUp(pos) /\ i > rest THEN h[Parent(i)]
                            ELSE h[i]]

Push(h, c, key) == MoveUp(Append(h, c), Len(h) + 1, key)

Stay(h, c, key) == h

MoveCallLaterSooner(h, c, key) ==
    IF c \in Elements(h) THEN MoveUp(h, CHOOSE i \in DOMAIN h : h[i] = c, key) ELSE h

-------------------------------------------------------------------------------
Init ==
    /\ clock = 0 /\ made = {}
    /\ time = [c \in Calls |-> 0] /\ delayed = [c \in Calls |-> 0]
    /\ cancelled = [c \in Calls |-> FALSE] /\ called = [c \in Calls |-> FALSE]
    /\ newCalls = <<>> /\ heap = <<>> /\ cancellations = 0
    /\ pc = "io" /\ now = 0 /\ deadline = -1 /\ ops = 0

(***************************************************************************)
(* The application, in an event handler or inside a timed call.  On a call *)
(* that was made or cancelled the methods of DelayedCall raise, and change *)
(* nothing.                                                                *)
(***************************************************************************)
Application ==
    /\ pc \in {"io", "callback"} /\ ops < MaxOps
    /\ ops' = ops + 1
    /\ UNCHANGED <<clock, called, pc, now, deadline>>

CallLater(c, seconds) ==
    /\ Application /\ c \notin made
    /\ made' = made \cup {c}
    /\ time' = [time EXCEPT ![c] = clock + seconds]
    /\ newCalls' = Append(newCalls, c)
    /\ UNCHANGED <<delayed, cancelled, heap, cancellations>>

Cancel(c) ==
    /\ Application /\ Active(c)
    /\ cancelled' = [cancelled EXCEPT ![c] = TRUE]
    /\ cancellations' = cancellations + 1
    /\ UNCHANGED <<made, time, delayed, newCalls, heap>>

ResetSooner(c, seconds) ==
    /\ Application /\ Active(c) /\ clock + seconds < time[c]
    /\ time' = [time EXCEPT ![c] = clock + seconds]
    /\ delayed' = [delayed EXCEPT ![c] = 0]
    /\ heap' = MoveCallLaterSooner(heap, c, time')
    /\ UNCHANGED <<made, cancelled, newCalls, cancellations>>

ResetLater(c, seconds) ==
    /\ Application /\ Active(c) /\ clock + seconds >= time[c]
    /\ delayed' = [delayed EXCEPT ![c] = clock + seconds - time[c]]
    /\ UNCHANGED <<made, time, cancelled, newCalls, heap, cancellations>>

DelayLater(c, shift) ==
    /\ Application /\ Active(c) /\ delayed[c] + shift >= 0
    /\ delayed' = [delayed EXCEPT ![c] = @ + shift]
    /\ UNCHANGED <<made, time, cancelled, newCalls, heap, cancellations>>

DelaySooner(c, shift) ==
    /\ Application /\ Active(c) /\ delayed[c] + shift < 0
    /\ time' = [time EXCEPT ![c] = @ + delayed[c] + shift]
    /\ delayed' = [delayed EXCEPT ![c] = 0]
    /\ heap' = MoveCallLaterSooner(heap, c, time')
    /\ UNCHANGED <<made, cancelled, newCalls, cancellations>>

-------------------------------------------------------------------------------
(***************************************************************************)
(* _insertNewDelayedCalls, one call at a time; `pc' says whether           *)
(* runUntilCurrent or timeout has called it.                               *)
(***************************************************************************)
CountRemoved == cancellations' = cancellations - 1

Inserting == pc \in {"insertToRun", "insertToSleep"} /\ newCalls # <<>>

ActivateDelay(c) ==
    /\ time' = [time EXCEPT ![c] = @ + delayed[c]]
    /\ delayed' = [delayed EXCEPT ![c] = 0]

DropCancelled ==
    /\ Inserting /\ cancelled[Head(newCalls)]
    /\ newCalls' = Tail(newCalls)
    /\ CountRemoved
    /\ UNCHANGED <<clock, made, time, delayed, cancelled, called, heap, pc, now, deadline, ops>>

InsertNew ==
    /\ Inserting /\ ~cancelled[Head(newCalls)]
    /\ newCalls' = Tail(newCalls)
    /\ ActivateDelay(Head(newCalls))
    /\ heap' = Push(heap, Head(newCalls), time')
    /\ UNCHANGED <<clock, made, cancelled, called, cancellations, pc, now, deadline, ops>>

(***************************************************************************)
(* runUntilCurrent.                                                        *)
(***************************************************************************)
Goto(label) == pc' = label

Still == UNCHANGED <<clock, made, cancelled, newCalls, deadline, ops>>

RunUntilCurrent ==
    /\ pc = "io" /\ Goto("insertToRun")
    /\ Still /\ UNCHANGED <<time, delayed, called, heap, cancellations, now>>

ReadClock ==
    /\ pc = "insertToRun" /\ newCalls = <<>>
    /\ now' = clock
    /\ Goto("loop")
    /\ Still /\ UNCHANGED <<time, delayed, called, heap, cancellations>>

Due == heap # <<>> /\ time[heap[1]] <= now

Pop == heap' \in Heaps(Elements(heap) \ {heap[1]}, time)

PopCancelled ==
    /\ pc = "loop" /\ Due /\ cancelled[heap[1]]
    /\ Pop
    /\ CountRemoved
    /\ Still /\ UNCHANGED <<time, delayed, called, pc, now>>

NeverPutOff(c) == FALSE

PutOff(c) == delayed[c] > 0

PopDelayed ==
    /\ pc = "loop" /\ Due /\ ~cancelled[heap[1]] /\ PutOff(heap[1])
    /\ ActivateDelay(heap[1])
    /\ \E h \in Heaps(Elements(heap) \ {heap[1]}, time) : heap' = Push(h, heap[1], time')
    /\ Still /\ UNCHANGED <<called, cancellations, pc, now>>

PopAndCall ==
    /\ pc = "loop" /\ Due /\ ~cancelled[heap[1]] /\ ~PutOff(heap[1])
    /\ Pop
    /\ called' = [called EXCEPT ![heap[1]] = TRUE]
    /\ Goto("callback")
    /\ Still /\ UNCHANGED <<time, delayed, cancellations, now>>

CallReturns ==
    /\ pc = "callback" /\ Goto("loop")
    /\ Still /\ UNCHANGED <<time, delayed, called, heap, cancellations, now>>

(***************************************************************************)
(* The end of runUntilCurrent: when there is too much cancelled rubbish in *)
(* the heap, it is rebuilt.                                                *)
(***************************************************************************)
TooManyCancelled == cancellations > Threshold /\ cancellations > Len(heap) \div 2

SurvivorsNotPutOff == {c \in Elements(heap) : ~cancelled[c] /\ delayed[c] = 0}

Survivors == {c \in Elements(heap) : ~cancelled[c]}

Compact ==
    /\ pc = "loop" /\ ~Due /\ TooManyCancelled
    /\ cancellations' = 0
    /\ heap' \in Heaps(Survivors, time)
    /\ Goto("insertToSleep")
    /\ Still /\ UNCHANGED <<time, delayed, called, now>>

LoopEnds ==
    /\ pc = "loop" /\ ~Due /\ ~TooManyCancelled
    /\ Goto("insertToSleep")
    /\ Still /\ UNCHANGED <<time, delayed, called, heap, cancellations, now>>

(***************************************************************************)
(* timeout(), then the poll, which ends at the deadline or on an event.    *)
(***************************************************************************)
Clip(delay) == IF delay < 0 THEN 0 ELSE IF delay > Longest THEN Longest ELSE delay

WithoutNewCalls == TRUE

NewCallsInserted == newCalls = <<>>

TopGetTime == GetTime(heap[1])

Earliest == time[heap[1]]

Timeout ==
    /\ pc = "insertToSleep" /\ NewCallsInserted
    /\ deadline' = IF heap = <<>> THEN -1 ELSE clock + Clip(Earliest - clock)
    /\ Goto("poll")
    /\ UNCHANGED <<clock, made, time, delayed, cancelled, called, newCalls, heap,
                   cancellations, now, ops>>

PollTimesOut ==
    /\ pc = "poll" /\ deadline # -1 /\ clock >= deadline
    /\ Goto("io")
    /\ Still /\ UNCHANGED <<time, delayed, called, heap, cancellations, now>>

PollHasEvent ==
    /\ pc = "poll" /\ Goto("io")
    /\ Still /\ UNCHANGED <<time, delayed, called, heap, cancellations, now>>

(***************************************************************************)
(* Time passes at any moment, while there is a call to wait for.           *)
(***************************************************************************)
Tick ==
    /\ \E c \in Calls : Active(c) /\ clock < GetTime(c)
    /\ pc = "poll" => deadline = -1 \/ clock < deadline
    /\ clock' = clock + 1
    /\ UNCHANGED <<made, time, delayed, cancelled, called, newCalls, heap,
                   cancellations, pc, now, deadline, ops>>

Reactor ==
    \/ DropCancelled \/ InsertNew \/ RunUntilCurrent \/ ReadClock
    \/ PopCancelled \/ PopDelayed \/ PopAndCall \/ CallReturns
    \/ Compact \/ LoopEnds \/ Timeout \/ PollTimesOut

Next ==
    \/ Reactor \/ PollHasEvent \/ Tick
    \/ \E c \in Calls :
        \/ Cancel(c)
        \/ \E s \in Seconds : CallLater(c, s) \/ ResetSooner(c, s) \/ ResetLater(c, s)
        \/ \E s \in Shifts : DelayLater(c, s) \/ DelaySooner(c, s)

(***************************************************************************)
(* The reactor's thread goes on and time passes.  No event need ever end   *)
(* the poll, and the application need not do anything.                     *)
(***************************************************************************)
Spec == Init /\ [][Next]_vars /\ WF_vars(Reactor) /\ WF_vars(Tick)

-------------------------------------------------------------------------------
(***************************************************************************)
(* _pendingTimedCalls is a heap by DelayedCall.time after every operation, *)
(* although calls change their times while they are in it.                 *)
(***************************************************************************)
HeapOrdered == Ordered(heap, time)

(***************************************************************************)
(* A call that is still to be made is in exactly one place, once: the new  *)
(* calls or the heap.  A call that was made is in neither.                 *)
(***************************************************************************)
Places(c) == {i \in DOMAIN heap : heap[i] = c} \cup
             {Len(heap) + i : i \in {j \in DOMAIN newCalls : newCalls[j] = c}}

NothingLost ==
    \A c \in Calls : /\ Active(c) => Cardinality(Places(c)) = 1
                     /\ called[c] => Places(c) = {}
                     /\ cancelled[c] => Cardinality(Places(c)) <= 1

(***************************************************************************)
(* The poll never sleeps past a call: when it starts, every outstanding    *)
(* call, however it was moved, is due no earlier than the deadline.        *)
(***************************************************************************)
NoOversleep ==
    pc = "poll" => \A c \in Calls : Active(c) =>
        /\ deadline # -1
        /\ deadline <= clock \/ deadline <= GetTime(c)

TimersAreSound == HeapOrdered /\ NothingLost /\ NoOversleep

(***************************************************************************)
(* runUntilCurrent makes a call only when the time that getTime() shows    *)
(* has come, never a cancelled one, and earlier calls of the heap first.   *)
(***************************************************************************)
CallsOnTime ==
    [][\A c \in Calls : called'[c] /\ ~called[c] =>
          /\ Active(c) /\ GetTime(c) <= clock
          /\ \A d \in Elements(heap) : Active(d) => GetTime(c) <= GetTime(d)]_vars

(***************************************************************************)
(* Every call is made or cancelled in the end, with nothing but the clock  *)
(* to wake the reactor.                                                    *)
(***************************************************************************)
EveryCallEnds == \A c \in Calls : Active(c) ~> ~Active(c)
===============================================================================
