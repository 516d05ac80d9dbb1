------------------------------ MODULE ThreadCalls ------------------------------
(***************************************************************************)
(* ReactorBase.callFromThread: other threads (and signal handlers) leave a *)
(* call in threadCallQueue and wake the reactor by writing a byte to the   *)
(* waker's pipe; the reactor's thread sleeps in its poll, empties the pipe *)
(* when the poll reports it, and runs the queued calls in runUntilCurrent. *)
(* No lock protects the queue: threads append to it at any moment.         *)
(***************************************************************************)
EXTENDS Integers, Sequences, FiniteSets

CONSTANTS Threads,    \* the threads that call callFromThread
          Calls,      \* the functions they pass, each of them once
          Nested,     \* those that call callFromThread again when they run ...
          Child,      \* ... passing Child[c]
          Capacity,   \* bytes that the waker's pipe holds
          Chunk       \* bytes that waker.doRead takes at once: 8192

ASSUME ThreadCallsAssumption ==
    /\ Nested \subseteq Calls
    /\ Child \in [Nested -> Calls]
    /\ Capacity \in Nat \ {0} /\ Chunk \in Nat \ {0}

VARIABLES
    queue,      \* ReactorBase.threadCallQueue
    pipe,       \* bytes in the waker's pipe
    writing,    \* the threads between the append and the write of callFromThread
    pc,         \* where the reactor's thread is
    ready,      \* whether the last poll reported the waker's pipe
    count,      \* runUntilCurrent's local `count'
    total,      \* ... and `total'
    queued,     \* history: the calls in the order in which they were appended
    made        \* history: the calls in the order in which they were run

vars == <<queue, pipe, writing, pc, ready, count, total, queued, made>>

Init ==
    /\ queue = <<>> /\ pipe = 0 /\ writing = {}
    /\ pc = "run" /\ ready = FALSE /\ count = 0 /\ total = 0
    /\ queued = <<>> /\ made = <<>>

Elements(s) == {s[i] : i \in DOMAIN s}

(***************************************************************************)
(* waker.wakeUp: a full pipe (EAGAIN) is as good as one more byte.         *)
(***************************************************************************)
WakeUp == pipe' = IF pipe < Capacity THEN pipe + 1 ELSE pipe

AppendCall(c) == queue' = Append(queue, c) /\ queued' = Append(queued, c)

-------------------------------------------------------------------------------
(***************************************************************************)
(* callFromThread in another thread.                                       *)
(***************************************************************************)
CallFromThread(t, c) ==
    /\ t \notin writing
    /\ c \notin Elements(queued) /\ \A d \in Nested : c # Child[d]
    /\ AppendCall(c)
    /\ writing' = writing \cup {t}
    /\ UNCHANGED <<pipe, pc, ready, count, total, made>>

WakeOnlyIfFirst == IF Len(queue) = 1 THEN WakeUp ELSE UNCHANGED pipe

WakeReactor == WakeUp

Write(t) ==
    /\ t \in writing
    /\ WakeReactor
    /\ writing' = writing \ {t}
    /\ UNCHANGED <<queue, pc, ready, count, total, queued, made>>

-------------------------------------------------------------------------------
(***************************************************************************)
(* The first half of runUntilCurrent.  Only the calls that were there when *)
(* it began are run; the list may grow while it is being iterated.         *)
(***************************************************************************)
Goto(label) == pc' = label

RunUntilCurrent ==
    /\ pc = "run"
    /\ count' = 0 /\ total' = Len(queue)
    /\ Goto(IF queue = <<>> THEN "poll" ELSE "loop")
    /\ UNCHANGED <<queue, pipe, writing, ready, queued, made>>

MakeCall ==
    /\ pc = "loop" /\ count < total
    /\ made' = Append(made, queue[count + 1])
    /\ Goto("call")
    /\ UNCHANGED <<queue, pipe, writing, ready, count, total, queued>>

(***************************************************************************)
(* The call returns or raises, after it has called callFromThread itself   *)
(* if it is one that does: an append and a byte of its own.                *)
(***************************************************************************)
CallReturns ==
    /\ pc = "call"
    /\ LET c == queue[count + 1]
       IN IF c \in Nested THEN AppendCall(Child[c]) /\ WakeUp
          ELSE UNCHANGED <<queue, queued, pipe>>
    /\ count' = count + 1
    /\ Goto("loop")
    /\ UNCHANGED <<writing, ready, total, made>>

ClearAll == queue' = <<>>

ClearMade == queue' = SubSeq(queue, count + 1, Len(queue))

ForgetCalls ==
    /\ pc = "loop" /\ count = total
    /\ ClearMade
    /\ Goto("left")
    /\ UNCHANGED <<pipe, writing, ready, count, total, queued, made>>

CallsLeft ==
    /\ pc = "left"
    /\ IF queue # <<>> THEN WakeUp ELSE UNCHANGED pipe
    /\ Goto("poll")
    /\ UNCHANGED <<queue, writing, ready, count, total, queued, made>>

(***************************************************************************)
(* doIteration: the poll, then doRead of what it reported.  It ends when   *)
(* the pipe is readable, or for another reason (a timeout, a socket, and   *)
(* an interruption or a bad descriptor even though the pipe is readable).  *)
(***************************************************************************)
Poll ==
    /\ pc = "poll" /\ pipe > 0
    /\ ready' = TRUE
    /\ Goto("read")
    /\ UNCHANGED <<queue, pipe, writing, count, total, queued, made>>

PollElse ==
    /\ pc = "poll"
    /\ ready' = FALSE
    /\ Goto("read")
    /\ UNCHANGED <<queue, pipe, writing, count, total, queued, made>>

DoRead ==
    /\ pc = "read"
    /\ pipe' = IF ~ready THEN pipe ELSE IF pipe > Chunk THEN pipe - Chunk ELSE 0
    /\ Goto("run")
    /\ UNCHANGED <<queue, writing, ready, count, total, queued, made>>

Reactor ==
    \/ RunUntilCurrent \/ MakeCall \/ CallReturns \/ ForgetCalls \/ CallsLeft
    \/ Poll \/ DoRead

Next ==
    \/ Reactor \/ PollElse
    \/ \E t \in Threads : Write(t) \/ \E c \in Calls : CallFromThread(t, c)

(***************************************************************************)
(* Threads are scheduled.  Nothing but the waker need ever end a poll.     *)
(***************************************************************************)
Spec ==
    /\ Init /\ [][Next]_vars
    /\ WF_vars(Reactor) /\ \A t \in Threads : WF_vars(Write(t))

-------------------------------------------------------------------------------
TypeOK ==
    /\ queue \in Seq(Calls) /\ queued \in Seq(Calls) /\ made \in Seq(Calls)
    /\ pipe \in 0..Capacity /\ writing \in SUBSET Threads
    /\ pc \in {"run", "loop", "call", "left", "poll", "read"}
    /\ ready \in BOOLEAN /\ count \in Nat /\ total \in Nat

(***************************************************************************)
(* No wakeup is lost: the reactor never sleeps over a queued call, there   *)
(* is a byte in the pipe or a thread that is about to write one.           *)
(***************************************************************************)
NoLostWakeup == pc = "poll" /\ queue # <<>> => pipe > 0 \/ writing # {}

(***************************************************************************)
(* The calls are run in the order in which callFromThread queued them,     *)
(* none is run twice and none is skipped, whatever threads append while    *)
(* runUntilCurrent goes through the list.                                  *)
(***************************************************************************)
MadeInOrder ==
    /\ Len(made) <= Len(queued)
    /\ \A i \in 1..Len(made) : made[i] = queued[i]

(***************************************************************************)
(* A queued call is run in the end, though nothing but the waker's pipe    *)
(* may ever end the reactor's sleep.                                       *)
(***************************************************************************)
QueuedAreMade == \A c \in Calls : c \in Elements(queued) ~> c \in Elements(made)
===============================================================================
