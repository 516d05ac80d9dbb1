------------------------------- MODULE Deferred -------------------------------
(***************************************************************************)
(* twisted.internet.defer.Deferred: a result that is not available yet and *)
(* the chain of callbacks that waits for it.                               *)
(*                                                                         *)
(* Everything happens in one thread, but not one call at a time: a         *)
(* callback is application code, and it may call any method of any         *)
(* Deferred, the one that is running it included, before it returns.  The  *)
(* Python call stack is therefore part of the state.  Each frame of        *)
(* `stack' is an activation of _runCallbacks, with its local list `chain', *)
(* or an activation of cancel.  Application code has control when the      *)
(* stack is empty (the reactor called it) or when the top frame waits for  *)
(* a callback or a canceller to return.                                    *)
(***************************************************************************)
EXTENDS Integers, Sequences, FiniteSets

CONSTANTS Deferreds,    \* the Deferred instances
          Cancellable,  \* those that were constructed with a canceller
          NONE,         \* Python's None in an attribute that refers to a Deferred
          MaxCalls,     \* bound: callback() or errback() attempts on one Deferred
          MaxAdds,      \* bound: addCallbacks()/chainDeferred() on one Deferred
          MaxPauses,    \* bound: unmatched pause() calls on one Deferred
          MaxDepth      \* bound: Python frames below which application code still
                        \* calls into a Deferred

ASSUME DeferredAssumption ==
    /\ Cancellable \subseteq Deferreds
    /\ NONE \notin Deferreds
    /\ Deferreds \cap {"no result", "ok", "fail", "none"} = {}
    /\ MaxCalls \in Nat /\ MaxAdds \in Nat /\ MaxPauses \in Nat /\ MaxDepth \in Nat

VARIABLES
    called,       \* Deferred.called
    result,       \* Deferred.result; "no result" while the attribute is missing
    paused,       \* Deferred.paused, the number of unmatched pauses
    suppress,     \* Deferred._suppressAlreadyCalled
    running,      \* Deferred._runningCallbacks
    chainedTo,    \* Deferred._chainedTo
    callbacks,    \* Deferred.callbacks
    failResult,   \* whether _debugInfo.failResult is set: collecting the Deferred
                  \* would then log "Unhandled error in Deferred"
    stack,        \* the Python call stack, innermost frame last
    userPaused,   \* history: pause() calls by the application, not yet matched
    attempts,     \* history: calls of callback() or errback() from outside defer.py's
                  \* own cancel, those made through chainDeferred included
    refused,      \* history: whether AlreadyCalledError was ever raised
    added         \* history: number of callback pairs the application added

vars == <<called, result, paused, suppress, running, chainedTo, callbacks,
          failResult, stack, userPaused, attempts, refused, added>>

(***************************************************************************)
(* Results.  A success, a Failure and None (a success too) are all that    *)
(* the machinery tells apart; a Deferred as `result' means that this one   *)
(* waits for it.                                                           *)
(***************************************************************************)
Plain == {"ok", "fail", "none"}
Results == Plain \cup {"no result"} \cup Deferreds

(***************************************************************************)
(* Entries of Deferred.callbacks: the n-th pair that the application       *)
(* added, the pair made by _continuation for a Deferred that waits, and    *)
(* the pair (d.callback, d.errback) of chainDeferred.                      *)
(***************************************************************************)
User(n) == <<"user", n>>
Continue(d) == <<"continue", d>>
Fire(d) == <<"fire", d>>
Entries == ({"user"} \X Nat) \cup ({"continue", "fire"} \X Deferreds)

(***************************************************************************)
(* Frames.  `pc' is where the activation is: at the head of the outer loop *)
(* of _runCallbacks, in its inner loop, inside a callback of the           *)
(* application, inside the callback() or errback() that chainDeferred      *)
(* installed, at the start of cancel, or inside a canceller.               *)
(***************************************************************************)
RunPcs == {"outer", "inner", "user", "fire"}
Frames == [chain : Seq(Deferreds), pc : RunPcs \cup {"cancel", "canceller"}]

RunFrame(d) == [chain |-> <<d>>, pc |-> "outer"]
CancelFrame(d) == [chain |-> <<d>>, pc |-> "cancel"]

Pop(s) == SubSeq(s, 1, Len(s) - 1)
Top == stack[Len(stack)]
Current == Top.chain[Len(Top.chain)]

At(pc) == stack # <<>> /\ Top.pc = pc
Goto(pc) == [stack EXCEPT ![Len(stack)].pc = pc]

\* Application code has control, and the bound lets it make one more call.
InApplication ==
    /\ stack = <<>> \/ At("user") \/ At("canceller")
    /\ Len(stack) < MaxDepth

-------------------------------------------------------------------------------
Init ==
    /\ called = [d \in Deferreds |-> FALSE]
    /\ result = [d \in Deferreds |-> "no result"]
    /\ paused = [d \in Deferreds |-> 0]
    /\ suppress = [d \in Deferreds |-> FALSE]
    /\ running = [d \in Deferreds |-> FALSE]
    /\ chainedTo = [d \in Deferreds |-> NONE]
    /\ callbacks = [d \in Deferreds |-> <<>>]
    /\ failResult = [d \in Deferreds |-> FALSE]
    /\ stack = <<>>
    /\ userPaused = [d \in Deferreds |-> 0]
    /\ attempts = [d \in Deferreds |-> 0]
    /\ refused = [d \in Deferreds |-> FALSE]
    /\ added = [d \in Deferreds |-> 0]

\* As EnterRunCallbacks, but re-entering a Deferred that runs a callback.
ReenterRunCallbacks(d, s) == Append(s, RunFrame(d))

\* _runCallbacks, entered with the call stack s: it returns at once when d is
\* already running a callback.
EnterRunCallbacks(d, s) == IF running[d] THEN s ELSE Append(s, RunFrame(d))

\* _startRunCallbacks(d, r), called with the call stack s (a callback of the
\* application never runs d while d has not been called).
StartRunCallbacks(d, r, s) ==
    /\ ~called[d]
    /\ called' = [called EXCEPT ![d] = TRUE]
    /\ result' = [result EXCEPT ![d] = r]
    /\ stack' = EnterRunCallbacks(d, s)

\* _startRunCallbacks on a Deferred that was called before: the first attempt
\* after a cancellation without canceller is swallowed, any other is refused.
RefuseCall(d) ==
    /\ called[d]
    /\ suppress' = [suppress EXCEPT ![d] = FALSE]
    /\ refused' = [refused EXCEPT ![d] = @ \/ ~suppress[d]]

-------------------------------------------------------------------------------
(***************************************************************************)
(* The public methods, called by application code.                         *)
(***************************************************************************)

\* callback(result) and errback(fail) by the application.
Call(d, r) ==
    /\ InApplication
    /\ attempts[d] < MaxCalls
    /\ attempts' = [attempts EXCEPT ![d] = @ + 1]
    /\ \/ StartRunCallbacks(d, r, stack) /\ UNCHANGED <<suppress, refused>>
       \/ RefuseCall(d) /\ UNCHANGED <<called, result, stack>>
    /\ UNCHANGED <<paused, running, chainedTo, callbacks, failResult,
                   userPaused, added>>

\* As RunIfCalled, but only callback() and errback() start the chain.
NeverRun(d) == stack

\* addCallbacks on a Deferred that was called runs the new callback at once.
RunIfCalled(d) == IF called[d] THEN EnterRunCallbacks(d, stack) ELSE stack

\* The common part of addCallbacks and chainDeferred.
AddEntry(d, entry) ==
    /\ InApplication
    /\ added[d] < MaxAdds
    /\ added' = [added EXCEPT ![d] = @ + 1]
    /\ callbacks' = [callbacks EXCEPT ![d] = Append(@, entry)]
    /\ stack' = RunIfCalled(d)
    /\ UNCHANGED <<called, result, paused, suppress, running, failResult,
                   userPaused, attempts, refused>>

AddCallbacks(d) ==
    /\ AddEntry(d, User(added[d]))
    /\ UNCHANGED chainedTo

\* d.chainDeferred(e)
ChainDeferred(d, e) ==
    /\ AddEntry(d, Fire(e))
    /\ chainedTo' = [chainedTo EXCEPT ![e] = d]

Pause(d) ==
    /\ InApplication
    /\ userPaused[d] < MaxPauses
    /\ userPaused' = [userPaused EXCEPT ![d] = @ + 1]
    /\ paused' = [paused EXCEPT ![d] = @ + 1]
    /\ UNCHANGED <<called, result, suppress, running, chainedTo, callbacks,
                   failResult, stack, attempts, refused, added>>

\* The application only takes back its own pauses.
Unpause(d) ==
    /\ InApplication
    /\ userPaused[d] > 0
    /\ userPaused' = [userPaused EXCEPT ![d] = @ - 1]
    /\ paused' = [paused EXCEPT ![d] = @ - 1]
    /\ stack' = IF paused[d] = 1 /\ called[d] THEN EnterRunCallbacks(d, stack) ELSE stack
    /\ UNCHANGED <<called, result, suppress, running, chainedTo, callbacks,
                   failResult, attempts, refused, added>>

Cancel(d) ==
    /\ InApplication
    /\ stack' = Append(stack, CancelFrame(d))
    /\ UNCHANGED <<called, result, paused, suppress, running, chainedTo, callbacks,
                   failResult, userPaused, attempts, refused, added>>

-------------------------------------------------------------------------------
(***************************************************************************)
(* The body of cancel.                                                     *)
(***************************************************************************)

\* Without the flag, the late call of the producer is refused.
Unsuppressed(d) == suppress

\* "Arrange to eat the callback that will eventually be fired."
Suppressed(d) == [suppress EXCEPT ![d] = TRUE]

\* No canceller: remember to swallow one late call, then errback.
CancelWithoutCanceller ==
    /\ At("cancel")
    /\ Current \notin Cancellable
    /\ suppress' = Suppressed(Current)
    /\ StartRunCallbacks(Current, "fail", Pop(stack))
    /\ UNCHANGED <<paused, running, chainedTo, callbacks, failResult, userPaused,
                   attempts, refused, added>>

CallCanceller ==
    /\ At("cancel")
    /\ Current \in Cancellable
    /\ ~called[Current]
    /\ stack' = Goto("canceller")
    /\ UNCHANGED <<called, result, paused, suppress, running, chainedTo, callbacks,
                   failResult, userPaused, attempts, refused, added>>

\* The canceller returned: errback with CancelledError unless it fired the
\* Deferred itself.
CancellerReturns ==
    /\ At("canceller")
    /\ \/ StartRunCallbacks(Current, "fail", Pop(stack))
       \/ called[Current] /\ stack' = Pop(stack) /\ UNCHANGED <<called, result>>
    /\ UNCHANGED <<paused, suppress, running, chainedTo, callbacks, failResult,
                   userPaused, attempts, refused, added>>

\* The canceller raised: the exception leaves cancel.
CancellerRaises ==
    /\ At("canceller")
    /\ stack' = Pop(stack)
    /\ UNCHANGED <<called, result, paused, suppress, running, chainedTo, callbacks,
                   failResult, userPaused, attempts, refused, added>>

\* Waiting for another Deferred: cancel that one instead.  Otherwise the
\* result is there and cancel does nothing.
ForwardCancel ==
    /\ At("cancel")
    /\ called[Current]
    /\ stack' = IF result[Current] \in Deferreds
                THEN Append(Pop(stack), CancelFrame(result[Current]))
                ELSE Pop(stack)
    /\ UNCHANGED <<called, result, paused, suppress, running, chainedTo, callbacks,
                   failResult, userPaused, attempts, refused, added>>

-------------------------------------------------------------------------------
(***************************************************************************)
(* The body of _runCallbacks.                                              *)
(***************************************************************************)

\* Head of the outer loop: a paused Deferred ends the whole activation.
OuterLoop ==
    /\ At("outer")
    /\ IF paused[Current] # 0
       THEN stack' = Pop(stack) /\ UNCHANGED chainedTo
       ELSE /\ stack' = Goto("inner")
            /\ chainedTo' = [chainedTo EXCEPT ![Current] = NONE]
    /\ UNCHANGED <<called, result, paused, suppress, running, callbacks,
                   failResult, userPaused, attempts, refused, added>>

\* The current Deferred is done with for now: update its _debugInfo and go back
\* to the Deferred that supplied its result.
FinishedFrame(s) ==
    IF Len(Top.chain) = 1
    THEN Pop(s)
    ELSE [s EXCEPT ![Len(s)] = [chain |-> Pop(Top.chain), pc |-> "outer"]]

Finished ==
    /\ At("inner")
    /\ callbacks[Current] = <<>>
    /\ failResult' = [failResult EXCEPT ![Current] = result[Current] = "fail"]
    /\ stack' = FinishedFrame(stack)
    /\ UNCHANGED <<called, result, paused, suppress, running, chainedTo, callbacks,
                   userPaused, attempts, refused, added>>

\* A Failure that stays with the Deferred that gave it away.
KeepFailure(d) == failResult

\* _debugInfo.failResult = None: the Failure now belongs to another Deferred.
ForgetFailure(d) == [failResult EXCEPT ![d] = FALSE]

\* A hand-over that forgets the pause made when the chainee began to wait.
StayPaused(chainee) == paused

\* chainee.paused -= 1
Resume(chainee) == [paused EXCEPT ![chainee] = @ - 1]

NextEntry(type) ==
    /\ At("inner")
    /\ callbacks[Current] # <<>>
    /\ Head(callbacks[Current])[1] = type
    /\ callbacks' = [callbacks EXCEPT ![Current] = Tail(@)]

\* _CONTINUE: hand the result over to the Deferred that waited for it.
HandOver ==
    LET chainee == Head(callbacks[Current])[2]
    IN  /\ NextEntry("continue")
        /\ result' = [[result EXCEPT ![chainee] = result[Current]]
                             EXCEPT ![Current] = "none"]
        /\ failResult' = ForgetFailure(Current)
        /\ paused' = Resume(chainee)
        /\ stack' = [stack EXCEPT ![Len(stack)] =
                        [chain |-> Append(Top.chain, chainee), pc |-> "outer"]]
        /\ UNCHANGED <<called, suppress, running, chainedTo, userPaused, attempts,
                       refused, added>>

\* A callback or an errback of the application is called.
CallUser ==
    /\ NextEntry("user")
    /\ running' = [running EXCEPT ![Current] = TRUE]
    /\ stack' = Goto("user")
    /\ UNCHANGED <<called, result, paused, suppress, chainedTo, failResult,
                   userPaused, attempts, refused, added>>

\* The callback returned a plain result, or raised.
UserReturns(r) ==
    /\ At("user")
    /\ result' = [result EXCEPT ![Current] = r]
    /\ running' = [running EXCEPT ![Current] = FALSE]
    /\ stack' = Goto("inner")
    /\ UNCHANGED <<called, paused, suppress, chainedTo, callbacks, failResult,
                   userPaused, attempts, refused, added>>

\* What e.result is once the callback of the current Deferred returned e.
ReturnedResult(e) == IF e = Current THEN e ELSE result[e]

\* As HasResult, but a Deferred that waits for another one counts as fired.
HasSomeResult(e) == ReturnedResult(e) # "no result"

\* e has a result of its own to give away.
HasResult(e) == ReturnedResult(e) \in Plain /\ paused[e] = 0

\* The callback returned a Deferred that has a result: steal it.
UserReturnsFired(e) ==
    /\ At("user")
    /\ HasResult(e)
    /\ result' = [[result EXCEPT ![Current] = result[e]] EXCEPT ![e] = "none"]
    /\ failResult' = ForgetFailure(e)
    /\ running' = [running EXCEPT ![Current] = FALSE]
    /\ stack' = Goto("inner")
    /\ UNCHANGED <<called, paused, suppress, chainedTo, callbacks, userPaused,
                   attempts, refused, added>>

\* Waiting without the pause.
NoPause(d) == paused

\* current.pause()
PauseToWait(d) == [paused EXCEPT ![d] = @ + 1]

\* The callback returned a Deferred without a result: pause and wait for it.
\* The inner loop is left with `finished' set.
UserReturnsWaiting(e) ==
    /\ At("user")
    /\ ~HasResult(e)
    /\ result' = [result EXCEPT ![Current] = e]
    /\ running' = [running EXCEPT ![Current] = FALSE]
    /\ paused' = PauseToWait(Current)
    /\ chainedTo' = [chainedTo EXCEPT ![Current] = e]
    /\ callbacks' = [callbacks EXCEPT ![e] = Append(@, Continue(Current))]
    /\ failResult' = [failResult EXCEPT ![Current] = FALSE]
    /\ stack' = FinishedFrame(stack)
    /\ UNCHANGED <<called, suppress, userPaused, attempts, refused, added>>

\* The callback is e.callback or e.errback, installed by chainDeferred.  Its
\* own activation of _runCallbacks goes on top; AlreadyCalledError becomes the
\* result of the current Deferred.
CallChained ==
    LET e == Head(callbacks[Current])[2]
    IN  /\ NextEntry("fire")
        /\ \/ /\ StartRunCallbacks(e, result[Current], Goto("fire"))
              /\ running' = [running EXCEPT ![Current] = TRUE]
              /\ UNCHANGED <<suppress, refused>>
           \/ /\ RefuseCall(e)
              /\ result' = [result EXCEPT ![Current] = IF suppress[e] THEN "none" ELSE "fail"]
              /\ UNCHANGED <<called, running, stack>>
        /\ attempts' = [attempts EXCEPT ![e] = @ + 1]
        /\ UNCHANGED <<paused, chainedTo, failResult, userPaused, added>>

\* e.callback returned None.
ChainedReturns ==
    /\ At("fire")
    /\ result' = [result EXCEPT ![Current] = "none"]
    /\ running' = [running EXCEPT ![Current] = FALSE]
    /\ stack' = Goto("inner")
    /\ UNCHANGED <<called, paused, suppress, chainedTo, callbacks, failResult,
                   userPaused, attempts, refused, added>>

-------------------------------------------------------------------------------
Application ==
    \E d \in Deferreds :
        \/ \E r \in {"ok", "fail"} : Call(d, r)
        \/ AddCallbacks(d)
        \/ \E e \in Deferreds : ChainDeferred(d, e)
        \/ Pause(d)
        \/ Unpause(d)
        \/ Cancel(d)

Machinery ==
    \/ CancelWithoutCanceller
    \/ CallCanceller
    \/ CancellerReturns
    \/ CancellerRaises
    \/ ForwardCancel
    \/ OuterLoop
    \/ Finished
    \/ HandOver
    \/ CallUser
    \/ \E r \in Plain : UserReturns(r)
    \/ \E e \in Deferreds : UserReturnsFired(e)
    \/ \E e \in Deferreds : UserReturnsWaiting(e)
    \/ CallChained
    \/ ChainedReturns

Next == Application \/ Machinery

Spec == Init /\ [][Next]_vars

-------------------------------------------------------------------------------
(***************************************************************************)
(* Properties.                                                             *)
(***************************************************************************)

\* Every attribute, and the call stack, hold values of their kind.
TypeOK ==
    /\ called \in [Deferreds -> BOOLEAN]
    /\ result \in [Deferreds -> Results]
    /\ paused \in [Deferreds -> Nat]
    /\ suppress \in [Deferreds -> BOOLEAN]
    /\ running \in [Deferreds -> BOOLEAN]
    /\ chainedTo \in [Deferreds -> Deferreds \cup {NONE}]
    /\ callbacks \in [Deferreds -> Seq(Entries)]
    /\ failResult \in [Deferreds -> BOOLEAN]
    /\ stack \in Seq(Frames)
    /\ userPaused \in [Deferreds -> Nat]
    /\ attempts \in [Deferreds -> Nat]
    /\ refused \in [Deferreds -> BOOLEAN]
    /\ added \in [Deferreds -> Nat]

\* The places in e's callback list where a continuation of d stands.
Waits(d, e) == {i \in DOMAIN callbacks[e] : callbacks[e][i] = Continue(d)}

\* A Deferred whose result is another Deferred stands in that one's callback
\* list exactly once and in no other, and a Deferred whose result is its own
\* stands in none: no waiter is orphaned, resumed twice or resumed with the
\* result of a Deferred it does not wait for (_runCallbacks, both _CONTINUE
\* branches).
ChainIntegrity ==
    \A d, e \in Deferreds :
        /\ result[d] = e => \E i \in DOMAIN callbacks[e] : Waits(d, e) = {i}
        /\ result[d] # e => Waits(d, e) = {}

\* The pause counter is the application's own pauses plus one for the Deferred
\* it waits for: chaining and unchaining never lose or invent a pause, so a
\* resumed Deferred really runs and a waiting one never does.
PauseBalance ==
    \A d \in Deferreds :
        paused[d] = userPaused[d] + (IF result[d] \in Deferreds THEN 1 ELSE 0)

\* _runningCallbacks is set exactly while one activation is inside a callback
\* of the Deferred, and never are two: however application code re-enters, no
\* callback of a Deferred starts before the previous one returned.
Busy(i) == stack[i].pc \in {"user", "fire"}
FrameCurrent(i) == stack[i].chain[Len(stack[i].chain)]
NoNestedCallbacks ==
    /\ \A i, j \in DOMAIN stack :
          Busy(i) /\ Busy(j) /\ i # j => FrameCurrent(i) # FrameCurrent(j)
    /\ \A d \in Deferreds :
          running[d] <=> \E i \in DOMAIN stack : Busy(i) /\ FrameCurrent(i) = d

\* Code that fires a Deferred without canceller once never gets
\* AlreadyCalledError, whether or not somebody cancelled it before
\* (the contract __init__ states for a Deferred without canceller).
SingleCallAccepted ==
    \A d \in Deferreds \ Cancellable : attempts[d] <= 1 => ~refused[d]

Quiescent == stack = <<>>

\* Once control is back in the reactor, every Deferred that has been called and
\* is not paused has run all its callbacks.
Drained ==
    Quiescent => \A d \in Deferreds :
        called[d] /\ paused[d] = 0 => callbacks[d] = <<>>

\* What Drained leaves, with and without pause() (run deferred_stuck): once
\* control is back in the reactor, a Deferred that has been called, is not
\* paused and still has callbacks has given its result to a Deferred that
\* waited for it.  Never do a result and the callbacks that should process it
\* sit side by side, however application code re-enters _runCallbacks.
NoResultWithheld ==
    Quiescent => \A d \in Deferreds :
        called[d] /\ paused[d] = 0 => callbacks[d] = <<>> \/ result[d] = "none"

\* Once control is back in the reactor, "Unhandled error in Deferred" would be
\* logged for exactly the unpaused Deferreds that still hold a Failure: none
\* is dropped when results move along a chain, none is reported twice.
FailuresAccountedFor ==
    Quiescent => \A d \in Deferreds :
        /\ failResult[d] => result[d] = "fail"
        /\ result[d] = "fail" /\ paused[d] = 0 => failResult[d]
===============================================================================
