------------------------- MODULE DeferredFilesystemLock -------------------------
(***************************************************************************)
(* twisted.internet.defer.DeferredFilesystemLock: deferUntilLocked polls a *)
(* FilesystemLock with one delayed call and gives up with another.         *)
(*                                                                         *)
(* lock() is one step here, a poll of who owns the lock file: another      *)
(* process, this one, or nobody.  The two delayed calls may come due in    *)
(* any order.                                                              *)
(***************************************************************************)
EXTENDS Naturals

CONSTANT MaxAttempts   \* bound: how often deferUntilLocked is called

Attempts == 1..MaxAttempts
Nobody == 0

VARIABLES
    owner,        \* of the lock file: "nobody", "us" or "other"
    tryCall,      \* self._tryLockCall: "none", "active" or "called"
    timeoutCall,  \* self._timeoutCall: the same
    timeout,      \* [i] attempt i was given a timeout
    fate,         \* [i] of the Deferred: "unborn", "waiting", or its result
    taker,        \* history: the attempt whose lock() took the lock we have
    reused        \* history: an attempt began with a _timeoutCall that is over

dflVars == <<owner, tryCall, timeoutCall, timeout, fate, taker, reused>>

Init ==
    /\ owner \in {"nobody", "other"}
    /\ tryCall = "none" /\ timeoutCall = "none"
    /\ timeout = [i \in Attempts |-> FALSE]
    /\ fate = [i \in Attempts |-> "unborn"]
    /\ taker = Nobody /\ reused = FALSE

-------------------------------------------------------------------------------
\* _timeoutCall.cancel() raises AlreadyCalled, out of deferUntilLocked itself or
\* into the reactor: the Deferred's callback is not reached.
CancelRaises == timeoutCall = "called"

\* _tryLock of attempt i, with what the caller has made of the call that ran it.
TryLock(i, ran, hasTimeout) ==
    IF owner = "nobody"
    THEN /\ owner' = "us" /\ taker' = i
         /\ IF CancelRaises
            THEN /\ tryCall' = ran /\ UNCHANGED timeoutCall
                 /\ fate' = [fate EXCEPT ![i] = IF ran = "none" THEN "raised" ELSE @]
            ELSE /\ timeoutCall' = "none" /\ tryCall' = "none"
                 /\ fate' = [fate EXCEPT ![i] = "locked"]
    ELSE /\ timeoutCall' = IF hasTimeout /\ timeoutCall = "none" THEN "active" ELSE timeoutCall
         /\ tryCall' = "active"
         /\ fate' = [fate EXCEPT ![i] = "waiting"]
         /\ UNCHANGED <<owner, taker>>

DeferUntilLocked(i, hasTimeout) ==
    /\ fate[i] = "unborn" /\ \A j \in 1..i - 1 : fate[j] # "unborn"
    /\ timeout' = [timeout EXCEPT ![i] = hasTimeout]
    /\ IF tryCall # "none"
       THEN /\ fate' = [fate EXCEPT ![i] = "AlreadyTryingToLock"]
            /\ UNCHANGED <<owner, tryCall, timeoutCall, taker, reused>>
       ELSE /\ reused' = (reused \/ timeoutCall = "called")
            /\ TryLock(i, "none", hasTimeout)

TryLockCalled(i) ==
    /\ tryCall = "active" /\ fate[i] = "waiting"
    /\ TryLock(i, "called", timeout[i])
    /\ UNCHANGED <<timeout, reused>>

-------------------------------------------------------------------------------
LeaveTimeout(call) == call

\* A _timeoutCall that is not active, since it is what runs this, is kept.
DropTimeout(call) == IF call = "active" THEN "none" ELSE call

\* _cancelLock tries once more before it gives up.
CancelLock(i, reason, call) ==
    /\ tryCall' = "none"
    /\ timeoutCall' = DropTimeout(call)
    /\ IF owner = "nobody"
       THEN owner' = "us" /\ taker' = i /\ fate' = [fate EXCEPT ![i] = "locked"]
       ELSE fate' = [fate EXCEPT ![i] = reason] /\ UNCHANGED <<owner, taker>>
    /\ UNCHANGED <<timeout, reused>>

TimesOut(i) ==
    /\ timeoutCall = "active" /\ fate[i] = "waiting"
    /\ CancelLock(i, "TimeoutError", "called")

\* The application cancels the Deferred; _tryLockCall.cancel() raises unless
\* that call is active.
Cancel(i) ==
    /\ fate[i] = "waiting" /\ tryCall = "active"
    /\ CancelLock(i, "CancelledError", timeoutCall)

-------------------------------------------------------------------------------
Unlock ==
    /\ owner = "us"
    /\ owner' = "nobody" /\ taker' = Nobody
    /\ UNCHANGED <<tryCall, timeoutCall, timeout, fate, reused>>

Others ==
    /\ \/ owner = "nobody" /\ owner' = "other"
       \/ owner = "other" /\ owner' = "nobody"
    /\ UNCHANGED <<tryCall, timeoutCall, timeout, fate, taker, reused>>

Next ==
    \/ \E i \in Attempts :
          \/ \E hasTimeout \in BOOLEAN : DeferUntilLocked(i, hasTimeout)
          \/ TryLockCalled(i)
          \/ TimesOut(i)
          \/ Cancel(i)
    \/ Unlock
    \/ Others

Spec == Init /\ [][Next]_dflVars

-------------------------------------------------------------------------------
(***************************************************************************)
(* deferUntilLocked promises a Deferred that fires when the lock is        *)
(* acquired: once lock() has succeeded for an attempt, its Deferred has    *)
(* been told.                                                              *)
(***************************************************************************)
LockIsAnnounced == taker # Nobody => fate[taker] = "locked"

(***************************************************************************)
(* The delayed calls and the Deferred agree, whichever of success, timeout *)
(* and cancellation comes first: an attempt that waits will try again and, *)
(* if it was given a timeout, will time out; when none waits no delayed    *)
(* call is left; a lock that is taken is announced.  It holds until an     *)
(* attempt begins after an earlier one has timed out.                      *)
(***************************************************************************)
AttemptIsDriven ==
    \/ reused
    \/ /\ LockIsAnnounced
       /\ \A i \in Attempts : fate[i] = "waiting" =>
             tryCall = "active" /\ (timeout[i] => timeoutCall = "active")
       /\ (\A i \in Attempts : fate[i] # "waiting") => tryCall = "none" /\ timeoutCall # "active"
===============================================================================
