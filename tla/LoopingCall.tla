------------------------------ MODULE LoopingCall ------------------------------
(***************************************************************************)
(* twisted.internet.task.LoopingCall: a function that is called again and  *)
(* again by a reactor's delayed calls.  The function may return at once,   *)
(* raise, or return a Deferred that ends later; while it runs it may stop  *)
(* or reset the loop that calls it.                                        *)
(*                                                                         *)
(* Time is counted in integers, so the branch of _scheduleFrom for a delay *)
(* too small to be added to a float is not reached.                        *)
(***************************************************************************)
EXTENDS Integers, FiniteSets

CONSTANTS Intervals,   \* the intervals start() is called with
          MaxTime,     \* bound: the clock stops here
          MaxStarts    \* bound: how often start() is called

None == -1
MaxInterval == CHOOSE i \in Intervals : \A j \in Intervals : j <= i
Times == 0..MaxTime + MaxInterval
Starts == 1..MaxStarts

LoopingCallAssumption == Intervals \subseteq Nat /\ MaxTime \in Nat /\ MaxStarts \in Nat

VARIABLES
    now,          \* clock.seconds()
    looping,      \* self.running
    call,         \* the time self.call is due, None if there is no such call
    orphans,      \* how many delayed calls, by time, the LoopingCall lost track of
    inside,       \* the function is being called, or the counter skips it
    outstanding,  \* how many Deferreds of the function have not fired
    current,      \* which start() self._deferred belongs to, 0 for None
    answer,       \* what happened to the Deferred of each start()
    starttime, interval, runAtStart,
    lastTime,     \* self._realLastTime of a LoopingCall.withCount
    counted,      \* history: sum of the counts given since the first start()
    fresh,        \* history: no second start() and no reset() so far
    overlapped    \* history: start() was called before the function had ended

loopVars == <<now, looping, call, orphans, inside, outstanding, current, answer,
              starttime, interval, runAtStart, lastTime, counted, fresh,
              overlapped>>

Init ==
    /\ now = 0 /\ looping = FALSE /\ call = None /\ orphans = [t \in Times |-> 0]
    /\ inside = "no" /\ outstanding = 0 /\ current = 0
    /\ answer = [i \in Starts |-> "unborn"]
    /\ starttime = 0 /\ interval = 0 /\ runAtStart = FALSE
    /\ lastTime = None /\ counted = 0 /\ fresh = TRUE /\ overlapped = FALSE

\* int(): truncation towards zero.
IntervalOf(t, start, every) ==
    IF t >= start THEN (t - start) \div every ELSE -((start - t) \div every)

HowLong(when, start, every) ==
    IF every = 0 THEN 0 ELSE every - ((when - start) % every)

\* A delayed call that self.call named is not cancelled by forgetting it.
Forgotten == IF call = None THEN orphans ELSE [orphans EXCEPT ![call] = @ + 1]

\* _scheduleFrom
ScheduleFrom(when, start, every) ==
    /\ call' = when + HowLong(when, start, every)
    /\ orphans' = Forgotten

-------------------------------------------------------------------------------
(***************************************************************************)
(* The counter of withCount: it skips the function when no interval has    *)
(* ended, which the loop takes for a function that has returned.           *)
(***************************************************************************)
LastCounted(start, every, atOnce) ==
    IF lastTime # None THEN lastTime ELSE IF atOnce THEN start - every ELSE start

Counter(start, every, atOnce) ==
    LET count == IF every = 0 THEN 1
                 ELSE IntervalOf(now, start, every)
                      - IntervalOf(LastCounted(start, every, atOnce), start, every)
    IN  IF count > 0
        THEN /\ inside' = "function" /\ lastTime' = now
             /\ counted' = IF every = 0 THEN counted ELSE counted + count
        ELSE inside' = "skipped" /\ UNCHANGED <<lastTime, counted>>

\* A delayed call comes due: the one that self.call names, or one that it has
\* been made to forget.  __call__ forgets self.call whichever it is.
Called ==
    /\ inside = "no"
    /\ call' = None
    /\ Counter(starttime, interval, runAtStart)
    /\ UNCHANGED <<now, looping, outstanding, current, answer, starttime, interval,
                   runAtStart, fresh, overlapped>>

Due == call # None /\ call <= now /\ Called /\ UNCHANGED orphans

OrphanDue ==
    \E t \in Times :
        /\ orphans[t] > 0 /\ t <= now
        /\ Called
        /\ orphans' = [Forgotten EXCEPT ![t] = @ - 1]

-------------------------------------------------------------------------------
(***************************************************************************)
(* The API.                                                                *)
(***************************************************************************)

\* start(): with now=True the function is called within.
Start(i, every, atOnce) ==
    /\ ~looping
    /\ answer[i] = "unborn" /\ \A j \in 1..i - 1 : answer[j] # "unborn"
    /\ inside = "no"
    /\ looping' = TRUE
    /\ current' = i
    /\ answer' = [answer EXCEPT ![i] = "waiting"]
    /\ starttime' = now /\ interval' = every /\ runAtStart' = atOnce
    /\ IF atOnce
       THEN call' = None /\ orphans' = Forgotten /\ Counter(now, every, atOnce)
       ELSE ScheduleFrom(now, now, every) /\ UNCHANGED <<inside, lastTime, counted>>
    /\ fresh' = (i = 1)
    /\ overlapped' = (overlapped \/ outstanding > 0)
    /\ UNCHANGED <<now, outstanding>>

\* The Deferred of the current start() is given its result and forgotten.
Answer(what) ==
    /\ current' = 0
    /\ answer' = [answer EXCEPT ![current] = what]

StopAlwaysCancels == TRUE

StopCancels == call # None

Stop ==
    /\ looping /\ inside # "skipped"
    /\ looping' = FALSE
    /\ IF StopCancels
       THEN call' = None /\ Answer("stopped")
       ELSE UNCHANGED <<call, current, answer>>
    /\ UNCHANGED <<now, orphans, inside, outstanding, starttime, interval, runAtStart,
                   lastTime, counted, fresh, overlapped>>

Reset ==
    /\ looping
    /\ call # None
    /\ starttime' = now
    /\ call' = now + HowLong(now, now, interval)
    /\ fresh' = FALSE
    /\ UNCHANGED <<now, looping, orphans, inside, outstanding, current, answer, interval,
                   runAtStart, lastTime, counted, overlapped>>

-------------------------------------------------------------------------------
(***************************************************************************)
(* The function ends.  An exception of cb reaches eb, which then fails in  *)
(* the same way: self._deferred is None.                                   *)
(***************************************************************************)
Cb ==
    IF looping
    THEN /\ ScheduleFrom(now, starttime, interval)
         /\ UNCHANGED <<looping, current, answer>>
    ELSE /\ IF current = 0 THEN UNCHANGED <<current, answer>> ELSE Answer("stopped")
         /\ UNCHANGED <<looping, call, orphans>>

Eb ==
    /\ looping' = FALSE
    /\ IF current = 0 THEN UNCHANGED <<current, answer>> ELSE Answer("failed")
    /\ UNCHANGED <<call, orphans>>

loopTimes == <<now, starttime, interval, runAtStart, lastTime, counted, fresh,
               overlapped>>

Returns == inside # "no" /\ inside' = "no" /\ Cb /\ UNCHANGED <<outstanding, loopTimes>>

Raises == inside = "function" /\ inside' = "no" /\ Eb /\ UNCHANGED <<outstanding, loopTimes>>

ReturnsDeferred ==
    /\ inside = "function"
    /\ inside' = "no"
    /\ outstanding' = outstanding + 1
    /\ UNCHANGED <<looping, call, orphans, current, answer, loopTimes>>

DeferredFires(ok) ==
    /\ inside = "no"
    /\ outstanding > 0
    /\ outstanding' = outstanding - 1
    /\ IF ok THEN Cb ELSE Eb
    /\ UNCHANGED <<inside, loopTimes>>

TimePasses ==
    /\ now < MaxTime
    /\ now' = now + 1
    /\ UNCHANGED <<looping, call, orphans, inside, outstanding, current, answer, starttime,
                   interval, runAtStart, lastTime, counted, fresh, overlapped>>

-------------------------------------------------------------------------------
Next ==
    \/ \E i \in Starts, every \in Intervals, atOnce \in BOOLEAN : Start(i, every, atOnce)
    \/ Stop
    \/ Reset
    \/ Due
    \/ OrphanDue
    \/ Returns
    \/ Raises
    \/ ReturnsDeferred
    \/ \E ok \in BOOLEAN : DeferredFires(ok)
    \/ TimePasses

Spec == Init /\ [][Next]_loopVars

-------------------------------------------------------------------------------
(***************************************************************************)
(* start() promises a Deferred that fires when the loop is stopped or      *)
(* fails: one that has not fired is still the one that __call__, stop and  *)
(* the callbacks will fire.                                                *)
(***************************************************************************)
NoDeferredIsForgotten == \A i \in Starts : answer[i] = "waiting" => current = i

(***************************************************************************)
(* A loop that has not ended is carried on by exactly one thing (a delayed *)
(* call, a running function or its Deferred), a loop that has ended by     *)
(* none, however stop, reset and the end of the function follow each       *)
(* other; and the counts given to a withCount function since the start add *)
(* up to the intervals that have begun.  This holds as long as start() is  *)
(* not called on a stopped loop whose last call has yet to end.            *)
(***************************************************************************)
Toggle(b) == IF b THEN 1 ELSE 0

LoopIsCarriedOn ==
    \/ overlapped
    \/ /\ NoDeferredIsForgotten
       /\ looping => current # 0
       /\ Toggle(call # None) + Toggle(inside # "no") + outstanding = Toggle(current # 0)
       /\ \A t \in Times : orphans[t] = 0
       /\ (fresh /\ interval > 0 /\ lastTime # None) =>
             counted = IntervalOf(lastTime, starttime, interval) + Toggle(runAtStart)
===============================================================================
