----------------------------- MODULE ReactorProofs -----------------------------
(***************************************************************************)
(* Proofs about the parts of MCReactor that run on the reactor, for every  *)
(* value of their constants.                                               *)
(***************************************************************************)
EXTENDS MCReactor, SequenceTheorems, FiniteSetTheorems, TLAPS

-------------------------------------------------------------------------------
(***************************************************************************)
(* LoopingCall.  Once start() was called before the function had ended     *)
(* nothing is claimed.  Until then only a loop that goes on has a delayed  *)
(* call, and before the first start() nothing was counted.                 *)
(***************************************************************************)
LoopTypes ==
    /\ loopNow \in Nat /\ looping \in BOOLEAN /\ call \in Nat \cup {Loop!None}
    /\ orphans = [t \in Loop!Times |-> 0]
    /\ inside \in {"no", "function", "skipped"} /\ outstanding \in Nat
    /\ current \in Loop!Starts \cup {0}
    /\ answer \in [Loop!Starts -> {"unborn", "waiting", "stopped", "failed"}]
    /\ starttime \in Nat /\ interval \in Nat /\ runAtStart \in BOOLEAN
    /\ lastTime \in Nat \cup {Loop!None} /\ counted \in Int /\ fresh \in BOOLEAN

LoopIsOne ==
    /\ Loop!NoDeferredIsForgotten
    /\ looping => current # 0
    /\ call # Loop!None => looping
    /\ \/ /\ current = 0 /\ call = Loop!None /\ inside = "no" /\ outstanding = 0
       \/ /\ current # 0 /\ call # Loop!None /\ inside = "no" /\ outstanding = 0
       \/ /\ current # 0 /\ call = Loop!None /\ inside # "no" /\ outstanding = 0
       \/ /\ current # 0 /\ call = Loop!None /\ inside = "no" /\ outstanding = 1

LoopCounts ==
    /\ 1 \in Loop!Starts /\ answer[1] = "unborn" => current = 0 /\ lastTime = Loop!None /\ counted = 0
    /\ fresh /\ interval > 0 =>
          IF lastTime = Loop!None THEN counted = 0 /\ ~runAtStart
          ELSE counted = Loop!IntervalOf(lastTime, starttime, interval) + Loop!Toggle(runAtStart)

LoopInvariant ==
    /\ overlapped \in BOOLEAN
    /\ overlapped \/ (LoopTypes /\ LoopIsOne /\ LoopCounts)

\* How many intervals have ended is an integer; none has at the start, and the
\* time one interval before it counts for one.
LEMMA LoopIntervals ==
    ASSUME NEW start \in Nat, NEW every \in Nat, every > 0
    PROVE  /\ \A t \in Int : Loop!IntervalOf(t, start, every) \in Int
           /\ Loop!IntervalOf(start, start, every) = 0
           /\ Loop!IntervalOf(start - every, start, every) = -1
  <1>1. \A a \in Int : a \div every \in Int
    OBVIOUS
  <1>2. 0 \div every = 0 /\ every \div every = 1
    OBVIOUS
  <1>3. \A t \in Int : Loop!IntervalOf(t, start, every) \in Int
    <2>1. SUFFICES ASSUME NEW t \in Int
                   PROVE  Loop!IntervalOf(t, start, every) \in Int
      OBVIOUS
    <2>2. (t - start) \div every \in Int /\ (start - t) \div every \in Int
      BY <1>1
    <2>3. QED
      BY <2>2 DEF Loop!IntervalOf
  <1>4. Loop!IntervalOf(start, start, every) = 0
    BY <1>2 DEF Loop!IntervalOf
  <1>5. Loop!IntervalOf(start - every, start, every) = -1
    <2>1. ~(start - every >= start) /\ start - (start - every) = every
      OBVIOUS
    <2>2. Loop!IntervalOf(start - every, start, every) = -(every \div every)
      BY <2>1 DEF Loop!IntervalOf
    <2>3. QED
      BY <1>2, <2>2
  <1>6. QED
    BY <1>3, <1>4, <1>5

\* The next call is never scheduled for the past.
LEMMA LoopHowLong ==
    ASSUME NEW when \in Nat, NEW start \in Nat, NEW every \in Nat
    PROVE  when + Loop!HowLong(when, start, every) \in Nat
  <1>1. CASE every = 0
    BY <1>1 DEF Loop!HowLong
  <1>2. CASE every # 0
    <2>1. (when - start) % every \in 0..every - 1
      BY <1>2
    <2>2. QED
      BY <1>2, <2>1 DEF Loop!HowLong
  <1>3. QED
    BY <1>1, <1>2

LEMMA LoopInit ==
    ASSUME Loop!Init
    PROVE  LoopInvariant
  <1>1. LoopTypes
    <2>1. answer \in [Loop!Starts -> {"unborn", "waiting", "stopped", "failed"}]
      BY DEF Loop!Init
    <2>2. orphans = [t \in Loop!Times |-> 0]
      BY DEF Loop!Init
    <2>3. /\ loopNow = 0 /\ looping = FALSE /\ call = Loop!None /\ inside = "no" /\ outstanding = 0
          /\ current = 0 /\ starttime = 0 /\ interval = 0 /\ runAtStart = FALSE
          /\ lastTime = Loop!None /\ counted = 0 /\ fresh = TRUE
      BY DEF Loop!Init
    <2>4. /\ loopNow \in Nat /\ call \in Nat \cup {Loop!None} /\ outstanding \in Nat
          /\ current \in Loop!Starts \cup {0} /\ starttime \in Nat /\ interval \in Nat
          /\ lastTime \in Nat \cup {Loop!None} /\ counted \in Int
      BY <2>3
    <2>5. QED
      BY ONLY <2>1, <2>2, <2>3, <2>4, Zenon DEF LoopTypes
  <1>2. LoopIsOne /\ LoopCounts
    BY DEF Loop!Init, LoopIsOne, LoopCounts, Loop!NoDeferredIsForgotten, Loop!None
  <1>3. QED
    BY <1>1, <1>2 DEF Loop!Init, LoopInvariant

\* What withCount counts, at the first call or at a later one.
LEMMA LoopCounted ==
    ASSUME LoopTypes, NEW start \in Nat, NEW every \in Nat, NEW atOnce \in BOOLEAN,
           Loop!Counter(start, every, atOnce),
           every > 0 =>
               IF lastTime = Loop!None
               THEN counted = 0 /\ (atOnce => start = loopNow)
               ELSE counted = Loop!IntervalOf(lastTime, start, every) + Loop!Toggle(atOnce)
    PROVE  /\ inside' \in {"function", "skipped"} /\ lastTime' \in Nat \cup {Loop!None} /\ counted' \in Int
           /\ every > 0 =>
                 IF lastTime' = Loop!None THEN counted' = 0 /\ ~atOnce
                 ELSE counted' = Loop!IntervalOf(lastTime', start, every) + Loop!Toggle(atOnce)
  <1>t. loopNow \in Nat /\ lastTime \in Nat \cup {Loop!None} /\ counted \in Int /\ Loop!None = -1
    BY DEF LoopTypes, Loop!None
  <1>1. CASE every = 0
    BY <1>t, <1>1 DEF Loop!Counter
  <1>2. CASE every > 0
    <2>1. /\ \A t \in Int : Loop!IntervalOf(t, start, every) \in Int
          /\ Loop!IntervalOf(start, start, every) = 0
          /\ Loop!IntervalOf(start - every, start, every) = -1
      BY <1>2, LoopIntervals
    <2>2. PICK last : last = Loop!LastCounted(start, every, atOnce)
      BY Zenon
    <2>3. last \in Int
      BY <1>t, <2>2 DEF Loop!LastCounted
    <2>4. PICK n \in Int, m \in Int : /\ n = Loop!IntervalOf(loopNow, start, every)
                                      /\ m = Loop!IntervalOf(last, start, every)
      BY <1>t, <2>1, <2>3
    <2>5. IF n - m > 0
          THEN inside' = "function" /\ lastTime' = loopNow /\ counted' = counted + (n - m)
          ELSE inside' = "skipped" /\ UNCHANGED <<lastTime, counted>>
      BY <1>2, <2>2, <2>4 DEF Loop!Counter
    <2>6. CASE lastTime # Loop!None
      <3>1. last = lastTime
        BY <2>2, <2>6 DEF Loop!LastCounted
      <3>2. counted = m + Loop!Toggle(atOnce)
        BY <1>2, <2>4, <2>6, <3>1
      <3>3. Loop!Toggle(atOnce) \in Int
        BY DEF Loop!Toggle
      <3>4. n - m > 0 => counted' = n + Loop!Toggle(atOnce)
        BY <2>4, <2>5, <3>2, <3>3
      <3>5. CASE n - m > 0
        BY <1>t, <2>4, <2>5, <3>4, <3>5
      <3>6. CASE ~(n - m > 0)
        BY <1>t, <1>2, <2>5, <2>6, <3>6
      <3>7. QED
        BY <3>5, <3>6
    <2>7. CASE lastTime = Loop!None /\ atOnce
      <3>1. last = start - every /\ start = loopNow /\ counted = 0
        BY <1>2, <2>2, <2>7 DEF Loop!LastCounted
      <3>2. n = 0 /\ m = -1
        BY <2>1, <2>4, <3>1
      <3>3. inside' = "function" /\ lastTime' = loopNow /\ counted' = 1
        BY <2>5, <3>1, <3>2
      <3>4. Loop!Toggle(atOnce) = 1 /\ Loop!IntervalOf(lastTime', start, every) = 0
        BY <2>1, <2>7, <3>1, <3>3 DEF Loop!Toggle
      <3>5. QED
        BY <1>t, <3>3, <3>4
    <2>8. CASE lastTime = Loop!None /\ ~atOnce
      <3>1. last = start /\ counted = 0
        BY <1>2, <2>2, <2>8 DEF Loop!LastCounted
      <3>2. m = 0 /\ Loop!Toggle(atOnce) = 0
        BY <2>1, <2>4, <2>8, <3>1 DEF Loop!Toggle
      <3>3. CASE n - m > 0
        <4>1. lastTime' = loopNow /\ counted' = n /\ inside' = "function"
          BY <2>5, <3>1, <3>2, <3>3
        <4>2. QED
          BY <1>t, <2>4, <3>2, <4>1
      <3>4. CASE ~(n - m > 0)
        BY <1>t, <2>5, <2>8, <3>1, <3>4
      <3>5. QED
        BY <3>3, <3>4
    <2>9. QED
      BY <2>6, <2>7, <2>8
  <1>3. QED
    BY <1>1, <1>2

\* A loop that is not overlapped has lost track of no delayed call, and loses
\* none when it has none.
LEMMA LoopForgotten ==
    ASSUME LoopTypes
    PROVE  call = Loop!None => Loop!Forgotten = orphans
  BY DEF Loop!Forgotten

\* Giving the Deferred of start() its result leaves none that waits.
LEMMA LoopAnswer ==
    ASSUME LoopTypes, LoopIsOne, current # 0,
           NEW what \in {"stopped", "failed"}, Loop!Answer(what)
    PROVE  /\ current' = 0 /\ answer' \in [Loop!Starts -> {"unborn", "waiting", "stopped", "failed"}]
           /\ \A i \in Loop!Starts : answer'[i] # "waiting"
           /\ 1 \in Loop!Starts /\ answer'[1] = "unborn" => answer[1] = "unborn"
  <1>1. current \in Loop!Starts /\ answer' = [answer EXCEPT ![current] = what] /\ current' = 0
    BY DEF LoopTypes, Loop!Answer
  <1>2. answer' \in [Loop!Starts -> {"unborn", "waiting", "stopped", "failed"}]
    BY <1>1 DEF LoopTypes
  <1>3. \A i \in Loop!Starts : answer'[i] = IF i = current THEN what ELSE answer[i]
    BY <1>1 DEF LoopTypes
  <1>4. QED
    BY <1>1, <1>2, <1>3 DEF LoopIsOne, Loop!NoDeferredIsForgotten

\* Whatever was counted, the counter enters the function or skips it.
LEMMA LoopCounterTypes ==
    ASSUME LoopTypes, NEW start \in Nat, NEW every \in Nat, NEW atOnce \in BOOLEAN,
           Loop!Counter(start, every, atOnce)
    PROVE  inside' \in {"function", "skipped"} /\ lastTime' \in Nat \cup {Loop!None} /\ counted' \in Int
  <1>t. loopNow \in Nat /\ lastTime \in Nat \cup {Loop!None} /\ counted \in Int /\ Loop!None = -1
    BY DEF LoopTypes, Loop!None
  <1>1. CASE every = 0
    BY <1>t, <1>1 DEF Loop!Counter
  <1>2. CASE every > 0
    <2>1. PICK last : last = Loop!LastCounted(start, every, atOnce)
      BY Zenon
    <2>t. last \in Int
      BY <1>t, <2>1 DEF Loop!LastCounted
    <2>2. PICK n \in Int : n = Loop!IntervalOf(loopNow, start, every) - Loop!IntervalOf(last, start, every)
      BY <1>t, <1>2, <2>t, LoopIntervals
    <2>3. IF n > 0
          THEN inside' = "function" /\ lastTime' = loopNow /\ counted' = counted + n
          ELSE inside' = "skipped" /\ UNCHANGED <<lastTime, counted>>
      BY <1>2, <2>1, <2>2 DEF Loop!Counter
    <2>4. QED
      BY <1>t, <2>3
  <1>3. QED
    BY <1>1, <1>2

\* The function has ended, well or badly.
LEMMA LoopEnded ==
    ASSUME LoopTypes, LoopIsOne, LoopCounts, inside # "no" \/ outstanding > 0,
           Loop!Cb \/ Loop!Eb,
           inside' = "no" /\ outstanding' = 0,
           UNCHANGED Loop!loopTimes
    PROVE  LoopTypes' /\ LoopIsOne' /\ LoopCounts'
  <1>1. current # 0 /\ call = Loop!None
    BY DEF LoopIsOne, LoopTypes
  <1>2. UNCHANGED <<loopNow, starttime, interval, runAtStart, lastTime, counted, fresh>>
    BY DEF Loop!loopTimes
  <1>3. CASE Loop!Cb /\ looping
    <2>1. /\ call' = loopNow + Loop!HowLong(loopNow, starttime, interval) /\ orphans' = orphans
          /\ UNCHANGED <<looping, current, answer>>
      BY <1>1, <1>3, LoopForgotten DEF Loop!Cb, Loop!ScheduleFrom
    <2>2. call' \in Nat
      BY <2>1, LoopHowLong DEF LoopTypes
    <2>3. call' # Loop!None
      BY <2>2 DEF Loop!None
    <2>4. LoopTypes'
      <3>1. call' \in Nat \cup {Loop!None} /\ outstanding' \in Nat
        BY <2>2
      <3>2. QED
        BY <1>2, <2>1, <3>1 DEF LoopTypes
    <2>5. LoopIsOne'
      BY <1>1, <1>3, <2>1, <2>3 DEF LoopIsOne, Loop!NoDeferredIsForgotten
    <2>6. LoopCounts'
      BY <1>1, <1>2, <2>1 DEF LoopCounts
    <2>7. QED
      BY <2>4, <2>5, <2>6
  <1>4. CASE (Loop!Cb /\ ~looping) \/ Loop!Eb
    <2>1. PICK what \in {"stopped", "failed"} : Loop!Answer(what)
      BY <1>1, <1>4 DEF Loop!Cb, Loop!Eb
    <2>2. UNCHANGED <<call, orphans>> /\ looping' = FALSE
      BY <1>4 DEF Loop!Cb, Loop!Eb, LoopTypes
    <2>3. /\ current' = 0 /\ answer' \in [Loop!Starts -> {"unborn", "waiting", "stopped", "failed"}]
          /\ \A i \in Loop!Starts : answer'[i] # "waiting"
          /\ 1 \in Loop!Starts /\ answer'[1] = "unborn" => answer[1] = "unborn"
      BY <1>1, <2>1, LoopAnswer
    <2>4. LoopTypes'
      BY <1>2, <2>2, <2>3 DEF LoopTypes
    <2>5. LoopIsOne'
      BY <1>1, <2>2, <2>3 DEF LoopIsOne, Loop!NoDeferredIsForgotten
    <2>6. LoopCounts'
      BY <1>1, <1>2, <2>3 DEF LoopCounts
    <2>7. QED
      BY <2>4, <2>5, <2>6
  <1>5. QED
    BY <1>3, <1>4

LEMMA LoopStep ==
    ASSUME Loop!LoopingCallAssumption, LoopInvariant, [Loop!Next]_Loop!loopVars
    PROVE  LoopInvariant'
  <1>0. overlapped' \in BOOLEAN /\ (overlapped => overlapped')
    BY DEF LoopInvariant, Loop!Next, Loop!Start, Loop!Stop, Loop!Reset, Loop!Due, Loop!OrphanDue, Loop!Called,
           Loop!Returns, Loop!Raises, Loop!ReturnsDeferred, Loop!DeferredFires, Loop!TimePasses,
           Loop!loopTimes, Loop!loopVars
  <1> DEFINE Goal == LoopTypes' /\ LoopIsOne' /\ LoopCounts'
  <1>s. SUFFICES ASSUME ~overlapped, ~overlapped', LoopTypes, LoopIsOne, LoopCounts
                 PROVE  Goal
    BY <1>0 DEF LoopInvariant
  <1>n. Loop!None = -1
    BY DEF Loop!None
  <1>1. ASSUME NEW i \in Loop!Starts, NEW every \in Intervals, NEW atOnce \in BOOLEAN,
               Loop!Start(i, every, atOnce)
        PROVE  Goal
    <2>1. outstanding = 0 /\ ~looping /\ inside = "no" /\ answer[i] = "unborn" /\ i \in Nat /\ i >= 1
      <3>1. ~looping /\ inside = "no" /\ answer[i] = "unborn" /\ (outstanding > 0 => overlapped')
        BY <1>1 DEF Loop!Start
      <3>2. outstanding = 0
        <4>1. outstanding \in Nat /\ ~(outstanding > 0)
          BY <1>s, <3>1 DEF LoopTypes
        <4>2. QED
          BY <4>1
      <3>3. i \in Nat /\ i >= 1
        BY <1>1 DEF Loop!Starts
      <3>4. QED
        BY <3>1, <3>2, <3>3
    <2>2. call = Loop!None /\ current = 0
      BY <1>s, <2>1 DEF LoopIsOne
    <2>3. every \in Nat
      BY <1>1 DEF Loop!LoopingCallAssumption
    <2>4. /\ looping' = TRUE /\ current' = i /\ answer' = [answer EXCEPT ![i] = "waiting"]
          /\ starttime' = loopNow /\ interval' = every /\ runAtStart' = atOnce
          /\ fresh' = (i = 1) /\ UNCHANGED <<loopNow, outstanding>>
      BY <1>1 DEF Loop!Start
    <2>5. \A j \in Loop!Starts : answer'[j] = IF j = i THEN "waiting" ELSE answer[j]
      BY <1>1, <1>s, <2>4 DEF LoopTypes
    <2>6. \A j \in Loop!Starts : answer[j] # "waiting"
      BY <1>s, <2>2 DEF LoopIsOne, Loop!NoDeferredIsForgotten, Loop!Starts
    <2>7. 1 \in Loop!Starts => answer'[1] # "unborn"
      <3>1. 1 \in 1..i - 1 \/ i = 1
        BY <2>1
      <3>2. QED
        BY <1>1, <2>5, <3>1 DEF Loop!Start
    <2>8. fresh' => lastTime = Loop!None /\ counted = 0
      BY <1>1, <1>s, <2>1, <2>4 DEF LoopCounts
    <2>9. answer' \in [Loop!Starts -> {"unborn", "waiting", "stopped", "failed"}]
      BY <1>1, <1>s, <2>4 DEF LoopTypes
    <2>10. ASSUME call' \in Nat \cup {Loop!None}, orphans' = orphans,
                  inside' \in {"no", "function", "skipped"}, lastTime' \in Nat \cup {Loop!None}, counted' \in Int
           PROVE  LoopTypes'
      <3>1. fresh' \in BOOLEAN /\ i \in Loop!Starts \cup {0} /\ loopNow' \in Nat /\ starttime' \in Nat
        BY <1>1, <1>s, <2>4 DEF LoopTypes
      <3>2. QED
        BY <1>1, <1>s, <2>3, <2>4, <2>9, <2>10, <3>1 DEF LoopTypes
    <2>11. CASE atOnce
      <3>1. call' = Loop!None /\ orphans' = orphans /\ Loop!Counter(loopNow, every, atOnce)
        BY <1>1, <1>s, <2>2, <2>11, LoopForgotten DEF Loop!Start
      <3>2. CASE i = 1
        <4>1. lastTime = Loop!None /\ counted = 0
          BY <2>4, <2>8, <3>2
        <4>2. /\ inside' \in {"function", "skipped"} /\ lastTime' \in Nat \cup {Loop!None} /\ counted' \in Int
              /\ every > 0 =>
                    IF lastTime' = Loop!None THEN counted' = 0 /\ ~atOnce
                    ELSE counted' = Loop!IntervalOf(lastTime', loopNow, every) + Loop!Toggle(atOnce)
          BY <1>s, <2>3, <3>1, <4>1, LoopCounted DEF LoopTypes
        <4>3. LoopTypes'
          BY <2>10, <3>1, <4>2
        <4>4. LoopIsOne'
          BY <2>1, <2>4, <2>5, <2>6, <3>1, <4>2 DEF LoopIsOne, Loop!NoDeferredIsForgotten
        <4>5. LoopCounts'
          BY <2>4, <2>7, <4>2 DEF LoopCounts
        <4>6. QED
          BY <4>3, <4>4, <4>5
      <3>3. CASE i # 1
        <4>1. inside' \in {"function", "skipped"} /\ lastTime' \in Nat \cup {Loop!None} /\ counted' \in Int
          BY <1>s, <2>3, <3>1, LoopCounterTypes DEF LoopTypes
        <4>2. LoopTypes'
          BY <2>10, <3>1, <4>1
        <4>3. LoopIsOne'
          BY <2>1, <2>4, <2>5, <2>6, <3>1, <4>1 DEF LoopIsOne, Loop!NoDeferredIsForgotten
        <4>4. LoopCounts'
          BY <2>4, <2>7, <3>3 DEF LoopCounts
        <4>5. QED
          BY <4>2, <4>3, <4>4
      <3>4. QED
        BY <3>2, <3>3
    <2>12. CASE ~atOnce
      <3>1. /\ call' = loopNow + Loop!HowLong(loopNow, loopNow, every) /\ orphans' = orphans
            /\ UNCHANGED <<inside, lastTime, counted>>
        BY <1>1, <1>s, <2>2, <2>12, LoopForgotten DEF Loop!Start, Loop!ScheduleFrom
      <3>2. call' \in Nat
        BY <1>s, <2>3, <3>1, LoopHowLong DEF LoopTypes
      <3>3. LoopTypes'
        <4>1. lastTime' \in Nat \cup {Loop!None} /\ counted' \in Int /\ inside' \in {"no", "function", "skipped"}
          BY <1>s, <3>1 DEF LoopTypes
        <4>2. QED
          BY <2>10, <3>1, <3>2, <4>1
      <3>4. call' # Loop!None
        BY <1>n, <3>2
      <3>5. LoopIsOne'
        BY <2>1, <2>4, <2>5, <2>6, <3>1, <3>4 DEF LoopIsOne, Loop!NoDeferredIsForgotten
      <3>6. LoopCounts'
        BY <2>4, <2>7, <2>8, <2>12, <3>1 DEF LoopCounts
      <3>7. QED
        BY <3>3, <3>5, <3>6
    <2>13. QED
      BY <2>11, <2>12
  <1>2. CASE Loop!Stop
    <2>1. /\ looping' = FALSE
          /\ UNCHANGED <<loopNow, orphans, inside, outstanding, starttime, interval, runAtStart,
                         lastTime, counted, fresh>>
      BY <1>2 DEF Loop!Stop
    <2>2. CASE call # Loop!None
      <3>1. call' = Loop!None /\ Loop!Answer("stopped") /\ current # 0 /\ inside = "no" /\ outstanding = 0
        BY <1>2, <1>s, <2>2 DEF Loop!Stop, Loop!StopCancels, LoopIsOne
      <3>2. /\ current' = 0 /\ answer' \in [Loop!Starts -> {"unborn", "waiting", "stopped", "failed"}]
            /\ \A i \in Loop!Starts : answer'[i] # "waiting"
            /\ 1 \in Loop!Starts /\ answer'[1] = "unborn" => answer[1] = "unborn"
        BY <1>s, <3>1, LoopAnswer
      <3>3. LoopTypes'
        BY <1>s, <2>1, <3>1, <3>2 DEF LoopTypes
      <3>4. LoopIsOne'
        BY <2>1, <3>1, <3>2 DEF LoopIsOne, Loop!NoDeferredIsForgotten
      <3>5. LoopCounts'
        BY <1>s, <2>1, <3>1, <3>2 DEF LoopCounts
      <3>6. QED
        BY <3>3, <3>4, <3>5
    <2>3. CASE call = Loop!None
      <3>1. UNCHANGED <<call, current, answer>>
        BY <1>2, <2>3 DEF Loop!Stop, Loop!StopCancels
      <3>2. LoopTypes'
        BY <1>s, <2>1, <3>1 DEF LoopTypes
      <3>3. LoopIsOne'
        BY <1>s, <2>1, <2>3, <3>1 DEF LoopIsOne, Loop!NoDeferredIsForgotten
      <3>4. LoopCounts'
        BY <1>s, <2>1, <3>1 DEF LoopCounts
      <3>5. QED
        BY <3>2, <3>3, <3>4
    <2>4. QED
      BY <2>2, <2>3
  <1>3. CASE Loop!Reset
    <2>1. /\ looping /\ call # Loop!None /\ starttime' = loopNow /\ fresh' = FALSE
          /\ call' = loopNow + Loop!HowLong(loopNow, loopNow, interval)
          /\ UNCHANGED <<loopNow, looping, orphans, inside, outstanding, current, answer, interval,
                         runAtStart, lastTime, counted>>
      BY <1>3 DEF Loop!Reset
    <2>2. call' \in Nat
      BY <1>s, <2>1, LoopHowLong DEF LoopTypes
    <2>3. call' # Loop!None
      BY <1>n, <2>2
    <2>4. LoopTypes'
      BY <1>s, <2>1, <2>2 DEF LoopTypes
    <2>5. LoopIsOne'
      BY <1>s, <2>1, <2>3 DEF LoopIsOne, Loop!NoDeferredIsForgotten
    <2>6. LoopCounts'
      BY <1>s, <2>1 DEF LoopCounts
    <2>7. QED
      BY <2>4, <2>5, <2>6
  <1>4. CASE Loop!Due
    <2>1. /\ call # Loop!None /\ call' = Loop!None /\ Loop!Counter(starttime, interval, runAtStart)
          /\ UNCHANGED <<loopNow, looping, outstanding, current, answer, starttime, interval,
                         runAtStart, fresh, orphans>>
      BY <1>4 DEF Loop!Due, Loop!Called
    <2>2. current # 0 /\ inside = "no" /\ outstanding = 0
      BY <1>s, <2>1 DEF LoopIsOne
    <2>3. inside' \in {"function", "skipped"} /\ lastTime' \in Nat \cup {Loop!None} /\ counted' \in Int
      BY <1>s, <2>1, LoopCounterTypes DEF LoopTypes
    <2>4. LoopTypes'
      BY <1>s, <2>1, <2>3 DEF LoopTypes
    <2>5. LoopIsOne'
      BY <1>s, <2>1, <2>2, <2>3 DEF LoopIsOne, Loop!NoDeferredIsForgotten
    <2>6. LoopCounts'
      <3>1. 1 \in Loop!Starts => answer'[1] # "unborn"
        BY <1>s, <2>1, <2>2 DEF LoopCounts
      <3>2. ASSUME fresh, interval > 0
            PROVE  IF lastTime' = Loop!None THEN counted' = 0 /\ ~runAtStart
                   ELSE counted' = Loop!IntervalOf(lastTime', starttime, interval) + Loop!Toggle(runAtStart)
        <4>1. IF lastTime = Loop!None
              THEN counted = 0 /\ (runAtStart => starttime = loopNow)
              ELSE counted = Loop!IntervalOf(lastTime, starttime, interval) + Loop!Toggle(runAtStart)
          BY <1>s, <3>2 DEF LoopCounts
        <4>2. QED
          BY <1>s, <2>1, <3>2, <4>1, LoopCounted DEF LoopTypes
      <3>3. QED
        BY <2>1, <3>1, <3>2 DEF LoopCounts
    <2>7. QED
      BY <2>4, <2>5, <2>6
  <1>5. CASE Loop!OrphanDue
    <2>1. PICK t \in Loop!Times : orphans[t] > 0
      BY <1>5 DEF Loop!OrphanDue
    <2>2. orphans[t] = 0
      BY <1>s, <2>1 DEF LoopTypes
    <2>3. QED
      BY <2>1, <2>2
  <1>6. CASE Loop!Returns
    BY <1>6, <1>s, LoopEnded DEF Loop!Returns, LoopIsOne
  <1>7. CASE Loop!Raises
    BY <1>7, <1>s, LoopEnded DEF Loop!Raises, LoopIsOne
  <1>8. CASE Loop!ReturnsDeferred
    <2>1. /\ inside = "function" /\ inside' = "no" /\ outstanding' = outstanding + 1
          /\ UNCHANGED <<looping, call, orphans, current, answer>>
          /\ UNCHANGED <<loopNow, starttime, interval, runAtStart, lastTime, counted, fresh>>
      BY <1>8 DEF Loop!ReturnsDeferred, Loop!loopTimes
    <2>2. current # 0 /\ call = Loop!None /\ outstanding' = 1
      BY <1>s, <2>1 DEF LoopIsOne
    <2>3. LoopTypes'
      BY <1>s, <2>1, <2>2 DEF LoopTypes
    <2>4. LoopIsOne'
      BY <1>s, <2>1, <2>2 DEF LoopIsOne, Loop!NoDeferredIsForgotten
    <2>5. LoopCounts'
      BY <1>s, <2>1 DEF LoopCounts
    <2>6. QED
      BY <2>3, <2>4, <2>5
  <1>9. ASSUME NEW ok \in BOOLEAN, Loop!DeferredFires(ok)
        PROVE  Goal
    <2>1. /\ inside = "no" /\ outstanding > 0 /\ outstanding' = outstanding - 1 /\ (Loop!Cb \/ Loop!Eb)
          /\ inside' = "no" /\ UNCHANGED Loop!loopTimes
      BY <1>9 DEF Loop!DeferredFires
    <2>2. outstanding' = 0
      BY <1>s, <2>1 DEF LoopIsOne
    <2>3. QED
      BY <1>s, <2>1, <2>2, LoopEnded
  <1>10. CASE Loop!TimePasses
    <2>1. /\ loopNow' = loopNow + 1
          /\ UNCHANGED <<looping, call, orphans, inside, outstanding, current, answer, starttime,
                         interval, runAtStart, lastTime, counted, fresh>>
      BY <1>10 DEF Loop!TimePasses
    <2>2. LoopTypes'
      BY <1>s, <2>1 DEF LoopTypes
    <2>3. LoopIsOne' /\ LoopCounts'
      BY <1>s, <2>1 DEF LoopIsOne, LoopCounts, Loop!NoDeferredIsForgotten
    <2>4. QED
      BY <2>2, <2>3
  <1>11. CASE UNCHANGED Loop!loopVars
    BY <1>11, <1>s DEF Loop!loopVars, LoopTypes, LoopIsOne, LoopCounts, Loop!NoDeferredIsForgotten
  <1>12. QED
    BY <1>1, <1>2, <1>3, <1>4, <1>5, <1>6, <1>7, <1>8, <1>9, <1>10, <1>11 DEF Loop!Next

(***************************************************************************)
(* For any intervals and however stop, reset and the end of the function   *)
(* interleave: until start() is called over a function that has not ended, *)
(* a LoopingCall that goes on is carried on by one thing, loses track of   *)
(* no delayed call and no Deferred, and counts every interval once.        *)
(***************************************************************************)
THEOREM LoopIsAlwaysCarriedOn ==
    ASSUME Loop!LoopingCallAssumption
    PROVE  Loop!Spec => []LoopIsCarriedOn
<1>1. Loop!Spec => []LoopInvariant
  BY LoopInit, LoopStep, PTL DEF Loop!Spec
<1>2. LoopInvariant => LoopIsCarriedOn
  <2> SUFFICES ASSUME LoopInvariant, ~overlapped PROVE Loop!LoopIsCarriedOn
    BY DEF LoopIsCarriedOn, Loop!LoopIsCarriedOn
  <2>1. LoopTypes /\ LoopIsOne /\ LoopCounts
    BY DEF LoopInvariant
  <2>2. Loop!Toggle(call # Loop!None) + Loop!Toggle(inside # "no") + outstanding = Loop!Toggle(current # 0)
    BY <2>1 DEF LoopIsOne, Loop!Toggle
  <2>3. \A t \in Loop!Times : orphans[t] = 0
    BY <2>1 DEF LoopTypes
  <2>4. (fresh /\ interval > 0 /\ lastTime # Loop!None) =>
            counted = Loop!IntervalOf(lastTime, starttime, interval) + Loop!Toggle(runAtStart)
    BY <2>1 DEF LoopCounts
  <2> QED BY <2>1, <2>2, <2>3, <2>4 DEF LoopIsOne, Loop!LoopIsCarriedOn
<1> QED BY <1>1, <1>2, PTL

-------------------------------------------------------------------------------
(***************************************************************************)
(* The reactor's lifecycle.  Each event has at most one firing under way,  *)
(* on the stack or suspended: `shutdown' because stop() works only once,   *)
(* `startup' as long as the application does not crash the reactor.        *)
(***************************************************************************)
LifeFrames == [event : Life!Events, phase : Life!Phases,
               calling : Triggers \cup {Disconnect, NONE}, results : SUBSET Triggers]

LifeLists == Seq(Triggers \cup Life!Builtin)

LifeTables == [Life!Events -> [Life!Phases -> LifeLists]]

LifeTypes ==
    /\ stopped \in BOOLEAN /\ justStopped \in BOOLEAN /\ started \in BOOLEAN
    /\ startedBefore \in BOOLEAN /\ running \in BOOLEAN
    /\ triggers \in LifeTables
    /\ stack \in Seq(LifeFrames)
    /\ waits \subseteq [event : Life!Events, on : SUBSET Triggers]
    /\ owed \subseteq Life!Events \X Triggers
    /\ added \subseteq Triggers /\ whenRunning \subseteq added /\ due \subseteq added
    /\ crashes \in Nat

LifePlaces ==
    \A e \in Life!Events, p \in Life!Phases :
        /\ ReallyStart \in Life!Elements(triggers[e][p]) => e = "startup" /\ p = "during"
        /\ CrashReactor \in Life!Elements(triggers[e][p]) => e = "shutdown" /\ p = "during"

NoFiring(e) == Life!InProgress(e) = {} /\ Life!Suspended(e) = {}

OneFiring(e) ==
    /\ \A i, j \in Life!InProgress(e) : i = j
    /\ \A v, w \in Life!Suspended(e) : v = w
    /\ Life!InProgress(e) = {} \/ Life!Suspended(e) = {}

LifeOnce ==
    /\ startedBefore => stopped
    /\ justStopped => startedBefore
    /\ ~startedBefore \/ justStopped => NoFiring("shutdown")
    /\ OneFiring("shutdown")
    /\ crashes = 0 => OneFiring("startup")
    /\ crashes = 0 /\ ~started /\ ~startedBefore =>
          runPc = "out" /\ stopped /\ stack = <<>> /\ waits = {}

\* The Deferreds that have yet to fire are those that the firing waits for.
LifeOwed ==
    crashes = 0 =>
        \A e \in Life!Events : \A t \in Life!Owed(e) :
            \/ \E i \in Life!InProgress(e) : stack[i].phase = "before" /\ t \in stack[i].results
            \/ \E w \in Life!Suspended(e) : t \in w.on

\* The phases of `shutdown' that have yet to end.
ToCome(p) ==
    \/ ~startedBefore \/ justStopped
    \/ p # "before" /\ Life!Suspended("shutdown") # {}
    \/ \E i \in Life!InProgress("shutdown") :
          \/ stack[i].phase = "before"
          \/ stack[i].phase = "during" /\ p # "before"
          \/ stack[i].phase = "after" /\ p = "after"

LifeDue ==
    \A t \in due : \E p \in Life!Phases : t \in Life!Elements(triggers["shutdown"][p]) /\ ToCome(p)

\* Only the trigger of `during shutdown' ends the main loop.
LifeEnd ==
    crashes = 0 /\ startedBefore /\ ~started =>
        /\ ~justStopped /\ Life!Suspended("shutdown") = {}
        /\ \A i \in Life!InProgress("shutdown") : stack[i].phase # "before"

\* What callWhenRunning put in the list is called by a startup that is past
\* its `before' phase.
LifeCalled ==
    running => \/ whenRunning \cap Life!Elements(triggers["startup"]["after"]) = {}
               \/ \E i \in Life!InProgress("startup") : stack[i].phase # "before"

LifeInvariant ==
    LifeTypes /\ LifePlaces /\ LifeOnce /\ LifeOwed /\ LifeDue /\ LifeEnd /\ LifeCalled

LEMMA LifeCardinality == ASSUME NEW S PROVE Life!Cardinality(S) = Cardinality(S)
  BY DEF Life!Cardinality, Cardinality

LEMMA LifeBuiltins ==
    ASSUME Life!ReactorLifecycleAssumption
    PROVE  /\ ReallyStart # CrashReactor /\ ReallyStart # Disconnect
           /\ ReallyStart \notin Triggers /\ CrashReactor \notin Triggers /\ Disconnect \notin Triggers
  <1>1. ReallyStart \notin Triggers /\ CrashReactor \notin Triggers /\ Disconnect \notin Triggers
    BY DEF Life!ReactorLifecycleAssumption, Life!Builtin
  <1>2. ASSUME NEW x, Life!Builtin = {x} \cup {ReallyStart} PROVE FALSE
    <2>1. IsFiniteSet({x}) /\ Cardinality({x}) = 1
      BY FS_Singleton
    <2>2. Cardinality({x} \cup {ReallyStart}) \in {1, 2}
      BY <2>1, FS_AddElement
    <2>3. QED
      BY <1>2, <2>2, LifeCardinality DEF Life!ReactorLifecycleAssumption
  <1>3. ReallyStart = CrashReactor => Life!Builtin = {Disconnect} \cup {ReallyStart}
    BY DEF Life!Builtin
  <1>4. ReallyStart = Disconnect => Life!Builtin = {CrashReactor} \cup {ReallyStart}
    BY DEF Life!Builtin
  <1>5. QED
    BY <1>1, <1>2, <1>3, <1>4

\* What append(), pop(0) and remove() make of a list of triggers.
LEMMA LifeAppend ==
    ASSUME NEW A, NEW s \in Seq(A), NEW x \in A
    PROVE  Append(s, x) \in Seq(A) /\ Life!Elements(Append(s, x)) = Life!Elements(s) \cup {x}
  <1>1. /\ Append(s, x) \in Seq(A) /\ DOMAIN Append(s, x) = 1..Len(s) + 1 /\ DOMAIN s = 1..Len(s)
        /\ Len(s) \in Nat /\ Append(s, x)[Len(s) + 1] = x
        /\ \A i \in 1..Len(s) : Append(s, x)[i] = s[i]
    BY AppendProperties
  <1>2. 1..Len(s) + 1 = (1..Len(s)) \cup {Len(s) + 1}
    BY <1>1
  <1>3. QED
    BY <1>1, <1>2 DEF Life!Elements

LEMMA LifeTail ==
    ASSUME NEW A, NEW s \in Seq(A), s # <<>>
    PROVE  /\ Tail(s) \in Seq(A) /\ Life!Elements(Tail(s)) \subseteq Life!Elements(s)
           /\ Head(s) \in Life!Elements(s)
           /\ \A x \in Life!Elements(s) : x # Head(s) => x \in Life!Elements(Tail(s))
  <1>1. /\ Tail(s) \in Seq(A) /\ Len(s) \in Nat /\ Len(s) >= 1 /\ DOMAIN s = 1..Len(s)
        /\ DOMAIN Tail(s) = 1..Len(s) - 1 /\ Head(s) = s[1]
        /\ \A i \in 1..Len(s) - 1 : Tail(s)[i] = s[i + 1]
    BY HeadTailProperties, EmptySeq
  <1>2. ASSUME NEW x \in Life!Elements(s), x # Head(s) PROVE x \in Life!Elements(Tail(s))
    <2>1. PICK i \in 1..Len(s) : x = s[i]
      BY <1>1 DEF Life!Elements
    <2>2. i - 1 \in 1..Len(s) - 1 /\ (i - 1) + 1 = i
      BY <1>1, <1>2, <2>1
    <2>3. Tail(s)[i - 1] = x
      BY <1>1, <2>1, <2>2
    <2>4. QED
      BY <1>1, <2>2, <2>3 DEF Life!Elements
  <1>3. Life!Elements(Tail(s)) \subseteq Life!Elements(s)
    <2>1. SUFFICES ASSUME NEW i \in 1..Len(s) - 1
                   PROVE  Tail(s)[i] \in Life!Elements(s)
      BY <1>1 DEF Life!Elements
    <2>2. i + 1 \in 1..Len(s)
      BY <1>1
    <2>3. QED
      BY <1>1, <2>2 DEF Life!Elements
  <1>4. Head(s) \in Life!Elements(s)
    <2>1. 1 \in 1..Len(s)
      BY <1>1
    <2>2. QED
      BY <1>1, <2>1 DEF Life!Elements
  <1>5. QED
    BY <1>1, <1>2, <1>3, <1>4

LEMMA LifeRemove ==
    ASSUME NEW A, NEW s \in Seq(A), NEW k \in DOMAIN s
    PROVE  /\ Life!RemoveAt(s, k) \in Seq(A) /\ Life!Elements(Life!RemoveAt(s, k)) \subseteq Life!Elements(s)
           /\ \A x \in Life!Elements(s) : x # s[k] => x \in Life!Elements(Life!RemoveAt(s, k))
  <1> DEFINE a == SubSeq(s, 1, k - 1)
             b == SubSeq(s, k + 1, Len(s))
  <1>0. k \in Nat /\ Len(s) \in Nat /\ 1 <= k /\ k <= Len(s) /\ DOMAIN s = 1..Len(s)
    OBVIOUS
  <1>1. a \in Seq(A) /\ Len(a) = k - 1 /\ \A i \in 1..k - 1 : a[i] = s[i]
    BY <1>0
  <1>2. b \in Seq(A) /\ Len(b) = Len(s) - k
    BY <1>0
  <1>3. \A i \in 1..Len(s) - k : b[i] = s[k + i]
    BY <1>0
  <1> HIDE DEF a, b
  <1>4. Life!RemoveAt(s, k) = a \o b
    BY DEF Life!RemoveAt, a, b
  <1>5. /\ a \o b \in Seq(A) /\ DOMAIN (a \o b) = 1..Len(s) - 1
        /\ \A i \in 1..Len(a) + Len(b) : (a \o b)[i] = IF i <= Len(a) THEN a[i] ELSE b[i - Len(a)]
    <2>1. a \o b \in Seq(A) /\ Len(a \o b) = Len(a) + Len(b)
      BY ONLY <1>1, <1>2
    <2>2. \A i \in 1..Len(a) + Len(b) : (a \o b)[i] = IF i <= Len(a) THEN a[i] ELSE b[i - Len(a)]
      BY ONLY <1>1, <1>2
    <2>3. DOMAIN (a \o b) = 1..Len(a \o b)
      BY ONLY <2>1
    <2>4. Len(a) + Len(b) = Len(s) - 1
      BY ONLY <1>0, <1>1, <1>2
    <2>5. QED
      BY ONLY <2>1, <2>2, <2>3, <2>4
  <1>6. ASSUME NEW i \in 1..Len(s) - 1 PROVE (a \o b)[i] \in Life!Elements(s)
    <2>1. CASE i <= Len(a)
      <3>1. i \in 1..k - 1 /\ i \in DOMAIN s /\ i \in 1..Len(a) + Len(b)
        BY <1>0, <1>1, <1>2, <2>1
      <3>2. QED
        BY <1>1, <1>5, <2>1, <3>1 DEF Life!Elements
    <2>2. CASE ~(i <= Len(a))
      <3>1. /\ i - Len(a) \in 1..Len(s) - k /\ k + (i - Len(a)) \in DOMAIN s
            /\ i \in 1..Len(a) + Len(b)
        BY <1>0, <1>1, <1>2, <2>2
      <3>2. QED
        BY <1>3, <1>5, <2>2, <3>1 DEF Life!Elements
    <2>3. QED
      BY <2>1, <2>2
  <1>7. ASSUME NEW j \in DOMAIN s, j # k PROVE s[j] \in Life!Elements(a \o b)
    <2>1. CASE j < k
      <3>1. j \in 1..k - 1 /\ j \in 1..Len(a) + Len(b) /\ j \in 1..Len(s) - 1 /\ j <= Len(a)
        BY ONLY <1>0, <1>1, <1>2, <1>7, <2>1
      <3>2. QED
        BY <1>1, <1>5, <3>1 DEF Life!Elements
    <2>2. CASE j > k
      <3>0. /\ j \in Nat /\ j <= Len(s) /\ k \in Nat /\ 1 <= k /\ k < j /\ Len(s) \in Nat
            /\ Len(a) = k - 1 /\ Len(b) = Len(s) - k
        BY <1>0, <1>1, <1>2, <2>2
      <3>1. /\ j - 1 \in 1..Len(a) + Len(b) /\ j - 1 \in 1..Len(s) - 1 /\ ~(j - 1 <= Len(a))
            /\ (j - 1) - Len(a) = j - k /\ j - k \in 1..Len(s) - k /\ k + (j - k) = j
        <4>1. PICK l \in Nat : l = Len(s)
          BY <3>0
        <4>2. j - 1 \in 1..l - 1 /\ ~(j - 1 <= k - 1) /\ j - k \in 1..l - k /\ k + (j - k) = j
          BY ONLY <3>0, <4>1
        <4>3. (k - 1) + (l - k) = l - 1 /\ (j - 1) - (k - 1) = j - k
          BY ONLY <3>0, <4>1
        <4>4. QED
          BY ONLY <3>0, <4>1, <4>2, <4>3
      <3>2. (a \o b)[j - 1] = s[j]
        BY <1>3, <1>5, <3>1
      <3>3. QED
        BY <1>5, <3>1, <3>2 DEF Life!Elements
    <2>3. QED
      BY <1>0, <1>7, <2>1, <2>2
  <1>8. PICK c : c = a \o b
    OBVIOUS
  <1>9. c \in Seq(A) /\ Life!RemoveAt(s, k) = c
    BY <1>4, <1>5, <1>8
  <1>10. Life!Elements(c) \subseteq Life!Elements(s)
    <2>1. \A i \in DOMAIN c : c[i] \in Life!Elements(s)
      BY <1>5, <1>6, <1>8
    <2>2. QED
      BY ONLY <2>1 DEF Life!Elements
  <1>11. \A x \in Life!Elements(s) : x # s[k] => x \in Life!Elements(c)
    <2>1. \A j \in DOMAIN s : j # k => s[j] \in Life!Elements(c)
      BY <1>7, <1>8
    <2>2. \A x \in Life!Elements(s) : \E j \in DOMAIN s : x = s[j]
      BY DEF Life!Elements
    <2>3. QED
      BY ONLY <2>1, <2>2
  <1>12. QED
    BY ONLY <1>9, <1>10, <1>11, Zenon

\* The call stack, when a frame is called, left or changed.
LEMMA LifeTop ==
    ASSUME stack \in Seq(LifeFrames), stack # <<>>
    PROVE  /\ Len(stack) \in Nat /\ Len(stack) >= 1 /\ DOMAIN stack = 1..Len(stack)
           /\ Len(stack) \in DOMAIN stack /\ Life!Top = stack[Len(stack)] /\ Life!Top \in LifeFrames
           /\ Life!Below \in Seq(LifeFrames) /\ Len(Life!Below) = Len(stack) - 1
           /\ DOMAIN Life!Below = 1..Len(stack) - 1
           /\ \A i \in 1..Len(stack) - 1 : Life!Below[i] = stack[i]
  <1>1. Len(stack) \in Nat /\ Len(stack) >= 1 /\ DOMAIN stack = 1..Len(stack)
    BY EmptySeq
  <1>2. Len(stack) \in DOMAIN stack
    BY <1>1
  <1>3. /\ Life!Below \in Seq(LifeFrames) /\ Len(Life!Below) = Len(stack) - 1
        /\ \A i \in 1..Len(stack) - 1 : Life!Below[i] = stack[i]
    BY <1>1 DEF Life!Below
  <1>4. DOMAIN Life!Below = 1..Len(stack) - 1
    BY <1>1, <1>3
  <1>5. QED
    BY <1>1, <1>2, <1>3, <1>4 DEF Life!Top

LEMMA LifePush ==
    ASSUME stack \in Seq(LifeFrames), NEW f \in LifeFrames, stack' = Append(stack, f)
    PROVE  /\ stack' \in Seq(LifeFrames) /\ DOMAIN stack' = DOMAIN stack \cup {Len(stack) + 1}
           /\ Len(stack) + 1 \notin DOMAIN stack
           /\ stack'[Len(stack) + 1] = f /\ \A i \in DOMAIN stack : stack'[i] = stack[i]
  <1>1. /\ stack' \in Seq(LifeFrames) /\ Len(stack') = Len(stack) + 1 /\ stack'[Len(stack) + 1] = f
        /\ \A i \in 1..Len(stack) : stack'[i] = stack[i]
    BY AppendProperties
  <1>2. Len(stack) \in Nat /\ DOMAIN stack = 1..Len(stack) /\ DOMAIN stack' = 1..Len(stack) + 1
    BY <1>1
  <1>3. Len(stack) + 1 \notin 1..Len(stack) /\ 1..Len(stack) + 1 = (1..Len(stack)) \cup {Len(stack) + 1}
    BY <1>2
  <1>4. QED
    BY <1>1, <1>2, <1>3

LEMMA LifeAppended ==
    ASSUME NEW A, NEW s \in Seq(A), NEW x \in A
    PROVE  /\ Append(s, x) \in Seq(A) /\ Len(Append(s, x)) = Len(s) + 1 /\ Append(s, x)[Len(s) + 1] = x
           /\ \A i \in 1..Len(s) : Append(s, x)[i] = s[i]
  BY AppendProperties

LEMMA LifeSetTop ==
    ASSUME stack \in Seq(LifeFrames), stack # <<>>, NEW f \in LifeFrames, stack' = Append(Life!Below, f)
    PROVE  /\ stack' \in Seq(LifeFrames) /\ DOMAIN stack' = DOMAIN stack
           /\ stack'[Len(stack)] = f /\ \A i \in DOMAIN stack : i # Len(stack) => stack'[i] = stack[i]
  <1>0. PICK b : b = Life!Below
    OBVIOUS
  <1>1. /\ Len(stack) \in Nat /\ Len(stack) >= 1 /\ DOMAIN stack = 1..Len(stack)
        /\ b \in Seq(LifeFrames) /\ Len(b) = Len(stack) - 1
        /\ \A i \in 1..Len(stack) - 1 : b[i] = stack[i]
    BY <1>0, LifeTop
  <1>2. /\ Append(b, f) \in Seq(LifeFrames) /\ Len(Append(b, f)) = Len(b) + 1 /\ Append(b, f)[Len(b) + 1] = f
        /\ \A i \in 1..Len(b) : Append(b, f)[i] = b[i]
    <2>1. b \in Seq(LifeFrames) /\ f \in LifeFrames
      BY <1>1
    <2>2. QED
      BY ONLY <2>1, LifeAppended
  <1>3. PICK n \in Nat : n = Len(stack)
    BY <1>1
  <1>l. Len(b) = n - 1 /\ Len(b) + 1 = n
    BY <1>1, <1>3
  <1>4. DOMAIN Append(b, f) = 1..Len(stack)
    BY <1>2, <1>3, <1>l
  <1>5. \A i \in 1..n : i # n => i \in 1..n - 1
    BY <1>3
  <1>6. stack' = Append(b, f)
    BY <1>0
  <1>7. QED
    BY <1>1, <1>2, <1>3, <1>l, <1>4, <1>5, <1>6

LEMMA LifePop ==
    ASSUME stack \in Seq(LifeFrames), stack # <<>>, stack' = Life!Below
    PROVE  /\ stack' \in Seq(LifeFrames) /\ DOMAIN stack' = DOMAIN stack \ {Len(stack)}
           /\ \A i \in DOMAIN stack' : stack'[i] = stack[i]
  <1>1. /\ Len(stack) \in Nat /\ Len(stack) >= 1 /\ DOMAIN stack = 1..Len(stack)
        /\ Life!Below \in Seq(LifeFrames) /\ DOMAIN Life!Below = 1..Len(stack) - 1
        /\ \A i \in 1..Len(stack) - 1 : Life!Below[i] = stack[i]
    BY LifeTop
  <1>2. 1..Len(stack) - 1 = (1..Len(stack)) \ {Len(stack)}
    BY <1>1
  <1>3. QED
    BY <1>1, <1>2

\* Steps that leave the event and the phase of every frame alone leave the
\* firings alone.
LEMMA LifeKept ==
    ASSUME DOMAIN stack' = DOMAIN stack, waits' = waits,
           \A i \in DOMAIN stack : /\ stack'[i].event = stack[i].event /\ stack'[i].phase = stack[i].phase
                                   /\ stack[i].results \subseteq stack'[i].results
    PROVE  /\ \A e : Life!InProgress(e)' = Life!InProgress(e) /\ Life!Suspended(e)' = Life!Suspended(e)
           /\ \A e : (NoFiring(e) => NoFiring(e)') /\ (OneFiring(e) => OneFiring(e)')
           /\ LifeOwed /\ owed' \subseteq owed /\ (crashes' = 0 => crashes = 0) => LifeOwed'
           /\ startedBefore' = startedBefore /\ justStopped' = justStopped => \A p : ToCome(p) => ToCome(p)'
  <1>1. \A e : Life!InProgress(e)' = Life!InProgress(e) /\ Life!Suspended(e)' = Life!Suspended(e)
    BY DEF Life!InProgress, Life!Suspended
  <1>2. \A e : (NoFiring(e) => NoFiring(e)') /\ (OneFiring(e) => OneFiring(e)')
    BY <1>1, Zenon DEF NoFiring, OneFiring
  <1>3. \A e : \A i \in Life!InProgress(e) :
           /\ stack'[i].phase = stack[i].phase /\ stack[i].results \subseteq stack'[i].results
    BY DEF Life!InProgress
  <1>4. ASSUME LifeOwed, owed' \subseteq owed, crashes' = 0 => crashes = 0
        PROVE  LifeOwed'
    <2>1. SUFFICES ASSUME crashes = 0, NEW e \in Life!Events, NEW t \in Life!Owed(e)'
                   PROVE  \/ \E i \in Life!InProgress(e)' : stack'[i].phase = "before" /\ t \in stack'[i].results
                          \/ \E w \in Life!Suspended(e)' : t \in w.on
      BY <1>4 DEF LifeOwed
    <2>2. t \in Life!Owed(e)
      BY <1>4, <2>1 DEF Life!Owed
    <2>3. \/ \E i \in Life!InProgress(e) : stack[i].phase = "before" /\ t \in stack[i].results
          \/ \E w \in Life!Suspended(e) : t \in w.on
      BY <1>4, <2>1, <2>2 DEF LifeOwed
    <2>4. QED
      BY <1>1, <1>3, <2>3
  <1>5. ASSUME startedBefore' = startedBefore, justStopped' = justStopped, NEW p, ToCome(p)
        PROVE  ToCome(p)'
    BY <1>1, <1>3, <1>5 DEF ToCome
  <1>6. QED
    BY <1>1, <1>2, <1>4, <1>5

\* What a step does to the lists of triggers.
LEMMA LifeAdded ==
    ASSUME NEW ts \in LifeTables,
           NEW e \in Life!Events, NEW p \in Life!Phases, NEW x \in Triggers \cup Life!Builtin,
           triggers' = Life!AddTrigger(ts, e, p, x)
    PROVE  /\ triggers' \in LifeTables
           /\ \A f \in Life!Events, q \in Life!Phases :
                 Life!Elements(triggers'[f][q]) =
                     IF f = e /\ q = p THEN Life!Elements(ts[f][q]) \cup {x} ELSE Life!Elements(ts[f][q])
  <1>1. PICK new : new = Append(ts[e][p], x)
    OBVIOUS
  <1>2. ts[e][p] \in Seq(Triggers \cup Life!Builtin)
    BY DEF LifeTables, LifeLists
  <1>3. new \in LifeLists /\ Life!Elements(new) = Life!Elements(ts[e][p]) \cup {x}
    BY <1>1, <1>2, LifeAppend DEF LifeLists
  <1>4. triggers' = [ts EXCEPT ![e][p] = new]
    BY <1>1 DEF Life!AddTrigger
  <1>5. /\ triggers' \in LifeTables
        /\ \A f \in Life!Events, q \in Life!Phases :
              triggers'[f][q] = IF f = e /\ q = p THEN new ELSE ts[f][q]
    BY <1>3, <1>4 DEF LifeTables
  <1>6. QED
    BY <1>3, <1>5

LEMMA LifeCrashed ==
    ASSUME NEW ts \in LifeTables, Life!Crash(ts)
    PROVE  /\ started' = FALSE /\ running' = FALSE /\ triggers' \in LifeTables
           /\ \A f \in Life!Events, q \in Life!Phases :
                 Life!Elements(triggers'[f][q]) =
                     IF f = "startup" /\ q = "during" THEN Life!Elements(ts[f][q]) \cup {ReallyStart}
                     ELSE Life!Elements(ts[f][q])
  <1>1. PICK e \in Life!Events, p \in Life!Phases : e = "startup" /\ p = "during"
    BY DEF Life!Events, Life!Phases
  <1>2. /\ started' = FALSE /\ running' = FALSE /\ ReallyStart \in Triggers \cup Life!Builtin
        /\ triggers' = Life!AddTrigger(ts, e, p, ReallyStart)
    BY <1>1 DEF Life!Crash, Life!LoopEnds, Life!NotRunning, Life!Builtin
  <1>3. /\ triggers' \in LifeTables
        /\ \A f \in Life!Events, q \in Life!Phases :
              Life!Elements(triggers'[f][q]) =
                  IF f = e /\ q = p THEN Life!Elements(ts[f][q]) \cup {ReallyStart}
                  ELSE Life!Elements(ts[f][q])
    BY <1>2, LifeAdded
  <1>4. QED
    BY <1>1, <1>2, <1>3

LEMMA LifePopped ==
    ASSUME LifeTypes, stack # <<>>, Life!Listed # <<>>
    PROVE  /\ Life!Popped \in LifeTables
           /\ Life!Top.event \in Life!Events /\ Life!Top.phase \in Life!Phases
           /\ Head(Life!Listed) \in Life!Elements(triggers[Life!Top.event][Life!Top.phase])
           /\ \A f \in Life!Events, q \in Life!Phases :
                 /\ Life!Elements(Life!Popped[f][q]) \subseteq Life!Elements(triggers[f][q])
                 /\ \A x \in Life!Elements(triggers[f][q]) :
                       x # Head(Life!Listed) => x \in Life!Elements(Life!Popped[f][q])
  <1>1. Life!Top \in LifeFrames
    BY LifeTop DEF LifeTypes
  <1>2. PICK e \in Life!Events, p \in Life!Phases : e = Life!Top.event /\ p = Life!Top.phase
    BY <1>1 DEF LifeFrames
  <1>3. PICK s : s = triggers[e][p]
    OBVIOUS
  <1>4. s = Life!Listed /\ s \in Seq(Triggers \cup Life!Builtin) /\ s # <<>>
    BY <1>2, <1>3 DEF Life!Listed, LifeTypes, LifeTables, LifeLists
  <1>5. /\ Tail(s) \in LifeLists /\ Life!Elements(Tail(s)) \subseteq Life!Elements(s)
        /\ Head(s) \in Life!Elements(s)
        /\ \A x \in Life!Elements(s) : x # Head(s) => x \in Life!Elements(Tail(s))
    BY <1>4, LifeTail DEF LifeLists
  <1>6. Life!Popped = [triggers EXCEPT ![e][p] = Tail(s)]
    BY <1>2, <1>3 DEF Life!Popped
  <1>7. /\ Life!Popped \in LifeTables
        /\ \A f \in Life!Events, q \in Life!Phases :
              Life!Popped[f][q] = IF f = e /\ q = p THEN Tail(s) ELSE triggers[f][q]
    BY <1>5, <1>6 DEF LifeTypes, LifeTables
  <1>8. QED
    BY <1>2, <1>3, <1>4, <1>5, <1>7

LEMMA LifeDropped ==
    ASSUME LifeTypes, NEW e \in Life!Events, NEW p \in Life!Phases, NEW t,
           Life!RemoveSystemEventTrigger(e, p, t)
    PROVE  /\ triggers' \in LifeTables
           /\ \A f \in Life!Events, q \in Life!Phases :
                 /\ Life!Elements(triggers'[f][q]) \subseteq Life!Elements(triggers[f][q])
                 /\ \A x \in Life!Elements(triggers[f][q]) : x # t => x \in Life!Elements(triggers'[f][q])
  <1>0. PICK i \in DOMAIN triggers[e][p] :
           triggers[e][p][i] = t /\ triggers' = [triggers EXCEPT ![e][p] = Life!RemoveAt(@, i)]
    BY DEF Life!RemoveSystemEventTrigger
  <1>1. PICK s : s = triggers[e][p]
    OBVIOUS
  <1>2. s \in Seq(Triggers \cup Life!Builtin)
    BY <1>1 DEF LifeTypes, LifeTables, LifeLists
  <1>3. PICK new : new = Life!RemoveAt(s, i)
    OBVIOUS
  <1>4. /\ new \in LifeLists /\ Life!Elements(new) \subseteq Life!Elements(s)
        /\ \A x \in Life!Elements(s) : x # t => x \in Life!Elements(new)
    BY <1>0, <1>1, <1>2, <1>3, LifeRemove DEF LifeLists
  <1>5. triggers' = [triggers EXCEPT ![e][p] = new]
    BY <1>0, <1>1, <1>3
  <1>6. /\ triggers' \in LifeTables
        /\ \A f \in Life!Events, q \in Life!Phases :
              triggers'[f][q] = IF f = e /\ q = p THEN new ELSE triggers[f][q]
    BY <1>4, <1>5 DEF LifeTypes, LifeTables
  <1>7. QED
    BY <1>1, <1>4, <1>6

\* The reactor's own triggers stay where they are.
LEMMA LifePlacesKept ==
    ASSUME Life!ReactorLifecycleAssumption, LifePlaces,
           \A e \in Life!Events, p \in Life!Phases : \A x \in Life!Elements(triggers'[e][p]) :
               \/ x \in Life!Elements(triggers[e][p]) \/ x \in Triggers
               \/ x = ReallyStart /\ e = "startup" /\ p = "during"
    PROVE  LifePlaces'
  BY LifeBuiltins DEF LifePlaces

\* Triggers that are due stay so while they are listed and their phase is to come.
LEMMA LifeDueKept ==
    ASSUME LifeDue, \A p : ToCome(p) => ToCome(p)',
           \A t \in due' : /\ t \in due
                           /\ \A p \in Life!Phases : t \in Life!Elements(triggers["shutdown"][p]) =>
                                                         t \in Life!Elements(triggers'["shutdown"][p])
    PROVE  LifeDue'
  BY DEF LifeDue

LEMMA LifeCalledKept ==
    ASSUME LifeCalled, running' => running,
           whenRunning' \cap Life!Elements(triggers'["startup"]["after"])
               \subseteq whenRunning \cap Life!Elements(triggers["startup"]["after"]),
           \A i \in Life!InProgress("startup") :
               stack[i].phase # "before" => i \in Life!InProgress("startup")' /\ stack'[i].phase # "before"
    PROVE  LifeCalled'
  BY DEF LifeCalled

LEMMA LifeStop ==
    ASSUME LifeInvariant, Life!Stop
    PROVE  LifeInvariant'
  <1>1. /\ ~stopped /\ stopped' = TRUE /\ justStopped' = TRUE /\ startedBefore' = TRUE
        /\ UNCHANGED <<started, running, triggers, stack, waits, owed, runPc, added, whenRunning, due, crashes>>
    BY DEF Life!Stop, Life!events, Life!history
  <1>2. ~startedBefore /\ (crashes = 0 => started)
    BY <1>1 DEF LifeInvariant, LifeOnce, LifeTypes
  <1>3. /\ \A e : Life!InProgress(e)' = Life!InProgress(e) /\ Life!Suspended(e)' = Life!Suspended(e)
        /\ \A e : (NoFiring(e) => NoFiring(e)') /\ (OneFiring(e) => OneFiring(e)')
        /\ LifeOwed'
    BY <1>1, LifeKept DEF LifeInvariant
  <1>4. LifeTypes' /\ LifePlaces' /\ LifeCalled'
    BY <1>1, <1>3 DEF LifeInvariant, LifeTypes, LifePlaces, LifeCalled
  <1>5. LifeOnce' /\ LifeEnd'
    BY <1>1, <1>2, <1>3 DEF LifeInvariant, LifeOnce, LifeEnd
  <1>6. LifeDue'
    BY <1>1 DEF LifeInvariant, LifeDue, ToCome
  <1>7. QED
    BY <1>3, <1>4, <1>5, <1>6 DEF LifeInvariant

LEMMA LifeCallCrash ==
    ASSUME Life!ReactorLifecycleAssumption, LifeInvariant, Life!CallCrash
    PROVE  LifeInvariant'
  <1>0. PICK ts \in LifeTables : ts = triggers
    BY DEF LifeInvariant, LifeTypes
  <1>1. /\ crashes' = crashes + 1 /\ Life!Crash(ts)
        /\ UNCHANGED <<stopped, justStopped, startedBefore, stack, waits, owed, runPc, added, whenRunning, due>>
    BY <1>0 DEF Life!CallCrash
  <1>2. crashes' \in Nat /\ crashes' # 0
    BY <1>1 DEF LifeInvariant, LifeTypes
  <1>3. /\ started' = FALSE /\ running' = FALSE /\ triggers' \in LifeTables
        /\ \A f \in Life!Events, q \in Life!Phases :
              Life!Elements(triggers'[f][q]) =
                  IF f = "startup" /\ q = "during" THEN Life!Elements(ts[f][q]) \cup {ReallyStart}
                  ELSE Life!Elements(ts[f][q])
    BY <1>1, LifeCrashed
  <1>4. /\ \A e : Life!InProgress(e)' = Life!InProgress(e) /\ Life!Suspended(e)' = Life!Suspended(e)
        /\ \A e : (NoFiring(e) => NoFiring(e)') /\ (OneFiring(e) => OneFiring(e)')
        /\ \A p : ToCome(p) => ToCome(p)'
    BY <1>1, LifeKept
  <1>5. LifeTypes'
    BY <1>1, <1>2, <1>3 DEF LifeInvariant, LifeTypes
  <1>6. LifePlaces'
    BY <1>0, <1>3, LifePlacesKept DEF LifeInvariant
  <1>7. LifeOnce' /\ LifeEnd' /\ LifeOwed' /\ LifeCalled'
    BY <1>1, <1>2, <1>3, <1>4 DEF LifeInvariant, LifeOnce, LifeEnd, LifeOwed, LifeCalled
  <1>8. LifeDue'
    <2>1. \A p \in Life!Phases : Life!Elements(triggers'["shutdown"][p]) = Life!Elements(triggers["shutdown"][p])
      BY <1>0, <1>3 DEF Life!Events
    <2>2. QED
      BY <1>1, <1>4, <2>1, LifeDueKept DEF LifeInvariant
  <1>9. QED
    BY <1>5, <1>6, <1>7, <1>8 DEF LifeInvariant

LEMMA LifeAddSystemEventTrigger ==
    ASSUME Life!ReactorLifecycleAssumption, LifeInvariant,
           NEW e \in Life!Events, NEW p \in Life!Phases, NEW t \in Triggers,
           Life!AddSystemEventTrigger(e, p, t)
    PROVE  LifeInvariant'
  <1>1. /\ t \notin added /\ added' = added \cup {t}
        /\ triggers' = Life!AddTrigger(triggers, e, p, t)
        /\ due' = IF e = "shutdown" /\ Life!Ahead(e, p) THEN due \cup {t} ELSE due
        /\ UNCHANGED <<stopped, justStopped, started, startedBefore, running, stack, waits, owed, runPc,
                       whenRunning, crashes>>
    BY DEF Life!AddSystemEventTrigger, Life!flags
  <1>2. /\ triggers' \in LifeTables
        /\ \A f \in Life!Events, q \in Life!Phases :
              Life!Elements(triggers'[f][q]) =
                  IF f = e /\ q = p THEN Life!Elements(triggers[f][q]) \cup {t}
                  ELSE Life!Elements(triggers[f][q])
    <2>1. PICK ts \in LifeTables : ts = triggers
      BY DEF LifeInvariant, LifeTypes
    <2>2. t \in Triggers \cup Life!Builtin /\ triggers' = Life!AddTrigger(ts, e, p, t)
      BY <1>1, <2>1
    <2>3. /\ triggers' \in LifeTables
          /\ \A f \in Life!Events, q \in Life!Phases :
                Life!Elements(triggers'[f][q]) =
                    IF f = e /\ q = p THEN Life!Elements(ts[f][q]) \cup {t} ELSE Life!Elements(ts[f][q])
      BY <2>2, LifeAdded
    <2>4. QED
      BY <2>1, <2>3
  <1>3. /\ \A f : Life!InProgress(f)' = Life!InProgress(f) /\ Life!Suspended(f)' = Life!Suspended(f)
        /\ \A f : (NoFiring(f) => NoFiring(f)') /\ (OneFiring(f) => OneFiring(f)')
        /\ LifeOwed'
        /\ \A q : ToCome(q) => ToCome(q)'
    BY <1>1, LifeKept DEF LifeInvariant
  <1>4. LifeTypes'
    BY <1>1, <1>2 DEF LifeInvariant, LifeTypes
  <1>5. LifePlaces'
    BY <1>2, LifePlacesKept DEF LifeInvariant
  <1>6. LifeOnce' /\ LifeEnd'
    BY <1>1, <1>3 DEF LifeInvariant, LifeOnce, LifeEnd
  <1>7. LifeDue'
    <2>1. \A u \in due : \E q \in Life!Phases : u \in Life!Elements(triggers'["shutdown"][q]) /\ ToCome(q)'
      BY <1>2, <1>3 DEF LifeInvariant, LifeDue, Life!Events
    <2>2. e = "shutdown" /\ Life!Ahead(e, p) => t \in Life!Elements(triggers'["shutdown"][p]) /\ ToCome(p)'
      <3>1. t \in Life!Elements(triggers'[e][p])
        BY <1>2
      <3>2. Life!Ahead("shutdown", p) => ToCome(p)
        BY DEF Life!Ahead, ToCome
      <3>3. QED
        BY <1>3, <3>1, <3>2
    <2>3. QED
      BY <1>1, <2>1, <2>2 DEF LifeDue
  <1>8. LifeCalled'
    <2>1. t \notin whenRunning
      BY <1>1 DEF LifeInvariant, LifeTypes
    <2>2. whenRunning' \cap Life!Elements(triggers'["startup"]["after"])
              \subseteq whenRunning \cap Life!Elements(triggers["startup"]["after"])
      BY <1>1, <1>2, <2>1 DEF Life!Events, Life!Phases
    <2>3. QED
      BY <1>1, <1>3, <2>2, LifeCalledKept DEF LifeInvariant
  <1>9. QED
    BY <1>3, <1>4, <1>5, <1>6, <1>7, <1>8 DEF LifeInvariant

LEMMA LifeCallWhenRunning ==
    ASSUME Life!ReactorLifecycleAssumption, LifeInvariant, NEW t \in Triggers, Life!CallWhenRunning(t)
    PROVE  LifeInvariant'
  <1>1. /\ t \notin added /\ added' = added \cup {t}
        /\ UNCHANGED <<stopped, justStopped, started, startedBefore, running, stack, waits, owed, runPc, due, crashes>>
    BY DEF Life!CallWhenRunning, Life!flags
  <1>2. \/ UNCHANGED <<triggers, whenRunning>>
        \/ /\ ~running /\ triggers' = Life!AddTrigger(triggers, "startup", "after", t)
           /\ whenRunning' = whenRunning \cup {t}
    BY DEF Life!CallWhenRunning, Life!CallAtOnce, Life!WhenStarted
  <1>3. /\ triggers' \in LifeTables
        /\ \A f \in Life!Events, q \in Life!Phases :
              \/ Life!Elements(triggers'[f][q]) = Life!Elements(triggers[f][q])
              \/ f = "startup" /\ Life!Elements(triggers'[f][q]) = Life!Elements(triggers[f][q]) \cup {t}
    <2>1. CASE UNCHANGED <<triggers, whenRunning>>
      BY <2>1 DEF LifeInvariant, LifeTypes
    <2>2. CASE triggers' = Life!AddTrigger(triggers, "startup", "after", t)
      <3>1. PICK ts \in LifeTables, e \in Life!Events, p \in Life!Phases :
               ts = triggers /\ e = "startup" /\ p = "after"
        BY DEF LifeInvariant, LifeTypes, Life!Events, Life!Phases
      <3>2. t \in Triggers \cup Life!Builtin /\ triggers' = Life!AddTrigger(ts, e, p, t)
        BY <2>2, <3>1
      <3>3. /\ triggers' \in LifeTables
            /\ \A f \in Life!Events, q \in Life!Phases :
                  Life!Elements(triggers'[f][q]) =
                      IF f = e /\ q = p THEN Life!Elements(ts[f][q]) \cup {t} ELSE Life!Elements(ts[f][q])
        BY <3>2, LifeAdded
      <3>4. QED
        BY <3>1, <3>3
    <2>3. QED
      BY <1>2, <2>1, <2>2
  <1>4. /\ \A f : Life!InProgress(f)' = Life!InProgress(f) /\ Life!Suspended(f)' = Life!Suspended(f)
        /\ \A f : (NoFiring(f) => NoFiring(f)') /\ (OneFiring(f) => OneFiring(f)')
        /\ LifeOwed'
        /\ \A q : ToCome(q) => ToCome(q)'
    BY <1>1, LifeKept DEF LifeInvariant
  <1>5. LifeTypes'
    BY <1>1, <1>2, <1>3 DEF LifeInvariant, LifeTypes
  <1>6. LifePlaces'
    BY <1>3, LifePlacesKept DEF LifeInvariant
  <1>7. LifeOnce' /\ LifeEnd'
    BY <1>1, <1>4 DEF LifeInvariant, LifeOnce, LifeEnd
  <1>8. LifeDue'
    <2>1. \A p \in Life!Phases : Life!Elements(triggers'["shutdown"][p]) = Life!Elements(triggers["shutdown"][p])
      BY <1>3 DEF Life!Events
    <2>2. QED
      BY <1>1, <1>4, <2>1, LifeDueKept DEF LifeInvariant
  <1>9. LifeCalled'
    BY <1>1, <1>2, <1>4 DEF LifeInvariant, LifeCalled
  <1>10. QED
    BY <1>4, <1>5, <1>6, <1>7, <1>8, <1>9 DEF LifeInvariant

LEMMA LifeRemoveSystemEventTrigger ==
    ASSUME Life!ReactorLifecycleAssumption, LifeInvariant,
           NEW e \in Life!Events, NEW p \in Life!Phases, NEW t \in Triggers,
           Life!RemoveSystemEventTrigger(e, p, t)
    PROVE  LifeInvariant'
  <1>1. /\ due' = due \ {t}
        /\ UNCHANGED <<stopped, justStopped, started, startedBefore, running, stack, waits, owed, runPc,
                       added, whenRunning, crashes>>
    BY DEF Life!RemoveSystemEventTrigger, Life!flags
  <1>3. /\ triggers' \in LifeTables
        /\ \A f \in Life!Events, q \in Life!Phases :
              /\ Life!Elements(triggers'[f][q]) \subseteq Life!Elements(triggers[f][q])
              /\ \A x \in Life!Elements(triggers[f][q]) : x # t => x \in Life!Elements(triggers'[f][q])
    <2>1. LifeTypes
      BY DEF LifeInvariant
    <2>2. QED
      BY <2>1, LifeDropped
  <1>4. /\ \A f : Life!InProgress(f)' = Life!InProgress(f) /\ Life!Suspended(f)' = Life!Suspended(f)
        /\ \A f : (NoFiring(f) => NoFiring(f)') /\ (OneFiring(f) => OneFiring(f)')
        /\ LifeOwed'
        /\ \A q : ToCome(q) => ToCome(q)'
    BY <1>1, LifeKept DEF LifeInvariant
  <1>5. LifeTypes'
    BY <1>1, <1>3 DEF LifeInvariant, LifeTypes
  <1>6. LifePlaces'
    BY <1>3, LifePlacesKept DEF LifeInvariant
  <1>7. LifeOnce' /\ LifeEnd'
    BY <1>1, <1>4 DEF LifeInvariant, LifeOnce, LifeEnd
  <1>8. LifeDue'
    BY <1>1, <1>3, <1>4, LifeDueKept DEF LifeInvariant, Life!Events
  <1>9. LifeCalled'
    <2>1. Life!Elements(triggers'["startup"]["after"]) \subseteq Life!Elements(triggers["startup"]["after"])
      BY <1>3 DEF Life!Events, Life!Phases
    <2>2. QED
      BY <1>1, <1>4, <2>1, LifeCalledKept DEF LifeInvariant
  <1>10. QED
    BY <1>4, <1>5, <1>6, <1>7, <1>8, <1>9 DEF LifeInvariant

LEMMA LifeCallReallyStartRunning ==
    ASSUME Life!ReactorLifecycleAssumption, LifeInvariant, Life!CallReallyStartRunning
    PROVE  LifeInvariant'
  <1>1. /\ stack # <<>> /\ Life!Listed # <<>> /\ Head(Life!Listed) = ReallyStart
        /\ running' = TRUE /\ triggers' = Life!Popped
        /\ UNCHANGED <<stopped, justStopped, started, startedBefore, stack, waits, owed, runPc,
                       added, whenRunning, due, crashes>>
    BY DEF Life!CallReallyStartRunning, Life!Firing, Life!history
  <1>2. /\ triggers' \in LifeTables
        /\ Life!Top.event \in Life!Events /\ Life!Top.phase \in Life!Phases
        /\ ReallyStart \in Life!Elements(triggers[Life!Top.event][Life!Top.phase])
        /\ \A f \in Life!Events, q \in Life!Phases :
              /\ Life!Elements(triggers'[f][q]) \subseteq Life!Elements(triggers[f][q])
              /\ \A x \in Life!Elements(triggers[f][q]) :
                    x # ReallyStart => x \in Life!Elements(triggers'[f][q])
    BY <1>1, LifePopped DEF LifeInvariant
  <1>3. /\ \A f : Life!InProgress(f)' = Life!InProgress(f) /\ Life!Suspended(f)' = Life!Suspended(f)
        /\ \A f : (NoFiring(f) => NoFiring(f)') /\ (OneFiring(f) => OneFiring(f)')
        /\ LifeOwed'
        /\ \A q : ToCome(q) => ToCome(q)'
    BY <1>1, LifeKept DEF LifeInvariant
  <1>4. LifeTypes'
    BY <1>1, <1>2 DEF LifeInvariant, LifeTypes
  <1>5. LifePlaces'
    BY <1>2, LifePlacesKept DEF LifeInvariant
  <1>6. LifeOnce' /\ LifeEnd'
    BY <1>1, <1>3 DEF LifeInvariant, LifeOnce, LifeEnd
  <1>7. LifeDue'
    <2>1. ReallyStart \notin due
      BY LifeBuiltins DEF LifeInvariant, LifeTypes
    <2>2. QED
      BY <1>1, <1>2, <1>3, <2>1, LifeDueKept DEF LifeInvariant, Life!Events
  <1>8. LifeCalled'
    <2>1. Life!Top.event = "startup" /\ Life!Top.phase = "during"
      BY <1>2 DEF LifeInvariant, LifePlaces
    <2>2. Len(stack) \in DOMAIN stack /\ Life!Top = stack[Len(stack)]
      BY <1>1, LifeTop DEF LifeInvariant, LifeTypes
    <2>3. PICK n : n = Len(stack)
      OBVIOUS
    <2>4. n \in Life!InProgress("startup") /\ stack[n].phase # "before"
      BY <2>1, <2>2, <2>3 DEF Life!InProgress
    <2>5. QED
      BY <1>1, <1>3, <2>4 DEF LifeCalled
  <1>9. QED
    BY <1>3, <1>4, <1>5, <1>6, <1>7, <1>8 DEF LifeInvariant

LEMMA LifeCallCrashTrigger ==
    ASSUME Life!ReactorLifecycleAssumption, LifeInvariant, Life!CallCrashTrigger
    PROVE  LifeInvariant'
  <1>1. /\ stack # <<>> /\ Life!Listed # <<>> /\ Head(Life!Listed) = CrashReactor
        /\ Life!Crash(Life!Popped)
        /\ UNCHANGED <<stopped, justStopped, startedBefore, stack, waits, owed, runPc,
                       added, whenRunning, due, crashes>>
    BY DEF Life!CallCrashTrigger, Life!Firing, Life!history
  <1>2. PICK ts \in LifeTables :
          /\ ts = Life!Popped
          /\ Life!Top.event \in Life!Events /\ Life!Top.phase \in Life!Phases
          /\ CrashReactor \in Life!Elements(triggers[Life!Top.event][Life!Top.phase])
          /\ \A f \in Life!Events, q \in Life!Phases :
                /\ Life!Elements(ts[f][q]) \subseteq Life!Elements(triggers[f][q])
                /\ \A x \in Life!Elements(triggers[f][q]) :
                      x # CrashReactor => x \in Life!Elements(ts[f][q])
    BY <1>1, LifePopped DEF LifeInvariant
  <1>3. Life!Crash(ts)
    BY <1>1, <1>2
  <1>4. /\ started' = FALSE /\ running' = FALSE /\ triggers' \in LifeTables
        /\ \A f \in Life!Events, q \in Life!Phases :
              Life!Elements(triggers'[f][q]) =
                  IF f = "startup" /\ q = "during" THEN Life!Elements(ts[f][q]) \cup {ReallyStart}
                  ELSE Life!Elements(ts[f][q])
    BY <1>3, LifeCrashed
  <1>5. /\ \A f : Life!InProgress(f)' = Life!InProgress(f) /\ Life!Suspended(f)' = Life!Suspended(f)
        /\ \A f : (NoFiring(f) => NoFiring(f)') /\ (OneFiring(f) => OneFiring(f)')
        /\ LifeOwed'
        /\ \A q : ToCome(q) => ToCome(q)'
    BY <1>1, LifeKept DEF LifeInvariant
  <1>6. PICK n \in DOMAIN stack : /\ stack[n].event = "shutdown" /\ stack[n].phase = "during"
                                  /\ n \in Life!InProgress("shutdown")
    <2>1. Life!Top.event = "shutdown" /\ Life!Top.phase = "during"
      BY <1>2 DEF LifeInvariant, LifePlaces
    <2>2. Len(stack) \in DOMAIN stack /\ Life!Top = stack[Len(stack)]
      BY <1>1, LifeTop DEF LifeInvariant, LifeTypes
    <2>3. QED
      BY <2>1, <2>2 DEF Life!InProgress
  <1>7. startedBefore /\ ~justStopped /\ Life!Suspended("shutdown") = {}
        /\ \A i \in Life!InProgress("shutdown") : stack[i].phase # "before"
    BY <1>6 DEF LifeInvariant, LifeOnce, NoFiring, OneFiring, LifeTypes
  <1>8. LifeTypes'
    BY <1>1, <1>4 DEF LifeInvariant, LifeTypes
  <1>9. LifePlaces'
    <2>1. \A e \in Life!Events, p \in Life!Phases : \A x \in Life!Elements(triggers'[e][p]) :
             \/ x \in Life!Elements(triggers[e][p])
             \/ x = ReallyStart /\ e = "startup" /\ p = "during"
      <3>1. SUFFICES ASSUME NEW e \in Life!Events, NEW p \in Life!Phases,
                            NEW x \in Life!Elements(triggers'[e][p]), x \notin Life!Elements(ts[e][p])
                     PROVE  x = ReallyStart /\ e = "startup" /\ p = "during"
        BY <1>2
      <3>2. QED
        BY <1>4, <3>1
    <2>2. QED
      BY <2>1, LifePlacesKept DEF LifeInvariant
  <1>10. LifeOnce' /\ LifeEnd' /\ LifeCalled'
    BY <1>1, <1>4, <1>5, <1>7 DEF LifeInvariant, LifeOnce, LifeEnd, LifeCalled
  <1>11. LifeDue'
    <2>1. CrashReactor \notin due
      BY LifeBuiltins DEF LifeInvariant, LifeTypes
    <2>2. \A p \in Life!Phases : \A x \in Life!Elements(triggers["shutdown"][p]) :
             x # CrashReactor => x \in Life!Elements(triggers'["shutdown"][p])
      BY <1>2, <1>4 DEF Life!Events
    <2>3. QED
      BY <1>1, <1>5, <2>1, <2>2, LifeDueKept DEF LifeInvariant
  <1>12. QED
    BY <1>5, <1>8, <1>9, <1>10, <1>11 DEF LifeInvariant

\* A frame whose trigger is called or returns.
LEMMA LifeFrameKept ==
    ASSUME stack \in Seq(LifeFrames), stack # <<>>,
           NEW c \in Triggers \cup {Disconnect, NONE}, NEW more \in SUBSET Triggers,
           stack' = Append(Life!Below, [Life!Top EXCEPT !.calling = c, !.results = @ \cup more])
    PROVE  /\ stack' \in Seq(LifeFrames) /\ DOMAIN stack' = DOMAIN stack
           /\ Len(stack) \in DOMAIN stack /\ Life!Top = stack[Len(stack)]
           /\ stack'[Len(stack)].results = Life!Top.results \cup more
           /\ \A i \in DOMAIN stack :
                 /\ stack'[i].event = stack[i].event /\ stack'[i].phase = stack[i].phase
                 /\ stack[i].results \subseteq stack'[i].results
  <1>1. PICK f : f = [Life!Top EXCEPT !.calling = c, !.results = @ \cup more]
    OBVIOUS
  <1>2. Life!Top \in LifeFrames /\ Len(stack) \in DOMAIN stack /\ Life!Top = stack[Len(stack)]
    BY LifeTop
  <1>3. /\ f \in LifeFrames /\ f.event = Life!Top.event /\ f.phase = Life!Top.phase
        /\ f.results = Life!Top.results \cup more
    BY <1>1, <1>2 DEF LifeFrames
  <1>4. /\ stack' \in Seq(LifeFrames) /\ DOMAIN stack' = DOMAIN stack
        /\ stack'[Len(stack)] = f /\ \A i \in DOMAIN stack : i # Len(stack) => stack'[i] = stack[i]
    BY <1>1, <1>3, LifeSetTop
  <1>5. QED
    BY <1>2, <1>3, <1>4

LEMMA LifeFrameCalls ==
    ASSUME stack \in Seq(LifeFrames), stack # <<>>, NEW c \in Triggers \cup {Disconnect, NONE},
           stack' = Append(Life!Below, [Life!Top EXCEPT !.calling = c])
    PROVE  /\ stack' \in Seq(LifeFrames) /\ DOMAIN stack' = DOMAIN stack
           /\ \A i \in DOMAIN stack : /\ stack'[i].event = stack[i].event /\ stack'[i].phase = stack[i].phase
                                      /\ stack[i].results \subseteq stack'[i].results
  <1>1. PICK f : f = [Life!Top EXCEPT !.calling = c]
    OBVIOUS
  <1>2. Life!Top \in LifeFrames /\ Len(stack) \in DOMAIN stack /\ Life!Top = stack[Len(stack)]
    BY LifeTop
  <1>3. /\ f \in LifeFrames /\ f.event = Life!Top.event /\ f.phase = Life!Top.phase
        /\ f.results = Life!Top.results
    BY <1>1, <1>2 DEF LifeFrames
  <1>4. /\ stack' \in Seq(LifeFrames) /\ DOMAIN stack' = DOMAIN stack
        /\ stack'[Len(stack)] = f /\ \A i \in DOMAIN stack : i # Len(stack) => stack'[i] = stack[i]
    BY <1>1, <1>3, LifeSetTop
  <1>5. QED
    BY <1>2, <1>3, <1>4

LEMMA LifeCallTrigger ==
    ASSUME Life!ReactorLifecycleAssumption, LifeInvariant, Life!CallTrigger
    PROVE  LifeInvariant'
  <1>1. /\ stack # <<>> /\ Life!Listed # <<>> /\ Head(Life!Listed) \in Triggers \cup {Disconnect}
        /\ triggers' = Life!Popped /\ due' = due \ {Head(Life!Listed)}
        /\ UNCHANGED <<stopped, justStopped, started, startedBefore, running, waits, owed, runPc,
                       added, whenRunning, crashes>>
    BY DEF Life!CallTrigger, Life!Firing, Life!flags
  <1>2. PICK t \in Triggers \cup {Disconnect} :
           t = Head(Life!Listed) /\ stack' = Append(Life!Below, [Life!Top EXCEPT !.calling = t])
    BY <1>1 DEF Life!CallTrigger, Life!SetTop
  <1>3. /\ triggers' \in LifeTables
        /\ \A f \in Life!Events, q \in Life!Phases :
              /\ Life!Elements(triggers'[f][q]) \subseteq Life!Elements(triggers[f][q])
              /\ \A x \in Life!Elements(triggers[f][q]) : x # t => x \in Life!Elements(triggers'[f][q])
    BY <1>1, <1>2, LifePopped DEF LifeInvariant
  <1>4. /\ stack' \in Seq(LifeFrames) /\ DOMAIN stack' = DOMAIN stack
        /\ \A i \in DOMAIN stack : /\ stack'[i].event = stack[i].event /\ stack'[i].phase = stack[i].phase
                                   /\ stack[i].results \subseteq stack'[i].results
    BY <1>1, <1>2, LifeFrameCalls DEF LifeInvariant, LifeTypes
  <1>5. /\ \A f : Life!InProgress(f)' = Life!InProgress(f) /\ Life!Suspended(f)' = Life!Suspended(f)
        /\ \A f : (NoFiring(f) => NoFiring(f)') /\ (OneFiring(f) => OneFiring(f)')
        /\ LifeOwed'
        /\ \A q : ToCome(q) => ToCome(q)'
    BY <1>1, <1>4, LifeKept DEF LifeInvariant
  <1>6. LifeTypes'
    BY <1>1, <1>3, <1>4 DEF LifeInvariant, LifeTypes
  <1>7. LifePlaces'
    BY <1>3, LifePlacesKept DEF LifeInvariant
  <1>8. LifeOnce'
    <2>1. stack' # <<>>
      BY <1>1, <1>4
    <2>2. stack # <<>>
      BY <1>1
    <2>3. QED
      BY <1>1, <1>5, <2>2 DEF LifeInvariant, LifeOnce
  <1>9. LifeEnd'
    <2>1. \A i \in Life!InProgress("shutdown") : stack'[i].phase = stack[i].phase
      BY <1>4 DEF Life!InProgress
    <2>2. QED
      BY <1>1, <1>5, <2>1 DEF LifeInvariant, LifeEnd
  <1>10. LifeDue'
    BY <1>1, <1>2, <1>3, <1>5, LifeDueKept DEF LifeInvariant, Life!Events
  <1>11. LifeCalled'
    <2>1. Life!Elements(triggers'["startup"]["after"]) \subseteq Life!Elements(triggers["startup"]["after"])
      BY <1>3 DEF Life!Events, Life!Phases
    <2>2. \A i \in Life!InProgress("startup") : stack'[i].phase = stack[i].phase
      BY <1>4 DEF Life!InProgress
    <2>3. QED
      BY <1>1, <1>5, <2>1, <2>2, LifeCalledKept DEF LifeInvariant
  <1>12. QED
    BY <1>5, <1>6, <1>7, <1>8, <1>9, <1>10, <1>11 DEF LifeInvariant

LEMMA LifeTriggerReturns ==
    ASSUME LifeInvariant, Life!TriggerReturns \/ Life!ReturnsDeferred
    PROVE  LifeInvariant'
  <1>1. /\ stack # <<>>
        /\ UNCHANGED <<stopped, justStopped, started, startedBefore, running, triggers, waits, runPc,
                       added, whenRunning, due, crashes>>
    BY DEF Life!TriggerReturns, Life!ReturnsDeferred, Life!flags, Life!history
  <1>2. PICK more \in SUBSET Triggers :
          /\ stack' \in Seq(LifeFrames) /\ DOMAIN stack' = DOMAIN stack
          /\ \A i \in DOMAIN stack : /\ stack'[i].event = stack[i].event /\ stack'[i].phase = stack[i].phase
                                     /\ stack[i].results \subseteq stack'[i].results
          /\ owed' \subseteq owed \cup {<<Life!Top.event, t>> : t \in more} /\ owed' \subseteq Life!Events \X Triggers
          /\ more # {} => /\ Len(stack) \in DOMAIN stack /\ Life!Top = stack[Len(stack)]
                          /\ Life!Top.phase = "before" /\ more \subseteq stack'[Len(stack)].results
    <2>t. stack \in Seq(LifeFrames) /\ Life!Top \in LifeFrames /\ owed \subseteq Life!Events \X Triggers
      BY <1>1, LifeTop DEF LifeInvariant, LifeTypes
    <2>1. CASE Life!TriggerReturns
      <3>1. stack' = Append(Life!Below, [Life!Top EXCEPT !.calling = NONE]) /\ owed' = owed
        BY <2>1 DEF Life!TriggerReturns, Life!SetTop
      <3>2. /\ stack' \in Seq(LifeFrames) /\ DOMAIN stack' = DOMAIN stack
            /\ \A i \in DOMAIN stack : /\ stack'[i].event = stack[i].event /\ stack'[i].phase = stack[i].phase
                                       /\ stack[i].results \subseteq stack'[i].results
        BY <1>1, <2>t, <3>1, LifeFrameCalls
      <3>3. QED
        BY <2>t, <3>1, <3>2
    <2>2. CASE Life!ReturnsDeferred
      <3>1. PICK t \in Triggers :
              /\ t = Life!Top.calling /\ Life!Top.phase = "before" /\ owed' = owed \cup {<<Life!Top.event, t>>}
              /\ stack' = Append(Life!Below, [Life!Top EXCEPT !.calling = NONE, !.results = @ \cup {t}])
        BY <2>2 DEF Life!ReturnsDeferred, Life!SetTop
      <3>2. /\ stack' \in Seq(LifeFrames) /\ DOMAIN stack' = DOMAIN stack
            /\ Len(stack) \in DOMAIN stack /\ Life!Top = stack[Len(stack)]
            /\ stack'[Len(stack)].results = Life!Top.results \cup {t}
            /\ \A i \in DOMAIN stack : /\ stack'[i].event = stack[i].event /\ stack'[i].phase = stack[i].phase
                                       /\ stack[i].results \subseteq stack'[i].results
        <4>1. PICK c \in Triggers \cup {Disconnect, NONE}, m \in SUBSET Triggers :
                /\ c = NONE /\ m = {t}
                /\ stack' = Append(Life!Below, [Life!Top EXCEPT !.calling = c, !.results = @ \cup m])
          BY <3>1
        <4>2. /\ stack' \in Seq(LifeFrames) /\ DOMAIN stack' = DOMAIN stack
              /\ Len(stack) \in DOMAIN stack /\ Life!Top = stack[Len(stack)]
              /\ stack'[Len(stack)].results = Life!Top.results \cup m
              /\ \A i \in DOMAIN stack : /\ stack'[i].event = stack[i].event /\ stack'[i].phase = stack[i].phase
                                         /\ stack[i].results \subseteq stack'[i].results
          BY <1>1, <2>t, <4>1, LifeFrameKept
        <4>3. QED
          BY <4>1, <4>2
      <3>3. owed' \subseteq Life!Events \X Triggers
        BY <2>t, <3>1 DEF LifeFrames
      <3>4. WITNESS {t} \in SUBSET Triggers
      <3>5. QED
        BY <3>1, <3>2, <3>3
    <2>3. QED
      BY <2>1, <2>2
  <1>3. /\ \A f : Life!InProgress(f)' = Life!InProgress(f) /\ Life!Suspended(f)' = Life!Suspended(f)
        /\ \A f : (NoFiring(f) => NoFiring(f)') /\ (OneFiring(f) => OneFiring(f)')
        /\ \A q : ToCome(q) => ToCome(q)'
    BY <1>1, <1>2, LifeKept
  <1>4. \A f : \A i \in Life!InProgress(f) :
           stack'[i].phase = stack[i].phase /\ stack[i].results \subseteq stack'[i].results
    BY <1>2 DEF Life!InProgress
  <1>5. LifeTypes' /\ LifePlaces'
    BY <1>1, <1>2 DEF LifeInvariant, LifeTypes, LifePlaces
  <1>6. LifeOnce'
    BY <1>1, <1>3 DEF LifeInvariant, LifeOnce
  <1>7. LifeEnd' /\ LifeDue' /\ LifeCalled'
    BY <1>1, <1>3, <1>4 DEF LifeInvariant, LifeEnd, LifeDue, LifeCalled
  <1>8. LifeOwed'
    <2>1. SUFFICES ASSUME crashes = 0, NEW e \in Life!Events, NEW t \in Life!Owed(e)'
                   PROVE  \/ \E i \in Life!InProgress(e)' : stack'[i].phase = "before" /\ t \in stack'[i].results
                          \/ \E w \in Life!Suspended(e)' : t \in w.on
      BY <1>1 DEF LifeOwed
    <2>2. CASE <<e, t>> \in owed
      <3>1. t \in Life!Owed(e)
        BY <2>1, <2>2 DEF Life!Owed
      <3>2. QED
        BY <1>3, <1>4, <2>1, <3>1 DEF LifeInvariant, LifeOwed
    <2>3. CASE t \in more /\ e = Life!Top.event
      <3>1. PICK n : n = Len(stack)
        OBVIOUS
      <3>2. n \in Life!InProgress(e) /\ stack'[n].phase = "before" /\ t \in stack'[n].results
        BY <1>2, <2>3, <3>1 DEF Life!InProgress
      <3>3. QED
        BY <1>3, <3>2
    <2>4. QED
      BY <1>2, <2>1, <2>2, <2>3 DEF Life!Owed
  <1>9. QED
    BY <1>5, <1>6, <1>7, <1>8 DEF LifeInvariant

LEMMA LifePcMoves ==
    ASSUME LifeInvariant,
           UNCHANGED <<stopped, justStopped, started, startedBefore, running, triggers, stack, waits, owed,
                       added, whenRunning, due, crashes>>,
           runPc' = "out" \/ started \/ runPc # "out" \/ runPc' = runPc
    PROVE  LifeInvariant'
  <1>1. /\ \A f : Life!InProgress(f)' = Life!InProgress(f) /\ Life!Suspended(f)' = Life!Suspended(f)
        /\ \A f : (NoFiring(f) => NoFiring(f)') /\ (OneFiring(f) => OneFiring(f)')
        /\ LifeOwed'
        /\ \A q : ToCome(q) => ToCome(q)'
    BY LifeKept DEF LifeInvariant
  <1>2. LifeTypes' /\ LifePlaces' /\ LifeCalled' /\ LifeEnd' /\ LifeDue'
    BY <1>1 DEF LifeInvariant, LifeTypes, LifePlaces, LifeCalled, LifeEnd, LifeDue
  <1>3. LifeOnce'
    BY <1>1 DEF LifeInvariant, LifeOnce
  <1>4. QED
    BY <1>1, <1>2, <1>3 DEF LifeInvariant

\* The outer loops: the `before' phase ends and the event goes on or is
\* suspended.
LEMMA LifeBeforeEnds ==
    ASSUME LifeInvariant, Life!BeforeEnds
    PROVE  LifeInvariant'
  <1>1. /\ stack # <<>> /\ Life!Listed = <<>> /\ Life!Top.phase = "before"
        /\ UNCHANGED <<stopped, justStopped, started, startedBefore, running, triggers, owed, runPc,
                       added, whenRunning, due, crashes>>
    BY DEF Life!BeforeEnds, Life!Firing, Life!flags, Life!history
  <1>2. PICK n \in DOMAIN stack, e \in Life!Events :
          n = Len(stack) /\ Life!Top = stack[n] /\ stack[n] \in LifeFrames /\ e = stack[n].event
    BY <1>1, LifeTop DEF LifeInvariant, LifeTypes, LifeFrames
  <1>3. n \in Life!InProgress(e) /\ stack[n].phase = "before" /\ triggers[e]["before"] = <<>>
    BY <1>1, <1>2 DEF Life!InProgress, Life!Listed
  <1>4. Life!Elements(triggers[e]["before"]) = {}
    BY <1>3 DEF Life!Elements
  <1>5. OneFiring(e) => \A i \in Life!InProgress(e) : i = n
    BY <1>3 DEF OneFiring
  <1>6. OneFiring(e) => Life!Suspended(e) = {}
    BY <1>3 DEF OneFiring
  <1>7. e = "shutdown" => OneFiring(e) /\ startedBefore /\ ~justStopped
    BY <1>3 DEF LifeInvariant, LifeOnce, NoFiring
  <1>8. crashes = 0 => OneFiring(e)
    BY DEF LifeInvariant, LifeOnce, Life!Events
  <1>9. crashes = 0 /\ e = "shutdown" => started
    BY <1>3, <1>7 DEF LifeInvariant, LifeEnd, LifeTypes
  <1>10. ASSUME e = "shutdown", NEW t \in due
         PROVE  \E p \in Life!Phases : p # "before" /\ t \in Life!Elements(triggers["shutdown"][p])
    BY <1>4, <1>10 DEF LifeInvariant, LifeDue
  <1>11. CASE Life!Top.results \cap Life!Owed(Life!Top.event) = {}
    <2>1. PICK f \in LifeFrames : /\ f.event = e /\ f.phase = "during" /\ stack' = Append(Life!Below, f)
                                  /\ waits' = waits
      <3>1. Life!Frame(e, "during") \in LifeFrames
        BY DEF Life!Frame, LifeFrames, Life!Phases
      <3>2. Life!Frame(e, "during").event = e /\ Life!Frame(e, "during").phase = "during"
        BY DEF Life!Frame
      <3>3. stack' = Append(Life!Below, Life!Frame(e, "during")) /\ waits' = waits
        BY <1>2, <1>11 DEF Life!BeforeEnds, Life!ContinueFiring
      <3>4. QED
        BY <3>1, <3>2, <3>3
    <2>2. /\ stack' \in Seq(LifeFrames) /\ DOMAIN stack' = DOMAIN stack
          /\ stack'[n] = f /\ \A i \in DOMAIN stack : i # n => stack'[i] = stack[i]
      BY <1>1, <1>2, <2>1, LifeSetTop DEF LifeInvariant, LifeTypes
    <2>3. \A g : Life!InProgress(g)' = Life!InProgress(g) /\ Life!Suspended(g)' = Life!Suspended(g)
      BY <1>2, <2>1, <2>2 DEF Life!InProgress, Life!Suspended
    <2>4. \A g : (NoFiring(g) => NoFiring(g)') /\ (OneFiring(g) => OneFiring(g)')
      BY <2>3, Zenon DEF NoFiring, OneFiring
    <2>5. \A g : g # e => \A i \in Life!InProgress(g) : stack'[i] = stack[i]
      BY <1>2, <2>2 DEF Life!InProgress
    <2>6. LifeTypes' /\ LifePlaces'
      BY <1>1, <2>1, <2>2 DEF LifeInvariant, LifeTypes, LifePlaces
    <2>7. LifeOnce'
      BY <1>1, <2>3, <2>4 DEF LifeInvariant, LifeOnce
    <2>8. crashes = 0 => Life!Owed(e) = {}
      <3>1. ASSUME crashes = 0, NEW t \in Life!Owed(e) PROVE FALSE
        <4>1. \/ \E i \in Life!InProgress(e) : stack[i].phase = "before" /\ t \in stack[i].results
              \/ \E w \in Life!Suspended(e) : t \in w.on
          BY <3>1 DEF LifeInvariant, LifeOwed
        <4>2. t \in stack[n].results
          BY <1>5, <1>6, <1>8, <3>1, <4>1
        <4>3. QED
          BY <1>2, <1>11, <3>1, <4>2
      <3>2. QED
        BY <3>1
    <2>9. LifeOwed'
      <3>1. SUFFICES ASSUME crashes = 0, NEW g \in Life!Events, NEW t \in Life!Owed(g)
                     PROVE  \/ \E i \in Life!InProgress(g) : stack'[i].phase = "before" /\ t \in stack'[i].results
                            \/ \E w \in Life!Suspended(g) : t \in w.on
        BY <1>1, <2>3 DEF LifeOwed, Life!Owed
      <3>2. g # e
        BY <2>8, <3>1
      <3>3. QED
        BY <2>5, <3>1, <3>2 DEF LifeInvariant, LifeOwed
    <2>10. LifeDue'
      <3>1. CASE e = "shutdown"
        <4>1. n \in Life!InProgress("shutdown")' /\ stack'[n].phase = "during"
          BY <1>3, <2>1, <2>2, <2>3, <3>1
        <4>2. \A p : p # "before" => ToCome(p)'
          BY <4>1 DEF ToCome
        <4>3. QED
          BY <1>1, <1>10, <3>1, <4>2 DEF LifeDue
      <3>2. CASE e # "shutdown"
        <4>1. \A p : ToCome(p) => ToCome(p)'
          BY <1>1, <2>3, <2>5, <3>2 DEF ToCome
        <4>2. QED
          BY <1>1, <4>1 DEF LifeInvariant, LifeDue
      <3>3. QED
        BY <3>1, <3>2
    <2>11. LifeEnd'
      BY <1>1, <1>9, <2>3, <2>5 DEF LifeInvariant, LifeEnd
    <2>12. LifeCalled'
      <3>1. \A i \in Life!InProgress("startup") : stack[i].phase # "before" => stack'[i].phase # "before"
        BY <2>1, <2>2 DEF Life!InProgress
      <3>2. QED
        BY <1>1, <2>3, <3>1 DEF LifeInvariant, LifeCalled
    <2>13. QED
      BY <2>6, <2>7, <2>9, <2>10, <2>11, <2>12 DEF LifeInvariant
  <1>12. CASE Life!Top.results \cap Life!Owed(Life!Top.event) # {}
    <2>1. PICK w : w = [event |-> Life!Top.event, on |-> Life!Top.results]
      OBVIOUS
    <2>2. waits' = waits \cup {w} /\ stack' = Life!Below
      BY <1>12, <2>1 DEF Life!BeforeEnds
    <2>3. /\ w \in [event : Life!Events, on : SUBSET Triggers] /\ w.event = e /\ w.on = stack[n].results
      BY <1>2, <2>1 DEF LifeFrames
    <2>4. /\ stack' \in Seq(LifeFrames) /\ DOMAIN stack' = DOMAIN stack \ {n}
          /\ \A i \in DOMAIN stack' : stack'[i] = stack[i]
      BY <1>1, <1>2, <2>2, LifePop DEF LifeInvariant, LifeTypes
    <2>5. /\ \A g : Life!InProgress(g)' = Life!InProgress(g) \ {n}
          /\ \A g : Life!Suspended(g)' = IF g = e THEN Life!Suspended(g) \cup {w} ELSE Life!Suspended(g)
      BY <2>2, <2>3, <2>4 DEF Life!InProgress, Life!Suspended
    <2>6. \A g : g # e => n \notin Life!InProgress(g)
      BY <1>2 DEF Life!InProgress
    <2>7. \A g : \A i \in Life!InProgress(g)' : i \in Life!InProgress(g) /\ stack'[i] = stack[i]
      BY <2>4, <2>5 DEF Life!InProgress
    <2>8. \A g : OneFiring(g) => OneFiring(g)'
      <3>1. SUFFICES ASSUME NEW g, OneFiring(g) PROVE OneFiring(g)'
        OBVIOUS
      <3>2. CASE g = e
        <4>1. Life!InProgress(g)' = {} /\ Life!Suspended(g)' = {w}
          BY <1>5, <1>6, <2>5, <3>1, <3>2
        <4>2. QED
          BY <4>1 DEF OneFiring
      <3>3. CASE g # e
        <4>1. Life!InProgress(g)' \subseteq Life!InProgress(g) /\ Life!Suspended(g)' = Life!Suspended(g)
          BY <2>5, <3>3
        <4>2. QED
          BY <3>1, <4>1 DEF OneFiring
      <3>4. QED
        BY <3>2, <3>3
    <2>9. LifeTypes' /\ LifePlaces'
      BY <1>1, <2>2, <2>3, <2>4 DEF LifeInvariant, LifeTypes, LifePlaces
    <2>10. LifeOnce'
      <3>1. ~startedBefore \/ justStopped => NoFiring("shutdown")'
        <4>1. SUFFICES ASSUME ~startedBefore \/ justStopped PROVE NoFiring("shutdown")'
          OBVIOUS
        <4>2. e # "shutdown" /\ NoFiring("shutdown")
          BY <1>7, <4>1 DEF LifeInvariant, LifeOnce
        <4>3. QED
          BY <2>5, <4>2 DEF NoFiring
      <3>2. crashes = 0 => started \/ startedBefore
        BY <1>1 DEF LifeInvariant, LifeOnce
      <3>3. QED
        BY <1>1, <2>8, <3>1, <3>2 DEF LifeInvariant, LifeOnce
    <2>11. LifeOwed'
      <3>1. SUFFICES ASSUME crashes = 0, NEW g \in Life!Events, NEW t \in Life!Owed(g)
                     PROVE  \/ \E i \in Life!InProgress(g)' : stack'[i].phase = "before" /\ t \in stack'[i].results
                            \/ \E v \in Life!Suspended(g)' : t \in v.on
        BY <1>1 DEF LifeOwed, Life!Owed
      <3>2. \/ \E i \in Life!InProgress(g) : stack[i].phase = "before" /\ t \in stack[i].results
            \/ \E v \in Life!Suspended(g) : t \in v.on
        BY <3>1 DEF LifeInvariant, LifeOwed
      <3>3. CASE g = e
        BY <1>5, <1>8, <2>3, <2>5, <3>1, <3>2, <3>3
      <3>4. CASE g # e
        <4>1. Life!InProgress(g)' = Life!InProgress(g) /\ Life!Suspended(g)' = Life!Suspended(g)
          BY <2>5, <2>6, <3>4
        <4>2. QED
          BY <2>7, <3>2, <4>1
      <3>5. QED
        BY <3>3, <3>4
    <2>12. LifeDue'
      <3>1. CASE e = "shutdown"
        <4>1. Life!Suspended("shutdown")' # {}
          BY <2>5, <3>1
        <4>2. \A p : p # "before" => ToCome(p)'
          BY <4>1 DEF ToCome
        <4>3. QED
          BY <1>1, <1>10, <3>1, <4>2 DEF LifeDue
      <3>2. CASE e # "shutdown"
        <4>1. /\ Life!InProgress("shutdown")' = Life!InProgress("shutdown")
              /\ Life!Suspended("shutdown")' = Life!Suspended("shutdown")
          BY <2>5, <2>6, <3>2
        <4>2. \A p : ToCome(p) => ToCome(p)'
          BY <1>1, <2>7, <4>1 DEF ToCome
        <4>3. QED
          BY <1>1, <4>2 DEF LifeInvariant, LifeDue
      <3>3. QED
        BY <3>1, <3>2
    <2>13. LifeEnd'
      <3>1. SUFFICES ASSUME crashes = 0, startedBefore, ~started
                     PROVE  /\ ~justStopped /\ Life!Suspended("shutdown")' = {}
                            /\ \A i \in Life!InProgress("shutdown")' : stack'[i].phase # "before"
        BY <1>1 DEF LifeEnd
      <3>2. e # "shutdown"
        BY <1>9, <3>1
      <3>3. Life!Suspended("shutdown")' = Life!Suspended("shutdown")
        BY <2>5, <3>2
      <3>4. QED
        BY <2>7, <3>1, <3>3 DEF LifeInvariant, LifeEnd
    <2>14. LifeCalled'
      <3>1. \A i \in Life!InProgress("startup") :
               stack[i].phase # "before" => i \in Life!InProgress("startup")' /\ stack'[i].phase # "before"
        BY <1>3, <2>5, <2>7
      <3>2. QED
        BY <1>1, <3>1, LifeCalledKept DEF LifeInvariant
    <2>15. QED
      BY <2>9, <2>10, <2>11, <2>12, <2>13, <2>14 DEF LifeInvariant
  <1>13. QED
    BY <1>11, <1>12

LEMMA LifeDuringEnds ==
    ASSUME LifeInvariant, Life!DuringEnds
    PROVE  LifeInvariant'
  <1>1. /\ stack # <<>> /\ Life!Listed = <<>> /\ Life!Top.phase = "during"
        /\ stack' = Append(Life!Below, [Life!Top EXCEPT !.phase = "after"])
        /\ UNCHANGED <<stopped, justStopped, started, startedBefore, running, triggers, waits, owed, runPc,
                       added, whenRunning, due, crashes>>
    BY DEF Life!DuringEnds, Life!AfterIsNext, Life!SetTop, Life!Firing, Life!flags, Life!history
  <1>2. PICK n \in DOMAIN stack, e \in Life!Events :
          n = Len(stack) /\ Life!Top = stack[n] /\ stack[n] \in LifeFrames /\ e = stack[n].event
    BY <1>1, LifeTop DEF LifeInvariant, LifeTypes, LifeFrames
  <1>3. PICK f \in LifeFrames : f.event = e /\ f.phase = "after" /\ stack' = Append(Life!Below, f)
    <2>1. [Life!Top EXCEPT !.phase = "after"] \in LifeFrames
      BY <1>2 DEF LifeFrames, Life!Phases
    <2>2. [Life!Top EXCEPT !.phase = "after"].event = e /\ [Life!Top EXCEPT !.phase = "after"].phase = "after"
      BY <1>2 DEF LifeFrames
    <2>3. QED
      BY <1>1, <2>1, <2>2
  <1>4. /\ stack' \in Seq(LifeFrames) /\ DOMAIN stack' = DOMAIN stack
        /\ stack'[n] = f /\ \A i \in DOMAIN stack : i # n => stack'[i] = stack[i]
    BY <1>1, <1>2, <1>3, LifeSetTop DEF LifeInvariant, LifeTypes
  <1>5. n \in Life!InProgress(e) /\ stack[n].phase = "during" /\ triggers[e]["during"] = <<>>
    BY <1>1, <1>2 DEF Life!InProgress, Life!Listed
  <1>6. Life!Elements(triggers[e]["during"]) = {}
    BY <1>5 DEF Life!Elements
  <1>7. \A g : Life!InProgress(g)' = Life!InProgress(g) /\ Life!Suspended(g)' = Life!Suspended(g)
    BY <1>1, <1>2, <1>3, <1>4 DEF Life!InProgress, Life!Suspended
  <1>8. \A g : (NoFiring(g) => NoFiring(g)') /\ (OneFiring(g) => OneFiring(g)')
    BY <1>7, Zenon DEF NoFiring, OneFiring
  <1>9. \A g : \A i \in Life!InProgress(g) : \/ stack'[i] = stack[i]
                                             \/ g = e /\ i = n /\ stack'[i].phase = "after"
    BY <1>2, <1>3, <1>4 DEF Life!InProgress
  <1>10. LifeTypes' /\ LifePlaces'
    BY <1>1, <1>4 DEF LifeInvariant, LifeTypes, LifePlaces
  <1>11. LifeOnce'
    BY <1>1, <1>7, <1>8 DEF LifeInvariant, LifeOnce
  <1>12. LifeOwed'
    <2>1. SUFFICES ASSUME crashes = 0, NEW g \in Life!Events, NEW t \in Life!Owed(g)
                   PROVE  \/ \E i \in Life!InProgress(g) : stack'[i].phase = "before" /\ t \in stack'[i].results
                          \/ \E w \in Life!Suspended(g) : t \in w.on
      BY <1>1, <1>7 DEF LifeOwed, Life!Owed
    <2>2. \A i \in Life!InProgress(g) : stack[i].phase = "before" => stack'[i] = stack[i]
      BY <1>5, <1>9
    <2>3. QED
      BY <2>1, <2>2 DEF LifeInvariant, LifeOwed
  <1>13. LifeDue'
    <2>1. CASE e = "shutdown"
      <3>1. OneFiring("shutdown") /\ startedBefore /\ ~justStopped
        BY <1>5, <2>1 DEF LifeInvariant, LifeOnce, NoFiring
      <3>2. Life!Suspended("shutdown") = {} /\ \A i \in Life!InProgress("shutdown") : stack[i].phase = "during"
        BY <1>5, <2>1, <3>1 DEF OneFiring
      <3>3. ~ToCome("before")
        BY <3>1, <3>2 DEF ToCome
      <3>4. \A t \in due : t \in Life!Elements(triggers["shutdown"]["after"])
        BY <1>6, <2>1, <3>3 DEF LifeInvariant, LifeDue, Life!Phases
      <3>5. n \in Life!InProgress("shutdown")' /\ stack'[n].phase = "after"
        BY <1>3, <1>4, <1>5, <1>7, <2>1
      <3>6. ToCome("after")'
        BY <3>5 DEF ToCome
      <3>7. QED
        BY <1>1, <3>4, <3>6 DEF LifeDue, Life!Phases
    <2>2. CASE e # "shutdown"
      <3>1. \A i \in Life!InProgress("shutdown") : stack'[i] = stack[i]
        BY <1>9, <2>2
      <3>2. \A p : ToCome(p) => ToCome(p)'
        BY <1>1, <1>7, <3>1 DEF ToCome
      <3>3. QED
        BY <1>1, <3>2 DEF LifeInvariant, LifeDue
    <2>3. QED
      BY <2>1, <2>2
  <1>14. LifeEnd'
    BY <1>1, <1>7, <1>9 DEF LifeInvariant, LifeEnd
  <1>15. LifeCalled'
    BY <1>1, <1>7, <1>9 DEF LifeInvariant, LifeCalled
  <1>16. QED
    BY <1>10, <1>11, <1>12, <1>13, <1>14, <1>15 DEF LifeInvariant

LEMMA LifeAfterEnds ==
    ASSUME LifeInvariant, Life!AfterEnds
    PROVE  LifeInvariant'
  <1>1. /\ stack # <<>> /\ Life!Listed = <<>> /\ Life!Top.phase = "after" /\ stack' = Life!Below
        /\ UNCHANGED <<stopped, justStopped, started, startedBefore, running, triggers, waits, owed, runPc,
                       added, whenRunning, due, crashes>>
    BY DEF Life!AfterEnds, Life!Firing, Life!flags, Life!history
  <1>2. PICK n \in DOMAIN stack, e \in Life!Events :
          n = Len(stack) /\ Life!Top = stack[n] /\ e = stack[n].event
    BY <1>1, LifeTop DEF LifeInvariant, LifeTypes, LifeFrames
  <1>3. n \in Life!InProgress(e) /\ stack[n].phase = "after" /\ triggers[e]["after"] = <<>>
    BY <1>1, <1>2 DEF Life!InProgress, Life!Listed
  <1>4. Life!Elements(triggers[e]["after"]) = {}
    BY <1>3 DEF Life!Elements
  <1>5. /\ stack' \in Seq(LifeFrames) /\ DOMAIN stack' = DOMAIN stack \ {n}
        /\ \A i \in DOMAIN stack' : stack'[i] = stack[i]
    BY <1>1, <1>2, LifePop DEF LifeInvariant, LifeTypes
  <1>6. \A g : Life!InProgress(g)' = Life!InProgress(g) \ {n} /\ Life!Suspended(g)' = Life!Suspended(g)
    BY <1>1, <1>5 DEF Life!InProgress, Life!Suspended
  <1>7. \A g : g # e => n \notin Life!InProgress(g)
    BY <1>2 DEF Life!InProgress
  <1>8. \A g : \A i \in Life!InProgress(g) : i # n => i \in Life!InProgress(g)' /\ stack'[i] = stack[i]
    BY <1>5, <1>6 DEF Life!InProgress
  <1>9. \A g : (NoFiring(g) => NoFiring(g)') /\ (OneFiring(g) => OneFiring(g)')
    BY <1>6 DEF NoFiring, OneFiring
  <1>10. LifeTypes' /\ LifePlaces'
    BY <1>1, <1>5 DEF LifeInvariant, LifeTypes, LifePlaces
  <1>11. LifeOnce'
    <2>1. crashes = 0 => started \/ startedBefore
      BY <1>1 DEF LifeInvariant, LifeOnce
    <2>2. QED
      BY <1>1, <1>9, <2>1 DEF LifeInvariant, LifeOnce
  <1>12. LifeOwed'
    <2>1. SUFFICES ASSUME crashes = 0, NEW g \in Life!Events, NEW t \in Life!Owed(g)
                   PROVE  \/ \E i \in Life!InProgress(g)' : stack'[i].phase = "before" /\ t \in stack'[i].results
                          \/ \E w \in Life!Suspended(g)' : t \in w.on
      BY <1>1 DEF LifeOwed, Life!Owed
    <2>2. \A i \in Life!InProgress(g) : stack[i].phase = "before" => i \in Life!InProgress(g)' /\ stack'[i] = stack[i]
      BY <1>3, <1>8
    <2>3. QED
      BY <1>6, <2>1, <2>2 DEF LifeInvariant, LifeOwed
  <1>13. LifeDue'
    <2>1. CASE e = "shutdown"
      <3>1. OneFiring("shutdown") /\ startedBefore /\ ~justStopped
        BY <1>3, <2>1 DEF LifeInvariant, LifeOnce, NoFiring
      <3>2. Life!Suspended("shutdown") = {} /\ \A i \in Life!InProgress("shutdown") : stack[i].phase = "after"
        BY <1>3, <2>1, <3>1 DEF OneFiring
      <3>3. ~ToCome("before") /\ ~ToCome("during")
        BY <3>1, <3>2 DEF ToCome
      <3>4. due = {}
        BY <1>4, <2>1, <3>3 DEF LifeInvariant, LifeDue, Life!Phases
      <3>5. QED
        BY <1>1, <3>4 DEF LifeDue
    <2>2. CASE e # "shutdown"
      <3>1. \A i \in Life!InProgress("shutdown") : i \in Life!InProgress("shutdown")' /\ stack'[i] = stack[i]
        BY <1>7, <1>8, <2>2
      <3>2. \A p : ToCome(p) => ToCome(p)'
        BY <1>1, <1>6, <3>1 DEF ToCome
      <3>3. QED
        BY <1>1, <3>2 DEF LifeInvariant, LifeDue
    <2>3. QED
      BY <2>1, <2>2
  <1>14. LifeEnd'
    BY <1>1, <1>6, <1>8 DEF LifeInvariant, LifeEnd
  <1>15. LifeCalled'
    <2>1. CASE e = "startup"
      BY <1>1, <1>4, <2>1 DEF LifeCalled
    <2>2. CASE e # "startup"
      <3>1. \A i \in Life!InProgress("startup") : i \in Life!InProgress("startup")' /\ stack'[i] = stack[i]
        BY <1>7, <1>8, <2>2
      <3>2. QED
        BY <1>1, <3>1 DEF LifeInvariant, LifeCalled
    <2>3. QED
      BY <2>1, <2>2
  <1>16. QED
    BY <1>10, <1>11, <1>12, <1>13, <1>14, <1>15 DEF LifeInvariant

\* An event is fired from the outermost level only.
LEMMA LifeFires ==
    ASSUME stack = <<>>, waits' = waits, NEW e \in Life!Events, Life!FireEvent(e)
    PROVE  /\ stack' \in Seq(LifeFrames) /\ DOMAIN stack' = {1} /\ stack'[1].event = e /\ stack'[1].phase = "before"
           /\ \A g : Life!Suspended(g)' = Life!Suspended(g) /\ Life!InProgress(g) = {}
           /\ \A g : Life!InProgress(g)' = IF g = e THEN {1} ELSE {}
  <1>1. PICK f \in LifeFrames : f.event = e /\ f.phase = "before" /\ stack' = Append(stack, f)
    <2>1. Life!Frame(e, "before") \in LifeFrames
      BY DEF Life!Frame, LifeFrames, Life!Phases
    <2>2. Life!Frame(e, "before").event = e /\ Life!Frame(e, "before").phase = "before"
      BY DEF Life!Frame
    <2>3. QED
      BY <2>1, <2>2 DEF Life!FireEvent
  <1>2. stack \in Seq(LifeFrames) /\ Len(stack) = 0 /\ DOMAIN stack = {}
    OBVIOUS
  <1>3. /\ stack' \in Seq(LifeFrames) /\ DOMAIN stack' = DOMAIN stack \cup {Len(stack) + 1}
        /\ stack'[Len(stack) + 1] = f
    BY <1>1, <1>2, LifePush
  <1>4. Len(stack) + 1 = 1
    BY <1>2
  <1>5. DOMAIN stack' = {1} /\ stack'[1] = f
    BY <1>2, <1>3, <1>4
  <1>6. \A g : Life!InProgress(g)' = IF g = e THEN {1} ELSE {}
    BY <1>1, <1>5 DEF Life!InProgress
  <1>7. \A g : Life!Suspended(g)' = Life!Suspended(g) /\ Life!InProgress(g) = {}
    BY <1>2 DEF Life!Suspended, Life!InProgress
  <1>8. QED
    BY <1>1, <1>3, <1>5, <1>6, <1>7

LEMMA LifeRun ==
    ASSUME LifeInvariant, Life!Run
    PROVE  LifeInvariant'
  <1>1. /\ stack = <<>> /\ ~started /\ ~startedBefore /\ started' = TRUE /\ stopped' = FALSE
        /\ Life!FireEvent("startup")
        /\ UNCHANGED <<justStopped, startedBefore, running, triggers, waits, owed, added, whenRunning, due, crashes>>
    BY DEF Life!Run, Life!history
  <1>2. /\ stack' \in Seq(LifeFrames) /\ DOMAIN stack' = {1} /\ stack'[1].event = "startup" /\ stack'[1].phase = "before"
        /\ \A g : Life!Suspended(g)' = Life!Suspended(g) /\ Life!InProgress(g) = {}
        /\ \A g : Life!InProgress(g)' = IF g = "startup" THEN {1} ELSE {}
    <2>1. PICK e \in Life!Events : e = "startup"
      BY DEF Life!Events
    <2>2. /\ stack' \in Seq(LifeFrames) /\ DOMAIN stack' = {1} /\ stack'[1].event = e /\ stack'[1].phase = "before"
          /\ \A g : Life!Suspended(g)' = Life!Suspended(g) /\ Life!InProgress(g) = {}
          /\ \A g : Life!InProgress(g)' = IF g = e THEN {1} ELSE {}
      BY <1>1, <2>1, LifeFires
    <2>3. QED
      BY <2>1, <2>2
  <1>3. crashes = 0 => \A g : Life!Suspended(g) = {}
    BY <1>1 DEF LifeInvariant, LifeOnce, Life!Suspended
  <1>4. LifeTypes' /\ LifePlaces'
    BY <1>1, <1>2 DEF LifeInvariant, LifeTypes, LifePlaces
  <1>5. LifeOnce'
    <2>1. NoFiring("shutdown")' /\ OneFiring("shutdown")'
      BY <1>1, <1>2 DEF LifeInvariant, LifeOnce, NoFiring, OneFiring
    <2>2. crashes = 0 => OneFiring("startup")'
      BY <1>2, <1>3 DEF OneFiring
    <2>3. ~justStopped
      BY <1>1 DEF LifeInvariant, LifeOnce
    <2>4. QED
      BY <1>1, <2>1, <2>2, <2>3 DEF LifeOnce
  <1>6. LifeOwed'
    BY <1>1, <1>2, <1>3 DEF LifeInvariant, LifeOwed, Life!Owed
  <1>7. LifeDue'
    BY <1>1 DEF LifeInvariant, LifeDue, ToCome
  <1>8. LifeEnd' /\ LifeCalled'
    BY <1>1, <1>2 DEF LifeInvariant, LifeEnd, LifeCalled
  <1>9. QED
    BY <1>4, <1>5, <1>6, <1>7, <1>8 DEF LifeInvariant

LEMMA LifeCallsMade ==
    ASSUME LifeInvariant, Life!CallsMade
    PROVE  LifeInvariant'
  <1>1. /\ stack = <<>> /\ runPc = "calls"
        /\ UNCHANGED <<stopped, started, startedBefore, running, triggers, waits, owed, added, whenRunning, due, crashes>>
    BY DEF Life!CallsMade, Life!history
  <1>2. CASE ~justStopped
    <2>1. UNCHANGED <<justStopped, stack>>
      BY <1>2 DEF Life!CallsMade
    <2>2. QED
      BY <1>1, <2>1, LifePcMoves
  <1>3. CASE justStopped
    <2>1. justStopped' = FALSE /\ Life!FireEvent("shutdown")
      BY <1>3 DEF Life!CallsMade, Life!NoteStop
    <2>2. /\ stack' \in Seq(LifeFrames) /\ DOMAIN stack' = {1} /\ stack'[1].event = "shutdown" /\ stack'[1].phase = "before"
          /\ \A g : Life!Suspended(g)' = Life!Suspended(g) /\ Life!InProgress(g) = {}
          /\ \A g : Life!InProgress(g)' = IF g = "shutdown" THEN {1} ELSE {}
      <3>1. PICK e \in Life!Events : e = "shutdown"
        BY DEF Life!Events
      <3>2. /\ stack' \in Seq(LifeFrames) /\ DOMAIN stack' = {1} /\ stack'[1].event = e /\ stack'[1].phase = "before"
            /\ \A g : Life!Suspended(g)' = Life!Suspended(g) /\ Life!InProgress(g) = {}
            /\ \A g : Life!InProgress(g)' = IF g = e THEN {1} ELSE {}
        BY <1>1, <2>1, <3>1, LifeFires
      <3>3. QED
        BY <3>1, <3>2
    <2>3. startedBefore /\ Life!Suspended("shutdown") = {} /\ (crashes = 0 => started)
      BY <1>3 DEF LifeInvariant, LifeOnce, LifeEnd, NoFiring, LifeTypes
    <2>4. LifeTypes' /\ LifePlaces'
      BY <1>1, <2>1, <2>2 DEF LifeInvariant, LifeTypes, LifePlaces
    <2>5. LifeOnce'
      <3>1. OneFiring("shutdown")'
        BY <2>2, <2>3 DEF OneFiring
      <3>2. OneFiring("startup") => OneFiring("startup")'
        BY <2>2 DEF OneFiring
      <3>3. QED
        BY <1>1, <2>1, <2>3, <3>1, <3>2 DEF LifeInvariant, LifeOnce
    <2>6. LifeOwed'
      <3>1. SUFFICES ASSUME crashes = 0, NEW g \in Life!Events, NEW t \in Life!Owed(g)
                     PROVE  \E w \in Life!Suspended(g)' : t \in w.on
        BY <1>1 DEF LifeOwed, Life!Owed
      <3>2. QED
        BY <2>2, <3>1 DEF LifeInvariant, LifeOwed
    <2>7. LifeDue'
      <3>1. \A p : ToCome(p)'
        BY <2>2 DEF ToCome
      <3>2. QED
        BY <1>1, <3>1 DEF LifeInvariant, LifeDue
    <2>8. LifeEnd' /\ LifeCalled'
      BY <1>1, <2>2, <2>3 DEF LifeInvariant, LifeEnd, LifeCalled
    <2>9. QED
      BY <2>4, <2>5, <2>6, <2>7, <2>8 DEF LifeInvariant
  <1>4. QED
    BY <1>2, <1>3 DEF LifeInvariant, LifeTypes

LEMMA LifeFireDeferred ==
    ASSUME LifeInvariant, NEW e \in Life!Events, NEW t \in Triggers, Life!FireDeferred(e, t)
    PROVE  LifeInvariant'
  <1>1. /\ <<e, t>> \in owed /\ owed' = owed \ {<<e, t>>}
        /\ UNCHANGED <<stopped, justStopped, started, startedBefore, running, triggers, runPc,
                       added, whenRunning, due, crashes>>
    BY DEF Life!FireDeferred, Life!flags, Life!history
  <1>2. CASE ~\E w \in waits : Life!Completes(w, e, t)
    <2>1. UNCHANGED <<waits, stack>>
      BY <1>2 DEF Life!FireDeferred
    <2>2. /\ \A f : Life!InProgress(f)' = Life!InProgress(f) /\ Life!Suspended(f)' = Life!Suspended(f)
          /\ \A f : (NoFiring(f) => NoFiring(f)') /\ (OneFiring(f) => OneFiring(f)')
          /\ LifeOwed'
          /\ \A q : ToCome(q) => ToCome(q)'
      BY <1>1, <2>1, LifeKept DEF LifeInvariant
    <2>3. LifeTypes' /\ LifePlaces' /\ LifeCalled' /\ LifeEnd' /\ LifeDue'
      BY <1>1, <2>1, <2>2 DEF LifeInvariant, LifeTypes, LifePlaces, LifeCalled, LifeEnd, LifeDue
    <2>4. LifeOnce'
      BY <1>1, <2>1, <2>2 DEF LifeInvariant, LifeOnce
    <2>5. QED
      BY <2>2, <2>3, <2>4 DEF LifeInvariant
  <1>3. CASE \E w \in waits : Life!Completes(w, e, t)
    <2>1. PICK w \in waits : /\ Life!Completes(w, e, t) /\ waits' = waits \ {w}
                             /\ Life!ContinueFiring(stack, e)
      BY <1>3 DEF Life!FireDeferred
    <2>2. PICK f \in LifeFrames : f.event = e /\ f.phase = "during" /\ stack' = Append(stack, f)
      <3>1. Life!Frame(e, "during") \in LifeFrames
        BY DEF Life!Frame, LifeFrames, Life!Phases
      <3>2. Life!Frame(e, "during").event = e /\ Life!Frame(e, "during").phase = "during"
        BY DEF Life!Frame
      <3>3. QED
        BY <2>1, <3>1, <3>2 DEF Life!ContinueFiring
    <2>3. PICK n : n = Len(stack) + 1
      OBVIOUS
    <2>4. /\ stack' \in Seq(LifeFrames) /\ DOMAIN stack' = DOMAIN stack \cup {n} /\ n \notin DOMAIN stack
          /\ stack'[n] = f /\ \A i \in DOMAIN stack : stack'[i] = stack[i]
      BY <2>2, <2>3, LifePush DEF LifeInvariant, LifeTypes
    <2>5. w \in Life!Suspended(e) /\ w.event = e /\ w.on \cap Life!Owed(e) = {t}
      BY <2>1 DEF Life!Completes, Life!Suspended
    <2>6. /\ \A g : Life!InProgress(g)' = IF g = e THEN Life!InProgress(g) \cup {n} ELSE Life!InProgress(g)
          /\ \A g : Life!Suspended(g)' = IF g = e THEN Life!Suspended(g) \ {w} ELSE Life!Suspended(g)
      <3>1. \A g : Life!InProgress(g)' = IF g = e THEN Life!InProgress(g) \cup {n} ELSE Life!InProgress(g)
        BY <2>2, <2>4 DEF Life!InProgress
      <3>2. \A g : Life!Suspended(g)' = IF g = e THEN Life!Suspended(g) \ {w} ELSE Life!Suspended(g)
        BY <2>1, <2>5 DEF Life!Suspended
      <3>3. QED
        BY <3>1, <3>2
    <2>7. \A g : \A i \in Life!InProgress(g) : i \in Life!InProgress(g)' /\ stack'[i] = stack[i]
      BY <2>4, <2>6 DEF Life!InProgress
    <2>8. OneFiring(e) => Life!InProgress(e) = {} /\ Life!Suspended(e) = {w}
      BY <2>5 DEF OneFiring
    <2>9. OneFiring(e) => Life!InProgress(e)' = {n} /\ Life!Suspended(e)' = {}
      BY <2>6, <2>8
    <2>10. \A g : OneFiring(g) => OneFiring(g)'
      <3>1. OneFiring(e) => OneFiring(e)'
        BY <2>9 DEF OneFiring
      <3>2. \A g : g # e /\ OneFiring(g) => OneFiring(g)'
        BY <2>6 DEF OneFiring
      <3>3. QED
        BY <3>1, <3>2
    <2>11. crashes = 0 => OneFiring(e)
      BY DEF LifeInvariant, LifeOnce, Life!Events
    <2>12. e = "shutdown" => OneFiring(e) /\ startedBefore /\ ~justStopped
      BY <2>5 DEF LifeInvariant, LifeOnce, NoFiring
    <2>13. LifeTypes' /\ LifePlaces'
      BY <1>1, <2>1, <2>4 DEF LifeInvariant, LifeTypes, LifePlaces
    <2>14. LifeOnce'
      <3>1. ~startedBefore \/ justStopped => NoFiring("shutdown")'
        <4>1. SUFFICES ASSUME ~startedBefore \/ justStopped PROVE NoFiring("shutdown")'
          OBVIOUS
        <4>2. e # "shutdown" /\ NoFiring("shutdown")
          BY <2>12, <4>1 DEF LifeInvariant, LifeOnce
        <4>3. QED
          BY <2>6, <4>2 DEF NoFiring
      <3>2. crashes = 0 => started \/ startedBefore
        BY <2>1 DEF LifeInvariant, LifeOnce
      <3>3. QED
        BY <1>1, <2>10, <3>1, <3>2 DEF LifeInvariant, LifeOnce
    <2>15. LifeOwed'
      <3>1. SUFFICES ASSUME crashes = 0, NEW g \in Life!Events, NEW u \in Life!Owed(g)'
                     PROVE  \/ \E i \in Life!InProgress(g)' : stack'[i].phase = "before" /\ u \in stack'[i].results
                            \/ \E v \in Life!Suspended(g)' : u \in v.on
        BY <1>1 DEF LifeOwed
      <3>2. u \in Life!Owed(g) /\ ~(g = e /\ u = t)
        BY <1>1, <3>1 DEF Life!Owed
      <3>3. \/ \E i \in Life!InProgress(g) : stack[i].phase = "before" /\ u \in stack[i].results
            \/ \E v \in Life!Suspended(g) : u \in v.on
        BY <3>1, <3>2 DEF LifeInvariant, LifeOwed
      <3>4. CASE g = e
        <4>1. u \in w.on
          BY <2>8, <2>11, <3>1, <3>3, <3>4
        <4>2. QED
          BY <2>5, <3>2, <3>4, <4>1
      <3>5. CASE g # e
        BY <2>6, <2>7, <3>3, <3>5
      <3>6. QED
        BY <3>4, <3>5
    <2>16. LifeDue'
      <3>1. CASE e = "shutdown"
        <4>1. n \in Life!InProgress("shutdown")' /\ stack'[n].phase = "during"
          BY <2>2, <2>4, <2>6, <3>1
        <4>2. \A p : p # "before" => ToCome(p)'
          BY <4>1 DEF ToCome
        <4>3. ~ToCome("before")
          BY <2>8, <2>12, <3>1 DEF ToCome
        <4>4. QED
          BY <1>1, <4>2, <4>3 DEF LifeInvariant, LifeDue
      <3>2. CASE e # "shutdown"
        <4>1. Life!Suspended("shutdown")' = Life!Suspended("shutdown")
          BY <2>6, <3>2
        <4>2. \A p : ToCome(p) => ToCome(p)'
          BY <1>1, <2>7, <4>1 DEF ToCome
        <4>3. QED
          BY <1>1, <4>2 DEF LifeInvariant, LifeDue
      <3>3. QED
        BY <3>1, <3>2
    <2>17. LifeEnd'
      <3>1. Life!Suspended("shutdown")' \subseteq Life!Suspended("shutdown")
        BY <2>6
      <3>2. \A i \in Life!InProgress("shutdown")' :
               i \in Life!InProgress("shutdown") \/ stack'[i].phase = "during"
        BY <2>2, <2>4, <2>6
      <3>3. QED
        BY <1>1, <2>7, <3>1, <3>2 DEF LifeInvariant, LifeEnd
    <2>18. LifeCalled'
      BY <1>1, <2>7 DEF LifeInvariant, LifeCalled
    <2>19. QED
      BY <2>13, <2>14, <2>15, <2>16, <2>17, <2>18 DEF LifeInvariant
  <1>4. QED
    BY <1>2, <1>3

LEMMA LifeInit ==
    ASSUME Life!ReactorLifecycleAssumption, Life!Init
    PROVE  LifeInvariant
  <1>1. /\ stopped = TRUE /\ justStopped = FALSE /\ started = FALSE /\ startedBefore = FALSE /\ running = FALSE
        /\ stack = <<>> /\ waits = {} /\ owed = {} /\ runPc = "out"
        /\ added = {} /\ whenRunning = {} /\ due = {} /\ crashes = 0
    BY DEF Life!Init
  <1>2. /\ triggers \in LifeTables
        /\ \A e \in Life!Events, p \in Life!Phases :
              triggers[e][p] = IF p # "during" THEN <<>>
                               ELSE IF e = "startup" THEN <<ReallyStart>> ELSE <<CrashReactor, Disconnect>>
    <2>1. /\ <<>> \in LifeLists /\ <<ReallyStart>> \in LifeLists /\ <<CrashReactor, Disconnect>> \in LifeLists
      BY DEF LifeLists, Life!Builtin
    <2>2. QED
      BY <2>1 DEF Life!Init, LifeTables
  <1>3. /\ Life!Elements(<<>>) = {} /\ Life!Elements(<<ReallyStart>>) = {ReallyStart}
        /\ Life!Elements(<<CrashReactor, Disconnect>>) = {CrashReactor, Disconnect}
    BY DEF Life!Elements
  <1>4. ReallyStart # CrashReactor /\ ReallyStart # Disconnect
    BY LifeBuiltins
  <1>5. LifePlaces
    BY <1>2, <1>3, <1>4 DEF LifePlaces, Life!Events
  <1>6. LifeTypes
    <2>1. stack \in Seq(LifeFrames) /\ crashes \in Nat
      BY <1>1
    <2>2. QED
      BY <1>1, <1>2, <2>1 DEF LifeTypes
  <1>7. \A e : Life!InProgress(e) = {} /\ Life!Suspended(e) = {}
    BY <1>1 DEF Life!InProgress, Life!Suspended
  <1>8. LifeOnce /\ LifeOwed /\ LifeDue /\ LifeEnd /\ LifeCalled
    BY <1>1, <1>7 DEF LifeOnce, LifeOwed, LifeDue, LifeEnd, LifeCalled, NoFiring, OneFiring, Life!Owed
  <1>9. QED
    BY <1>5, <1>6, <1>8 DEF LifeInvariant

LEMMA LifeStep ==
    ASSUME Life!ReactorLifecycleAssumption, LifeInvariant, [Life!Next]_Life!vars
    PROVE  LifeInvariant'
  <1>1. CASE Life!Stop \/ Life!CallCrash \/ Life!Run
    BY <1>1, LifeStop, LifeCallCrash, LifeRun
  <1>2. CASE \E t \in Triggers : Life!CallWhenRunning(t) \/ \E e \in Life!Events : Life!FireDeferred(e, t)
    BY <1>2, LifeCallWhenRunning, LifeFireDeferred
  <1>3. CASE \E t \in Triggers : \E e \in Life!Events, p \in Life!Phases :
                Life!AddSystemEventTrigger(e, p, t) \/ Life!RemoveSystemEventTrigger(e, p, t)
    BY <1>3, LifeAddSystemEventTrigger, LifeRemoveSystemEventTrigger
  <1>4. CASE Life!CallReallyStartRunning \/ Life!CallCrashTrigger \/ Life!CallTrigger
    BY <1>4, LifeCallReallyStartRunning, LifeCallCrashTrigger, LifeCallTrigger
  <1>5. CASE Life!TriggerReturns \/ Life!ReturnsDeferred
    BY <1>5, LifeTriggerReturns
  <1>6. CASE Life!BeforeEnds \/ Life!DuringEnds \/ Life!AfterEnds \/ Life!CallsMade
    BY <1>6, LifeBeforeEnds, LifeDuringEnds, LifeAfterEnds, LifeCallsMade
  <1>7. CASE Life!LoopAgain \/ Life!RunReturns \/ Life!DoIterationReturns \/ UNCHANGED Life!vars
    <2>1. /\ UNCHANGED <<stopped, justStopped, started, startedBefore, running, triggers, stack, waits, owed,
                         added, whenRunning, due, crashes>>
          /\ runPc' = "out" \/ started \/ runPc # "out" \/ runPc' = runPc
      BY <1>7 DEF Life!LoopAgain, Life!RunReturns, Life!DoIterationReturns, Life!vars, Life!flags,
                  Life!events, Life!history
    <2>2. QED
      BY <2>1, LifePcMoves
  <1>8. QED
    BY <1>1, <1>2, <1>3, <1>4, <1>5, <1>6, <1>7 DEF Life!Next, Life!Reactor

(***************************************************************************)
(* For any triggers, Deferreds and crashes: when the main loop ends after  *)
(* stop(), every `shutdown' trigger that was due has run; `during' and     *)
(* `after' triggers run when the Deferreds of the event have fired (both   *)
(* unless the application called crash()); one stop() is one shutdown; and *)
(* no callable given to callWhenRunning is forgotten.                      *)
(***************************************************************************)
THEOREM LifecycleIsAlwaysSound ==
    ASSUME Life!ReactorLifecycleAssumption
    PROVE  Life!Spec => []LifecycleIsSound
<1>1. Life!Spec => []LifeInvariant
  BY LifeInit, LifeStep, PTL DEF Life!Spec
<1>2. LifeInvariant => LifecycleIsSound
  <2> SUFFICES ASSUME LifeInvariant PROVE Life!LifecycleIsSound
    BY DEF LifecycleIsSound
  <2>1. Life!ShutdownIsComplete
    <3>1. SUFFICES ASSUME runPc = "loop", stack = <<>>, ~started, crashes = 0
                   PROVE  startedBefore /\ due = {} /\ Life!Suspended("shutdown") = {}
      BY DEF Life!ShutdownIsComplete
    <3>2. startedBefore
      BY <3>1 DEF LifeInvariant, LifeOnce, LifeTypes
    <3>3. ~justStopped /\ Life!Suspended("shutdown") = {} /\ Life!InProgress("shutdown") = {}
      BY <3>1, <3>2 DEF LifeInvariant, LifeEnd, Life!InProgress
    <3>4. \A p : ~ToCome(p)
      BY <3>2, <3>3 DEF ToCome
    <3>5. QED
      BY <3>2, <3>3, <3>4 DEF LifeInvariant, LifeDue
  <2>2. Life!BeforeIsAwaited
    <3>1. SUFFICES ASSUME crashes = 0, NEW i \in DOMAIN stack, stack[i].phase # "before",
                          NEW t \in Life!Owed(stack[i].event)
                   PROVE  FALSE
      BY DEF Life!BeforeIsAwaited
    <3>2. PICK e \in Life!Events : e = stack[i].event
      <4>1. stack \in Seq(LifeFrames)
        BY DEF LifeInvariant, LifeTypes
      <4>2. stack[i] \in LifeFrames
        BY <4>1
      <4>3. QED
        BY <4>2 DEF LifeFrames
    <3>3. i \in Life!InProgress(e) /\ OneFiring(e)
      BY <3>1, <3>2 DEF LifeInvariant, LifeOnce, Life!Events, Life!InProgress
    <3>4. \/ \E j \in Life!InProgress(e) : stack[j].phase = "before" /\ t \in stack[j].results
          \/ \E w \in Life!Suspended(e) : t \in w.on
      BY <3>1, <3>2 DEF LifeInvariant, LifeOwed
    <3>5. QED
      BY <3>1, <3>3, <3>4 DEF OneFiring
  <2>3. Life!OneShutdown
    <3>1. ASSUME NEW S, \A x, y \in S : x = y
          PROVE  S = {} \/ \E x : S = {x}
      BY <3>1
    <3>2. \A S : (\A x, y \in S : x = y) => /\ Life!Cardinality(S) \in {0, 1}
                                            /\ S = {} => Life!Cardinality(S) = 0
      <4>1. \A x : Cardinality({x}) = 1
        BY FS_Singleton
      <4>2. Cardinality({}) = 0
        BY FS_EmptySet
      <4>3. QED
        BY <3>1, <4>1, <4>2, LifeCardinality
    <3>3. PICK a, b : a = Life!InProgress("shutdown") /\ b = Life!Suspended("shutdown")
      OBVIOUS
    <3>4. /\ \A x, y \in a : x = y
          /\ \A x, y \in b : x = y
          /\ a = {} \/ b = {}
      BY <3>3 DEF LifeInvariant, LifeOnce, OneFiring
    <3>5. Life!Cardinality(a) + Life!Cardinality(b) <= 1
      <4>1. Life!Cardinality(a) \in {0, 1} /\ Life!Cardinality(b) \in {0, 1}
            /\ (Life!Cardinality(a) = 0 \/ Life!Cardinality(b) = 0)
        BY <3>2, <3>4
      <4>2. QED
        BY <4>1
    <3>6. QED
      BY <3>3, <3>5 DEF LifeInvariant, LifeOnce, NoFiring, Life!OneShutdown
  <2>4. Life!WhenRunningIsCalled
    BY DEF LifeInvariant, LifeCalled, Life!WhenRunningIsCalled
  <2> QED BY <2>1, <2>2, <2>3, <2>4 DEF Life!LifecycleIsSound
<1> QED BY <1>1, <1>2, PTL
===============================================================================
