------------------------------ MODULE WorkersProofs ------------------------------
(***************************************************************************)
(* Both kinds of worker implement IExclusiveWorker (ExclusiveWorker.tla),  *)
(* for any sets of threads and of work, and the Team of a ThreadPool keeps *)
(* its books true, for any workers, tasks and sizes.                       *)
(***************************************************************************)
EXTENDS MCThreads, SequenceTheorems, FiniteSetTheorems, TLAPS

-------------------------------------------------------------------------------
(***************************************************************************)
(* ThreadWorker.  A callable that was accepted is in one place: in the     *)
(* hands of the caller that is about to put it, in the queue, in the       *)
(* thread, or among those that have ended.                                 *)
(***************************************************************************)
WorkerTypes ==
    /\ hasQuit \in BOOLEAN
    /\ workQueue \in Seq(Works \cup {Worker!Stop})
    /\ callerPc \in [Callers -> {"free", "put", "set", "stop"}]
    /\ workArg \in [Callers -> Works \cup {NONE}]
    /\ workThread \in {"get", "task", "dead"} /\ workCur \in Works \cup {NONE}
    /\ workOffered \subseteq Works /\ workAccepted \subseteq workOffered
    /\ workEnded \subseteq workAccepted

\* What has been accepted and has neither begun nor ended.
WorkerWaits(w) == w \in workAccepted /\ w \notin workEnded /\ w # workCur

WorkerHands ==
    /\ \A c \in Callers : callerPc[c] = "put" => workArg[c] # NONE
    /\ \A c \in Callers : workArg[c] # NONE => callerPc[c] = "put" /\ WorkerWaits(workArg[c])
    /\ \A c, d \in Callers : (workArg[c] = workArg[d] /\ workArg[c] # NONE) => c = d

WorkerQueue ==
    \A i \in 1..Len(workQueue) : workQueue[i] # Worker!Stop =>
       /\ WorkerWaits(workQueue[i])
       /\ \A j \in 1..Len(workQueue) : workQueue[j] = workQueue[i] => i = j
       /\ \A c \in Callers : workArg[c] # workQueue[i]

WorkerThread ==
    /\ workThread = "task" <=> workCur # NONE
    /\ workCur # NONE => workCur \in workAccepted \ workEnded

WorkerInvariant == WorkerTypes /\ WorkerHands /\ WorkerQueue /\ WorkerThread

LEMMA WorkerInit == Worker!Init => WorkerInvariant
<1> SUFFICES ASSUME Worker!Init PROVE WorkerInvariant
  OBVIOUS
<1> USE WorkerParameters DEF Worker!Init, Worker!ThreadWorkerAssumption, Worker!Stop
<1>1. WorkerTypes
  <2>1. workQueue \in Seq(Works \cup {Worker!Stop})
    OBVIOUS
  <2>2. hasQuit \in BOOLEAN
    OBVIOUS
  <2> QED BY <2>1, <2>2 DEF WorkerTypes
<1>2. WorkerHands /\ WorkerQueue /\ WorkerThread
  BY DEF WorkerHands, WorkerQueue, WorkerThread
<1> QED BY <1>1, <1>2 DEF WorkerInvariant

LEMMA WorkerStep == WorkerInvariant /\ [Worker!Next]_(Worker!vars) => WorkerInvariant'
<1> SUFFICES ASSUME WorkerInvariant, [Worker!Next]_(Worker!vars) PROVE WorkerInvariant'
  OBVIOUS
<1> USE WorkerParameters DEF Worker!ThreadWorkerAssumption, Worker!Stop, WorkerInvariant, WorkerTypes,
      WorkerHands, WorkerQueue, WorkerThread, WorkerWaits, Worker!Goto
<1>1. CASE Worker!Get
  BY <1>1 DEF Worker!Get
<1>2. CASE Worker!TaskEnds
  BY <1>2 DEF Worker!TaskEnds
<1>3. ASSUME NEW c \in Callers, Worker!Put(c) PROVE WorkerInvariant'
  BY <1>3 DEF Worker!Put
<1>4. ASSUME NEW c \in Callers, Worker!Set(c) PROVE WorkerInvariant'
  BY <1>4 DEF Worker!Set
<1>5. ASSUME NEW c \in Callers, Worker!PutStop(c) PROVE WorkerInvariant'
  BY <1>5 DEF Worker!PutStop, Worker!EnqueueStop
<1>6. ASSUME NEW c \in Callers, Worker!Quit(c) PROVE WorkerInvariant'
  BY <1>6 DEF Worker!Quit
<1>7. ASSUME NEW c \in Callers, NEW w \in Works, Worker!Do(c, w) PROVE WorkerInvariant'
  <2>1. /\ callerPc[c] = "free" /\ w \notin workOffered /\ callerPc' = [callerPc EXCEPT ![c] = "put"]
        /\ workOffered' = workOffered \cup {w} /\ workAccepted' = workAccepted \cup {w}
        /\ workArg' = [workArg EXCEPT ![c] = w]
        /\ UNCHANGED <<hasQuit, workQueue, workThread, workCur, workEnded>>
    BY <1>7 DEF Worker!Do
  <2>2. WorkerTypes' /\ WorkerThread'
    BY <2>1
  <2>3. w \notin workEnded /\ w # workCur
    BY <2>1
  <2>4. WorkerHands'
    BY <2>1, <2>3
  <2>5. WorkerQueue'
    BY <2>1
  <2> QED BY <2>2, <2>4, <2>5
<1>8. ASSUME NEW c \in Callers, NEW w \in Works, Worker!DoRefused(c, w) PROVE WorkerInvariant'
  BY <1>8 DEF Worker!DoRefused
<1>9. CASE UNCHANGED Worker!vars
  BY <1>9 DEF Worker!vars
<1> QED
  BY <1>1, <1>2, <1>3, <1>4, <1>5, <1>6, <1>7, <1>8, <1>9 DEF Worker!Next, Worker!CallerProceeds

(***************************************************************************)
(* What each step of the callers and of the thread is to those who know    *)
(* only the interface.                                                     *)
(***************************************************************************)
WorkerRunning == {workCur} \ {NONE}

WorkerAbstractStep ==
    Worker!Abstract!Next \/ UNCHANGED <<workAccepted, WorkerRunning, workEnded, hasQuit>>

LEMMA WorkerRefines == WorkerInvariant /\ [Worker!Next]_(Worker!vars) => WorkerAbstractStep
<1> SUFFICES ASSUME WorkerInvariant, [Worker!Next]_(Worker!vars) PROVE WorkerAbstractStep
  OBVIOUS
<1> USE WorkerParameters DEF Worker!ThreadWorkerAssumption, Worker!Stop, WorkerInvariant, WorkerTypes,
      WorkerHands, WorkerQueue, WorkerThread, WorkerWaits, WorkerAbstractStep, WorkerRunning,
      Worker!Abstract!Next
<1>1. CASE Worker!Get
  <2>1. workCur = NONE /\ workQueue # <<>> /\ UNCHANGED <<workAccepted, workEnded, hasQuit>>
    BY <1>1 DEF Worker!Get
  <2>2. CASE Head(workQueue) = "stop"
    BY <1>1, <2>1, <2>2 DEF Worker!Get
  <2>3. CASE Head(workQueue) # "stop"
    <3>1. workCur' = Head(workQueue) /\ Head(workQueue) \in workAccepted \ workEnded
      BY <1>1, <2>1, <2>3 DEF Worker!Get
    <3>2. Worker!Abstract!Begin(Head(workQueue))
      BY <2>1, <3>1 DEF Worker!Abstract!Begin
    <3> QED BY <3>1, <3>2
  <2> QED BY <2>2, <2>3
<1>2. CASE Worker!TaskEnds
  <2>1. Worker!Abstract!End(workCur)
    BY <1>2 DEF Worker!TaskEnds, Worker!Abstract!End
  <2> QED BY <1>2, <2>1 DEF Worker!TaskEnds
<1>3. ASSUME NEW c \in Callers, Worker!Put(c) PROVE WorkerAbstractStep
  BY <1>3 DEF Worker!Put
<1>4. ASSUME NEW c \in Callers, Worker!Set(c) PROVE WorkerAbstractStep
  BY <1>4 DEF Worker!Set, Worker!Abstract!Close
<1>5. ASSUME NEW c \in Callers, Worker!PutStop(c) PROVE WorkerAbstractStep
  BY <1>5 DEF Worker!PutStop
<1>6. ASSUME NEW c \in Callers, Worker!Quit(c) PROVE WorkerAbstractStep
  BY <1>6 DEF Worker!Quit
<1>7. ASSUME NEW c \in Callers, NEW w \in Works, Worker!Do(c, w) PROVE WorkerAbstractStep
  <2>1. Worker!Abstract!Accept(w)
    BY <1>7 DEF Worker!Do, Worker!Open, Worker!Abstract!Accept
  <2> QED BY <2>1
<1>8. ASSUME NEW c \in Callers, NEW w \in Works, Worker!DoRefused(c, w) PROVE WorkerAbstractStep
  BY <1>8 DEF Worker!DoRefused
<1>9. CASE UNCHANGED Worker!vars
  BY <1>9 DEF Worker!vars
<1> QED
  BY <1>1, <1>2, <1>3, <1>4, <1>5, <1>6, <1>7, <1>8, <1>9 DEF Worker!Next, Worker!CallerProceeds

LEMMA ThreadWorkerImplements == Worker!Spec => Worker!Implements
<1>1. Worker!Spec => []WorkerInvariant
  BY WorkerInit, WorkerStep, PTL DEF Worker!Spec
<1>2. Worker!Init => Worker!Abstract!Init
  BY DEF Worker!Init, Worker!Abstract!Init
<1>3. WorkerInvariant /\ [Worker!Next]_(Worker!vars)
         => [Worker!Abstract!Next]_<<workAccepted, WorkerRunning, workEnded, hasQuit>>
  BY WorkerRefines DEF WorkerAbstractStep
<1> QED
  BY <1>1, <1>2, <1>3, PTL DEF Worker!Spec, Worker!Implements, Worker!Abstract!Spec, WorkerRunning

-------------------------------------------------------------------------------
(***************************************************************************)
(* LockWorker.  A thread that runs work, or is about to, holds the mutex;  *)
(* it has a list of work exactly while it holds the mutex or waits for it. *)
(***************************************************************************)
LockTypes ==
    /\ holder \in Threads \cup {NONE}
    /\ working \in [Threads -> Seq(Works) \cup {NONE}]
    /\ lockPc \in [Threads -> {"free", "check", "acquire", "loop", "set", "forget"}]
    /\ lockArg \in [Threads -> Works \cup {NONE}] /\ lockCur \in [Threads -> Works \cup {NONE}]
    /\ lockOffered \subseteq Works /\ lockAccepted \subseteq lockOffered
    /\ lockEnded \subseteq lockAccepted

LockMutex ==
    \A t \in Threads :
       /\ (lockCur[t] # NONE \/ lockPc[t] = "loop") => holder = t
       /\ lockPc[t] \in {"loop", "acquire"} => lockCur[t] = NONE
       /\ holder = t => working[t] # NONE /\ lockPc[t] # "acquire"
       /\ lockPc[t] = "acquire" => working[t] # NONE
       /\ working[t] # NONE => holder = t \/ lockPc[t] = "acquire"

\* What has been accepted and has neither begun nor ended.
LockWaits(w) == w \in lockAccepted /\ w \notin lockEnded /\ \A u \in Threads : lockCur[u] # w

LockArgs ==
    /\ \A t \in Threads : lockPc[t] = "check" => lockArg[t] # NONE
    /\ \A t \in Threads : lockArg[t] # NONE =>
          lockPc[t] = "check" /\ lockArg[t] \in lockOffered \ lockAccepted
    /\ \A t, u \in Threads : (lockArg[t] = lockArg[u] /\ lockArg[t] # NONE) => t = u

LockLists ==
    \A t \in Threads : working[t] # NONE => \A i \in 1..Len(working[t]) : LockWaits(working[t][i])

LockOnce ==
    \A t, u \in Threads : (working[t] # NONE /\ working[u] # NONE) =>
       \A i \in 1..Len(working[t]), j \in 1..Len(working[u]) :
          working[u][j] = working[t][i] => u = t /\ j = i

LockRunning == \A t \in Threads : lockCur[t] # NONE => lockCur[t] \in lockAccepted \ lockEnded

LockInvariant ==
    LockTypes /\ LockMutex /\ LockArgs /\ LockLists /\ LockOnce /\ LockRunning

LEMMA LockInit == Lock!Init => LockInvariant
<1> SUFFICES ASSUME Lock!Init PROVE LockInvariant
  OBVIOUS
<1> USE WorkerParameters DEF Lock!Init, Lock!LockWorkerAssumption
<1>1. LockTypes
  BY DEF LockTypes
<1>2. LockMutex /\ LockArgs /\ LockLists /\ LockOnce /\ LockRunning
  BY DEF LockMutex, LockArgs, LockLists, LockOnce, LockRunning
<1> QED BY <1>1, <1>2 DEF LockInvariant

\* No list of works is None.
LEMMA LockNone == NONE \notin Seq(Works)
BY WorkerParameters DEF Lock!LockWorkerAssumption

LEMMA LockStep == LockInvariant /\ [Lock!Next]_(Lock!vars) => LockInvariant'
<1> SUFFICES ASSUME LockInvariant, [Lock!Next]_(Lock!vars) PROVE LockInvariant'
  OBVIOUS
<1> USE WorkerParameters DEF Lock!LockWorkerAssumption, LockInvariant, LockTypes, LockMutex,
      LockArgs, LockLists, LockOnce, LockRunning, LockWaits, Lock!Goto
<1>1. ASSUME NEW t \in Threads, Lock!CheckRaises(t) PROVE LockInvariant'
  BY <1>1 DEF Lock!CheckRaises
<1>2. ASSUME NEW t \in Threads, Lock!CheckPasses(t) PROVE LockInvariant'
  <2> DEFINE w == lockArg[t]
  <2>1. /\ lockPc[t] = "check" /\ lockAccepted' = lockAccepted \cup {w}
        /\ lockArg' = [lockArg EXCEPT ![t] = NONE]
        /\ UNCHANGED <<holder, lockCur, lockOffered, lockEnded>>
    BY <1>2 DEF Lock!CheckPasses
  <2>2. w \in Works /\ w \in lockOffered /\ w \notin lockAccepted
    BY <2>1
  <2>a. \A u \in Threads : lockCur[u] # w
    BY <2>2
  <2>b. w \in lockAccepted' /\ w \notin lockEnded' /\ \A u \in Threads : lockCur'[u] # w
    BY <2>1, <2>2, <2>a
  <2>3. \A u \in Threads : working[u] # NONE => \A j \in 1..Len(working[u]) : working[u][j] # w
    BY <2>2
  <2>4. LockRunning'
    BY <2>1
  <2>5. CASE working[t] = NONE
    <3>1. working' = [working EXCEPT ![t] = <<w>>] /\ lockPc' = [lockPc EXCEPT ![t] = "acquire"]
      BY <1>2, <2>5 DEF Lock!CheckPasses, Lock!Outermost
    <3>2. <<w>> \in Seq(Works) /\ Len(<<w>>) = 1 /\ <<w>>[1] = w
      BY <2>2
    <3>d. <<w>> # NONE
      BY ONLY <3>2, LockNone, Zenon
    <3>e. working'[t] = <<w>>
      BY ONLY <3>1, t \in Threads, LockTypes DEF LockTypes
    <3>a. working'[t] # NONE
      BY ONLY <3>d, <3>e
    <3>b. LockTypes'
      BY <2>1, <2>2, <3>1, <3>2
    <3>c. LockArgs'
      BY <2>1, <2>2, <3>1
    <3>3. LockTypes' /\ LockArgs'
      BY <3>b, <3>c
    <3>4. LockMutex'
      BY <2>1, <2>5, <3>1, <3>a
    <3>5. LockLists'
      BY <2>1, <2>b, <2>5, <3>1, <3>2
    <3>6. LockOnce'
      BY <2>3, <2>5, <3>1, <3>2
    <3> QED BY <2>4, <3>3, <3>4, <3>5, <3>6
  <2>6. CASE working[t] # NONE
    <3>0. working[t] \in Seq(Works)
      BY <2>6
    <3>1. working' = [working EXCEPT ![t] = Append(working[t], w)] /\ lockPc' = [lockPc EXCEPT ![t] = "free"]
      BY <1>2, <2>6 DEF Lock!CheckPasses, Lock!Outermost
    <3>2. /\ Append(working[t], w) \in Seq(Works)
          /\ Len(Append(working[t], w)) = Len(working[t]) + 1
          /\ \A i \in 1..(Len(working[t]) + 1) :
                Append(working[t], w)[i] = IF i <= Len(working[t]) THEN working[t][i] ELSE w
      BY <2>2, <3>0
    <3>d. Append(working[t], w) # NONE
      BY ONLY <3>2, LockNone, Zenon
    <3>e. working'[t] = Append(working[t], w)
      BY ONLY <3>1, t \in Threads, LockTypes DEF LockTypes
    <3>a. working'[t] # NONE
      BY ONLY <3>d, <3>e
    <3>b. LockTypes'
      BY <2>1, <2>2, <3>1, <3>2
    <3>c. LockArgs'
      BY <2>1, <2>2, <3>1
    <3>3. LockTypes' /\ LockArgs'
      BY <3>b, <3>c
    <3>4. LockMutex'
      BY <2>1, <2>6, <3>1, <3>a
    <3>5. LockLists'
      BY <2>1, <2>b, <2>6, <3>0, <3>1, <3>2
    <3>6. LockOnce'
      BY <2>3, <2>6, <3>0, <3>1, <3>2
    <3> QED BY <2>4, <3>3, <3>4, <3>5, <3>6
  <2> QED BY <2>5, <2>6
<1>3. ASSUME NEW t \in Threads, Lock!Acquire(t) PROVE LockInvariant'
  BY <1>3 DEF Lock!Acquire, Lock!LockFree
<1>4. ASSUME NEW t \in Threads, Lock!CallWork(t) PROVE LockInvariant'
  <2> DEFINE s == working[t]
  <2>1. /\ lockPc[t] = "loop" /\ s # <<>> /\ lockCur' = [lockCur EXCEPT ![t] = Head(s)]
        /\ working' = [working EXCEPT ![t] = Tail(s)] /\ lockPc' = [lockPc EXCEPT ![t] = "free"]
        /\ UNCHANGED <<holder, lockArg, lockOffered, lockAccepted, lockEnded>>
    BY <1>4 DEF Lock!CallWork, Lock!PopWork
  <2>2. holder = t /\ s # NONE /\ s \in Seq(Works)
    BY <2>1
  <2>3. /\ Head(s) = s[1] /\ Head(s) \in Works /\ Tail(s) \in Seq(Works) /\ Len(s) > 0
        /\ Len(Tail(s)) = Len(s) - 1 /\ \A i \in 1..Len(Tail(s)) : Tail(s)[i] = s[i + 1]
    BY <2>1, <2>2
  <2>4. LockWaits(Head(s))
    BY <2>2, <2>3
  <2>5. LockTypes' /\ LockArgs'
    BY <2>1, <2>3
  <2>b. Tail(s) # NONE
    BY ONLY <2>3, LockNone, Zenon
  <2>c. working'[t] = Tail(s)
    BY ONLY <2>1, t \in Threads, LockTypes DEF LockTypes
  <2>a. working'[t] # NONE
    BY ONLY <2>b, <2>c
  <2>6. LockMutex'
    <3>1. lockPc'[t] = "free" /\ holder' = t
      BY <2>1, <2>2
    <3>2. \A u \in Threads \ {t} : /\ lockCur'[u] = lockCur[u] /\ lockPc'[u] = lockPc[u]
                                  /\ working'[u] = working[u]
      BY <2>1
    <3> QED BY <2>2, <2>a, <3>1, <3>2
  <2>7. LockRunning'
    BY <2>1, <2>4
  <2>8. \A u \in Threads : working'[u] # NONE =>
           \A i \in 1..Len(working'[u]) : working'[u][i] # Head(s) /\ LockWaits(working'[u][i])
    BY <2>1, <2>2, <2>3
  <2>9. \A u \in Threads : working'[u] # NONE =>
           \A i \in 1..Len(working'[u]) :
              /\ working'[u][i] \in lockAccepted' /\ working'[u][i] \notin lockEnded'
              /\ \A v \in Threads : lockCur'[v] # working'[u][i]
    BY <2>1, <2>3, <2>8
  <2>10. LockLists'
    BY <2>9
  <2>11. LockOnce'
    BY <2>1, <2>2, <2>3
  <2> QED BY <2>5, <2>6, <2>7, <2>10, <2>11
<1>5. ASSUME NEW t \in Threads, Lock!WorkReturns(t) PROVE LockInvariant'
  BY <1>5 DEF Lock!WorkReturns
<1>6. ASSUME NEW t \in Threads, Lock!WorkRaises(t) PROVE LockInvariant'
  BY <1>6 DEF Lock!WorkRaises, Lock!Release
<1>7. ASSUME NEW t \in Threads, Lock!LoopEnds(t) PROVE LockInvariant'
  BY <1>7 DEF Lock!LoopEnds, Lock!Release
<1>8. ASSUME NEW t \in Threads, Lock!QuitProceeds(t) PROVE LockInvariant'
  BY <1>8 DEF Lock!QuitProceeds, Lock!SetThenForget
<1>9. ASSUME NEW t \in Threads, Lock!Quit(t) PROVE LockInvariant'
  BY <1>9 DEF Lock!Quit
<1>10. ASSUME NEW t \in Threads, NEW w \in Works, Lock!Do(t, w) PROVE LockInvariant'
  BY <1>10 DEF Lock!Do
<1>11. CASE UNCHANGED Lock!vars
  BY <1>11 DEF Lock!vars
<1> QED
  BY <1>1, <1>2, <1>3, <1>4, <1>5, <1>6, <1>7, <1>8, <1>9, <1>10, <1>11 DEF Lock!Next, Lock!Proceed

-------------------------------------------------------------------------------
(***************************************************************************)
(* do() reads self._lock before it checks the flag and quit() sets the     *)
(* flag before it clears self._lock: a thread with no mutex in its hands   *)
(* finds the flag set.                                                     *)
(***************************************************************************)
LockFlags ==
    /\ lockIsSet \in BOOLEAN /\ hasLock \in BOOLEAN /\ saw \in [Threads -> BOOLEAN]
    /\ lockPc \in [Threads -> {"free", "check", "acquire", "loop", "set", "forget"}]

LockSeen ==
    /\ ~hasLock => lockIsSet
    /\ \A t \in Threads : lockPc[t] = "forget" => lockIsSet
    /\ \A t \in Threads : (lockPc[t] = "check" /\ ~saw[t]) => lockIsSet
    /\ Lock!LockIsThere

LEMMA LockSeenStep == LockFlags /\ LockSeen /\ [Lock!Next]_(Lock!vars) => LockFlags' /\ LockSeen'
<1> SUFFICES ASSUME LockFlags, LockSeen, [Lock!Next]_(Lock!vars) PROVE LockFlags' /\ LockSeen'
  OBVIOUS
<1> USE DEF LockFlags, LockSeen, Lock!LockIsThere, Lock!Goto
<1>1. ASSUME NEW t \in Threads, Lock!CheckRaises(t) PROVE LockFlags' /\ LockSeen'
  BY <1>1 DEF Lock!CheckRaises
<1>2. ASSUME NEW t \in Threads, Lock!CheckPasses(t) PROVE LockFlags' /\ LockSeen'
  BY <1>2 DEF Lock!CheckPasses
<1>3. ASSUME NEW t \in Threads, Lock!Acquire(t) PROVE LockFlags' /\ LockSeen'
  BY <1>3 DEF Lock!Acquire
<1>4. ASSUME NEW t \in Threads, Lock!CallWork(t) PROVE LockFlags' /\ LockSeen'
  BY <1>4 DEF Lock!CallWork
<1>5. ASSUME NEW t \in Threads, Lock!WorkReturns(t) PROVE LockFlags' /\ LockSeen'
  BY <1>5 DEF Lock!WorkReturns
<1>6. ASSUME NEW t \in Threads, Lock!WorkRaises(t) PROVE LockFlags' /\ LockSeen'
  BY <1>6 DEF Lock!WorkRaises, Lock!Release
<1>7. ASSUME NEW t \in Threads, Lock!LoopEnds(t) PROVE LockFlags' /\ LockSeen'
  BY <1>7 DEF Lock!LoopEnds, Lock!Release
<1>8. ASSUME NEW t \in Threads, Lock!QuitProceeds(t) PROVE LockFlags' /\ LockSeen'
  BY <1>8 DEF Lock!QuitProceeds, Lock!SetThenForget
<1>9. ASSUME NEW t \in Threads, Lock!Quit(t) PROVE LockFlags' /\ LockSeen'
  BY <1>9 DEF Lock!Quit
<1>10. ASSUME NEW t \in Threads, NEW w \in Works, Lock!Do(t, w) PROVE LockFlags' /\ LockSeen'
  BY <1>10 DEF Lock!Do
<1>11. CASE UNCHANGED Lock!vars
  BY <1>11 DEF Lock!vars
<1> QED
  BY <1>1, <1>2, <1>3, <1>4, <1>5, <1>6, <1>7, <1>8, <1>9, <1>10, <1>11 DEF Lock!Next, Lock!Proceed

LEMMA LockSeenInit == Lock!Init => LockFlags /\ LockSeen
BY DEF Lock!Init, LockFlags, LockSeen, Lock!LockIsThere

(***************************************************************************)
(* A thread that has passed the check of LockWorker.do has the mutex to    *)
(* acquire, and never None, whenever another thread calls quit().          *)
(***************************************************************************)
THEOREM LockIsAlwaysThere == Lock!Spec => []Lock!LockIsThere
<1>1. LockSeen => Lock!LockIsThere
  BY DEF LockSeen
<1> QED BY <1>1, LockSeenInit, LockSeenStep, PTL DEF Lock!Spec

-------------------------------------------------------------------------------
LockNow == {lockCur[t] : t \in Threads} \ {NONE}

LockAbstractStep ==
    Lock!Abstract!Next \/ UNCHANGED <<lockAccepted, LockNow, lockEnded, lockIsSet>>

\* Only the thread that holds the mutex runs anything.
LEMMA LockOneRuns ==
    ASSUME LockInvariant, NEW t \in Threads, holder = t
    PROVE  LockNow = {lockCur[t]} \ {NONE}
BY WorkerParameters DEF LockNow, LockInvariant, LockMutex, LockTypes, Lock!LockWorkerAssumption

LEMMA LockRefines ==
    LockFlags /\ LockInvariant /\ LockInvariant' /\ [Lock!Next]_(Lock!vars) => LockAbstractStep
<1> SUFFICES ASSUME LockFlags, LockInvariant, LockInvariant', [Lock!Next]_(Lock!vars)
             PROVE  LockAbstractStep
  OBVIOUS
<1> USE WorkerParameters DEF Lock!LockWorkerAssumption, LockAbstractStep
<1>1. ASSUME NEW t \in Threads, Lock!CheckRaises(t) PROVE LockAbstractStep
  BY <1>1 DEF Lock!CheckRaises, LockNow
<1>2. ASSUME NEW t \in Threads, Lock!CheckPasses(t) PROVE LockAbstractStep
  <2>1. /\ lockPc[t] = "check" /\ ~lockIsSet /\ lockAccepted' = lockAccepted \cup {lockArg[t]}
        /\ UNCHANGED <<lockCur, lockEnded, lockIsSet>>
    BY <1>2 DEF Lock!CheckPasses
  <2>2. lockArg[t] \in Works /\ lockArg[t] \notin lockAccepted
    BY <2>1 DEF LockInvariant, LockTypes, LockArgs
  <2>3. Lock!Abstract!Accept(lockArg[t])
    BY <2>1, <2>2 DEF Lock!Abstract!Accept
  <2> QED BY <2>2, <2>3 DEF Lock!Abstract!Next
<1>3. ASSUME NEW t \in Threads, Lock!Acquire(t) PROVE LockAbstractStep
  BY <1>3 DEF Lock!Acquire, LockNow
<1>4. ASSUME NEW t \in Threads, Lock!CallWork(t) PROVE LockAbstractStep
  <2>1. /\ lockPc[t] = "loop" /\ working[t] # <<>> /\ lockCur' = [lockCur EXCEPT ![t] = Head(working[t])]
        /\ UNCHANGED <<holder, lockAccepted, lockEnded, lockIsSet>>
    BY <1>4 DEF Lock!CallWork
  <2>2. holder = t /\ lockCur[t] = NONE /\ working[t] # NONE
    BY <2>1 DEF LockInvariant, LockMutex
  <2>3. working[t] \in Seq(Works)
    BY <2>2 DEF LockInvariant, LockTypes
  <2>4. Head(working[t]) \in Works /\ Len(working[t]) > 0 /\ Head(working[t]) = working[t][1]
    BY <2>1, <2>3
  <2>5. Head(working[t]) \in lockAccepted \ lockEnded
    BY <2>2, <2>4 DEF LockInvariant, LockLists, LockWaits
  <2>6. LockNow = {}
    BY <2>2, LockOneRuns
  <2>7. LockNow' = {Head(working[t])}
    <3>1. LockNow' = {lockCur'[t]} \ {NONE}
      BY <2>1, <2>2 DEF LockNow, LockInvariant, LockMutex, LockTypes
    <3>2. lockCur'[t] = Head(working[t])
      BY <2>1 DEF LockInvariant, LockTypes
    <3> QED BY <2>4, <3>1, <3>2
  <2>8. PICK w \in Works : w = Head(working[t])
    BY <2>4
  <2>9. Lock!Abstract!Begin(w)
    BY <2>1, <2>5, <2>6, <2>7, <2>8 DEF Lock!Abstract!Begin, LockNow
  <2> QED BY <2>9 DEF Lock!Abstract!Next
<1>5. ASSUME NEW t \in Threads, Lock!WorkReturns(t) \/ Lock!WorkRaises(t) PROVE LockAbstractStep
  <2>1. /\ lockCur[t] # NONE /\ lockCur' = [lockCur EXCEPT ![t] = NONE]
        /\ lockEnded' = lockEnded \cup {lockCur[t]} /\ UNCHANGED <<lockAccepted, lockIsSet>>
    BY <1>5 DEF Lock!WorkReturns, Lock!WorkRaises
  <2>2. holder = t /\ lockCur[t] \in Works
    BY <2>1 DEF LockInvariant, LockMutex, LockTypes
  <2>3. LockNow = {lockCur[t]}
    BY <2>1, <2>2, LockOneRuns
  <2>4. LockNow' = {}
    BY <2>1, <2>2 DEF LockNow, LockInvariant, LockMutex, LockTypes
  <2>5. PICK w \in Works : w = lockCur[t]
    BY <2>2
  <2>6. Lock!Abstract!End(w)
    BY <2>1, <2>3, <2>4, <2>5 DEF Lock!Abstract!End, LockNow
  <2> QED BY <2>6 DEF Lock!Abstract!Next
<1>6. ASSUME NEW t \in Threads, Lock!LoopEnds(t) PROVE LockAbstractStep
  BY <1>6 DEF Lock!LoopEnds, LockNow
<1>7. ASSUME NEW t \in Threads, Lock!QuitProceeds(t) PROVE LockAbstractStep
  <2>1. UNCHANGED <<lockCur, lockAccepted, lockEnded>> /\ (lockIsSet' = lockIsSet \/ lockIsSet' = TRUE)
    BY <1>7 DEF Lock!QuitProceeds, Lock!SetThenForget
  <2>2. lockIsSet \in BOOLEAN
    BY DEF LockFlags
  <2>3. CASE lockIsSet' = lockIsSet
    BY <2>1, <2>3 DEF LockNow
  <2>4. CASE ~lockIsSet /\ lockIsSet' = TRUE
    BY <2>1, <2>4 DEF Lock!Abstract!Close, Lock!Abstract!Next
  <2> QED BY <2>1, <2>2, <2>3, <2>4
<1>8. ASSUME NEW t \in Threads, Lock!Quit(t) PROVE LockAbstractStep
  BY <1>8 DEF Lock!Quit, LockNow
<1>9. ASSUME NEW t \in Threads, NEW w \in Works, Lock!Do(t, w) PROVE LockAbstractStep
  BY <1>9 DEF Lock!Do, LockNow
<1>10. CASE UNCHANGED Lock!vars
  BY <1>10 DEF Lock!vars, LockNow
<1> QED
  BY <1>1, <1>2, <1>3, <1>4, <1>5, <1>6, <1>7, <1>8, <1>9, <1>10 DEF Lock!Next, Lock!Proceed

LEMMA LockWorkerImplements == Lock!Spec => Lock!Implements
<1>1. Lock!Spec => []LockInvariant
  BY LockInit, LockStep, PTL DEF Lock!Spec
<1>2. Lock!Init => Lock!Abstract!Init
  <2> SUFFICES ASSUME Lock!Init PROVE LockNow = {}
    BY DEF Lock!Init, Lock!Abstract!Init, LockNow
  <2> QED BY DEF Lock!Init, LockNow
<1>4. Lock!Spec => []LockFlags
  BY LockSeenInit, LockSeenStep, PTL DEF Lock!Spec
<1>3. LockFlags /\ LockInvariant /\ LockInvariant' /\ [Lock!Next]_(Lock!vars)
         => [Lock!Abstract!Next]_<<lockAccepted, LockNow, lockEnded, lockIsSet>>
  BY LockRefines DEF LockAbstractStep
<1> QED
  BY <1>1, <1>2, <1>3, <1>4, PTL DEF Lock!Spec, Lock!Implements, Lock!Abstract!Spec, LockNow

(***************************************************************************)
(* ThreadWorker and LockWorker do what IExclusiveWorker promises, however  *)
(* the threads that call do() and quit() interleave and however do() is    *)
(* nested: work runs one piece at a time, each once at most, and only work *)
(* that was accepted before quit().                                        *)
(***************************************************************************)
THEOREM WorkersAreExclusive == Worker!Spec /\ Lock!Spec => WorkersImplement
BY ThreadWorkerImplements, LockWorkerImplements, PTL DEF WorkersImplement

-------------------------------------------------------------------------------
(***************************************************************************)
(* ThreadPool.  Where the threads of the workers are tells what is in      *)
(* their queues, who is idle and who is busy; a task is in one place; and  *)
(* while there is a backlog somebody is on the way to it.                  *)
(***************************************************************************)
PoolLabels == {"free", "tooMany", "shrinkBy", "shrinkExcess", "tooFew", "growBy", "grow",
               "shrink", "backlog", "quit", "join"}

PoolTypes ==
    /\ pending \in Seq(Tasks) /\ idle \subseteq Workers /\ lock \in Workers \cup {NONE, "caller"}
    /\ thread \in [Workers -> {"none", "get", "task", "report", "wait", "decrement", "add",
                               "recycle", "dispatch", "dead"}]
    /\ task \in [Workers -> Tasks \cup {NONE}]
    /\ taskQueue \in [Workers -> {<<>>, <<"stop">>} \cup {<<t>> : t \in Tasks}]
    /\ workerQuit \in [Workers -> BOOLEAN]
    /\ poolPc \in PoolLabels /\ then \in {"free", "backlog"}
    /\ size \in Sizes \cup {InitialSize} /\ n \in Int /\ seen \in Int /\ busyCount \in Nat

\* What is in a worker's queue: nothing, a task or the marker that ends the thread.
PoolEmpty(w) == taskQueue[w] = <<>>

PoolHas(w, t) == taskQueue[w] = <<t>>

PoolStops(w) == taskQueue[w] = <<"stop">>

PoolHolds(w) == thread[w] \in {"decrement", "add", "recycle", "dispatch"}

PoolWaits(w) == thread[w] = "get" /\ PoolEmpty(w)

PoolThreads ==
    \A w \in Workers :
        /\ PoolHolds(w) <=> lock = w
        /\ thread[w] # "get" => PoolEmpty(w)
        /\ workerQuit[w] <=> (thread[w] = "dead" \/ PoolStops(w))
        /\ w \in idle <=> (thread[w] = "recycle" \/ PoolWaits(w))
        /\ task[w] # NONE <=> thread[w] \in {"task", "dispatch"}
        /\ thread[w] = "dispatch" => picked = w

PoolBusy ==
    {w \in Workers : \/ thread[w] \in {"task", "report", "wait", "decrement"}
                     \/ \E t \in Tasks : PoolHas(w, t)}

PoolCounts == IsFiniteSet(idle) /\ IsFiniteSet(PoolBusy) /\ busyCount = Cardinality(PoolBusy)

PoolUnused == \A w \in Workers : thread[w] = "none"

PoolReturning == \E w \in Workers : w \in PoolBusy \/ PoolHolds(w)

\* start() has not come to the backlog yet, or is creating a worker for each task of it.
PoolStarting ==
    \/ poolPc \in {"tooMany", "shrinkBy", "shrinkExcess", "tooFew", "growBy", "grow"}
       /\ then = "backlog"
    \/ poolPc = "backlog"
    \/ poolPc = "grow" /\ n >= Len(pending)

PoolBacklog ==
    /\ pending # <<>> => \A w \in idle : thread[w] = "recycle"
    /\ Pool!CanRunTasks /\ pending # <<>> => PoolUnused \/ PoolReturning
    /\ Pool!CanRunTasks /\ pending # <<>> /\ PoolUnused /\ started /\ ~teamQuit => PoolStarting

PoolQuits ==
    /\ (~started /\ ~teamQuit) => (poolPc = "quit" \/ PoolUnused)
    /\ poolPc = "quit" => ~teamQuit
    /\ poolPc = "join" => teamQuit
    /\ lock = "caller" => poolPc = "grow" /\ ~teamQuit
    /\ shouldQuit <=> teamQuit
    /\ coordinatorQuit => teamQuit /\ ~PoolReturning
    /\ (teamQuit /\ poolPc # "join") => \A w \in Workers : thread[w] \in {"none", "dead"}

\* A task that has not ended is in one place only: the backlog, a queue or a thread's hands.
PoolPlaces ==
    /\ \A i, j \in 1..Len(pending) : pending[i] = pending[j] => i = j
    /\ \A i \in 1..Len(pending) : \A w \in Workers :
          ~PoolHas(w, pending[i]) /\ task[w] # pending[i]
    /\ \A v, w \in Workers : \A t \in Tasks :
          /\ (PoolHas(v, t) /\ PoolHas(w, t)) => v = w
          /\ ~(PoolHas(v, t) /\ task[w] = t)
          /\ (task[v] = t /\ task[w] = t) => v = w

PoolFresh ==
    /\ begun \in [Tasks -> 0..1] /\ accepted \subseteq Tasks /\ ended \subseteq accepted
    /\ \A i \in 1..Len(pending) : begun[pending[i]] = 0 /\ pending[i] \in accepted
    /\ \A w \in Workers : \A t \in Tasks :
          /\ PoolHas(w, t) => begun[t] = 0 /\ t \in accepted
          /\ task[w] = t => t \in accepted
          /\ (task[w] = t /\ thread[w] = "dispatch") => begun[t] = 0
    /\ \A t \in Tasks : t \notin accepted => begun[t] = 0

PoolAccounted ==
    \A t \in accepted : \/ t \in ended
                        \/ \E i \in 1..Len(pending) : pending[i] = t
                        \/ \E w \in Workers : PoolHas(w, t) \/ task[w] = t

PoolTasks == PoolPlaces /\ PoolFresh /\ PoolAccounted

PoolInvariant ==
    PoolTypes /\ PoolThreads /\ PoolCounts /\ PoolBacklog /\ PoolQuits /\ PoolTasks

PoolQueues == {<<>>, <<"stop">>} \cup {<<t>> : t \in Tasks}

LEMMA PoolConstants ==
    /\ "stop" \notin Tasks /\ "caller" \notin Workers
    /\ NONE \notin Workers /\ NONE \notin Tasks /\ NONE # "caller"
    /\ \A s \in Sizes \cup {InitialSize} : s[1] \in Nat /\ s[2] \in Nat
BY PoolParameters DEF Pool!ThreadPoolAssumption

LEMMA OneElement ==
    ASSUME NEW t
    PROVE  /\ <<t>> # <<>> /\ Append(<<>>, t) = <<t>> /\ Head(<<t>>) = t /\ Tail(<<t>>) = <<>>
           /\ \A u : <<t>> = <<u>> => t = u
OBVIOUS

LEMMA PoolQueue ==
    ASSUME PoolTypes, NEW w \in Workers
    PROVE  /\ PoolEmpty(w) \/ PoolStops(w) \/ \E t \in Tasks : PoolHas(w, t)
           /\ ~(PoolEmpty(w) /\ PoolStops(w))
           /\ \A t \in Tasks : ~(PoolHas(w, t) /\ (PoolEmpty(w) \/ PoolStops(w)))
           /\ \A t, u \in Tasks : PoolHas(w, t) /\ PoolHas(w, u) => t = u
<1>1. PoolEmpty(w) \/ PoolStops(w) \/ \E t \in Tasks : PoolHas(w, t)
  BY DEF PoolTypes, PoolEmpty, PoolStops, PoolHas
<1>2. ~(PoolEmpty(w) /\ PoolStops(w))
  BY OneElement DEF PoolEmpty, PoolStops
<1>3. \A t \in Tasks : ~(PoolHas(w, t) /\ (PoolEmpty(w) \/ PoolStops(w)))
  BY PoolConstants, OneElement DEF PoolEmpty, PoolStops, PoolHas
<1>4. \A t, u \in Tasks : PoolHas(w, t) /\ PoolHas(w, u) => t = u
  BY OneElement DEF PoolHas
<1> QED BY <1>1, <1>2, <1>3, <1>4

\* A worker's queue is set: what holds of it and of the others' queues then.
LEMMA PoolQueueSet ==
    ASSUME PoolTypes, NEW w \in Workers, NEW x \in PoolQueues,
           taskQueue' = [taskQueue EXCEPT ![w] = x]
    PROVE  /\ taskQueue' \in [Workers -> PoolQueues] /\ taskQueue'[w] = x
           /\ \A v \in Workers \ {w} : taskQueue'[v] = taskQueue[v]
BY DEF PoolTypes, PoolQueues

LEMMA PoolTasksKept ==
    ASSUME PoolTasks, UNCHANGED <<pending, task, accepted, begun, ended>>,
           \A w \in Workers : \A t \in Tasks : PoolHas(w, t)' <=> PoolHas(w, t),
           \A w \in Workers : thread'[w] = "dispatch" => thread[w] = "dispatch",
           pending \in Seq(Tasks)
    PROVE  PoolTasks'
<1>1. \A i \in 1..Len(pending) : pending[i] \in Tasks
  OBVIOUS
<1>2. PoolPlaces'
  BY <1>1 DEF PoolTasks, PoolPlaces
<1>3. PoolFresh'
  BY DEF PoolTasks, PoolFresh
<1>4. PoolAccounted'
  BY DEF PoolTasks, PoolFresh, PoolAccounted
<1> QED BY <1>2, <1>3, <1>4 DEF PoolTasks

LEMMA PoolInit == Pool!Init => PoolInvariant
<1> SUFFICES ASSUME Pool!Init PROVE PoolInvariant
  OBVIOUS
<1>1. PoolTypes
  BY DEF Pool!Init, PoolTypes, PoolLabels
<1>2. PoolThreads
  BY PoolConstants DEF Pool!Init, PoolThreads, PoolHolds, PoolWaits, PoolEmpty, PoolStops
<1>3. PoolCounts
  <2>1. \A w \in Workers : \A t \in Tasks : ~PoolHas(w, t)
    BY OneElement DEF Pool!Init, PoolHas
  <2>2. PoolBusy = {}
    BY <2>1 DEF Pool!Init, PoolBusy
  <2> QED BY <2>2, FS_EmptySet DEF Pool!Init, PoolCounts
<1>4. PoolBacklog
  BY DEF Pool!Init, PoolBacklog
<1>5. PoolQuits
  <2>1. /\ ~teamQuit /\ ~shouldQuit /\ ~coordinatorQuit /\ poolPc = "free" /\ lock = NONE
        /\ PoolUnused
    BY DEF Pool!Init, PoolUnused
  <2> QED BY <2>1, PoolConstants DEF PoolQuits
<1>6. PoolTasks
  BY PoolConstants, OneElement DEF Pool!Init, PoolTasks, PoolPlaces, PoolFresh, PoolAccounted, PoolHas
<1> QED BY <1>1, <1>2, <1>3, <1>4, <1>5, <1>6 DEF PoolInvariant

LEMMA PoolCardinality == ASSUME NEW S PROVE Pool!Cardinality(S) = Cardinality(S)
BY DEF Pool!Cardinality, Cardinality

-------------------------------------------------------------------------------
\* The calling thread's own steps: the workers and the tasks stay where they are.
PoolWorkersKept == UNCHANGED <<pending, idle, thread, task, picked, taskQueue, workerQuit,
                               busyCount, accepted, begun, ended>>

LEMMA PoolKept ==
    ASSUME PoolInvariant, PoolWorkersKept,
           lock' = lock \/ (lock = "caller" /\ lock' = NONE)
    PROVE  /\ PoolThreads' /\ PoolCounts' /\ PoolTasks'
           /\ PoolUnused' <=> PoolUnused
           /\ PoolReturning' <=> PoolReturning
<1> USE DEF PoolInvariant, PoolWorkersKept
<1>1. \A w \in Workers : lock' = w <=> lock = w
  BY PoolConstants
<1>2. PoolThreads'
  BY <1>1 DEF PoolThreads, PoolHolds, PoolWaits, PoolEmpty, PoolStops
<1>3. PoolBusy' = PoolBusy
  BY DEF PoolBusy, PoolHas
<1>4. PoolCounts'
  BY <1>3 DEF PoolCounts
<1>5. PoolTasks'
  BY PoolTasksKept DEF PoolHas, PoolTypes
<1>6. (PoolUnused' <=> PoolUnused) /\ (PoolReturning' <=> PoolReturning)
  BY <1>3 DEF PoolUnused, PoolReturning, PoolHolds
<1> QED BY <1>2, <1>4, <1>5, <1>6

LEMMA PoolReads ==
    ASSUME PoolInvariant,
           Pool!ReadIdle \/ Pool!CheckMax \/ Pool!ExcessOverMax \/ Pool!CheckMin \/ Pool!ShortOfMin
    PROVE  PoolInvariant'
<1>1. /\ PoolWorkersKept /\ lock' = lock
      /\ UNCHANGED <<started, size, teamQuit, shouldQuit, coordinatorQuit, then>>
  BY DEF Pool!ReadIdle, Pool!CheckMax, Pool!ExcessOverMax, Pool!CheckMin, Pool!ShortOfMin,
         Pool!ReadBusy, Pool!pool, Pool!team, Pool!workers, Pool!history, PoolWorkersKept
<1>2. /\ poolPc \in {"tooMany", "shrinkBy", "tooFew", "growBy"}
      /\ \/ poolPc' \in {"tooMany", "shrinkBy", "shrinkExcess", "tooFew", "growBy", "grow"}
         \/ poolPc = "tooFew" /\ poolPc' = then
  BY DEF Pool!ReadIdle, Pool!CheckMax, Pool!ExcessOverMax, Pool!CheckMin, Pool!ShortOfMin,
         Pool!ReadBusy, Pool!Goto
<1>3. n' \in Int /\ seen' \in Int
  <2>1. seen \in Int /\ busyCount \in Int /\ size[1] \in Int /\ size[2] \in Int /\ n \in Int
    BY PoolConstants DEF PoolInvariant, PoolTypes
  <2>2. IsFiniteSet(idle)
    BY DEF PoolInvariant, PoolCounts
  <2>3. Pool!Cardinality(idle) \in Int
    BY <2>2, FS_CardinalityType, PoolCardinality
  <2> QED BY <2>1, <2>3 DEF Pool!ReadIdle, Pool!CheckMax, Pool!ExcessOverMax, Pool!CheckMin,
             Pool!ShortOfMin, Pool!ReadBusy, Pool!Count
<1>4. then \in {"free", "backlog"}
  BY DEF PoolInvariant, PoolTypes
<1>5. PoolTypes'
  BY <1>1, <1>2, <1>3, <1>4 DEF PoolInvariant, PoolTypes, PoolWorkersKept, PoolLabels
<1>6. /\ PoolThreads' /\ PoolCounts' /\ PoolTasks'
      /\ PoolUnused' <=> PoolUnused
      /\ PoolReturning' <=> PoolReturning
  BY <1>1, PoolKept
<1>7. PoolStarting => PoolStarting'
  BY <1>1, <1>2, <1>4 DEF PoolStarting
<1>8. PoolBacklog'
  BY <1>1, <1>6, <1>7 DEF PoolInvariant, PoolBacklog, PoolWorkersKept
<1>9. PoolQuits'
  BY <1>1, <1>2, <1>4, <1>6 DEF PoolInvariant, PoolQuits, PoolWorkersKept
<1> QED BY <1>5, <1>6, <1>8, <1>9 DEF PoolInvariant

LEMMA PoolCalls ==
    ASSUME PoolInvariant,
           \/ Pool!Start \/ Pool!StartAWorker \/ Pool!StopAWorker
           \/ \E s \in Sizes : Pool!AdjustPoolsize(s)
    PROVE  PoolInvariant'
<1>1. /\ PoolWorkersKept /\ lock' = lock /\ poolPc = "free"
      /\ UNCHANGED <<teamQuit, shouldQuit, coordinatorQuit, seen>>
  BY DEF Pool!Start, Pool!AdjustPoolsize, Pool!StartAWorker, Pool!StopAWorker, Pool!Call,
         Pool!team, Pool!workers, Pool!history, PoolWorkersKept
<1>2. /\ poolPc' \in {"tooMany", "free", "grow", "shrink"} /\ then' \in {"free", "backlog"}
      /\ n' \in {n, 1} /\ size' \in Sizes \cup {size}
      /\ started' => \/ started
                     \/ poolPc' = "tooMany" /\ then' = "backlog"
      /\ started => started'
  BY DEF Pool!Start, Pool!AdjustPoolsize, Pool!StartAWorker, Pool!StopAWorker, Pool!Call,
         Pool!pool, Pool!Goto
<1>3. PoolTypes'
  BY <1>1, <1>2 DEF PoolInvariant, PoolTypes, PoolWorkersKept, PoolLabels
<1>4. /\ PoolThreads' /\ PoolCounts' /\ PoolTasks'
      /\ PoolUnused' <=> PoolUnused
      /\ PoolReturning' <=> PoolReturning
  BY <1>1, PoolKept
<1>5. started' /\ ~started => PoolStarting'
  BY <1>2 DEF PoolStarting
<1>6. PoolBacklog'
  <2>1. ~PoolStarting
    BY <1>1 DEF PoolStarting
  <2> QED BY <1>1, <1>4, <1>5, <2>1 DEF PoolInvariant, PoolBacklog, PoolWorkersKept
<1>7. PoolQuits'
  BY <1>1, <1>2, <1>4 DEF PoolInvariant, PoolQuits, PoolWorkersKept
<1> QED BY <1>3, <1>4, <1>6, <1>7 DEF PoolInvariant

LEMMA PoolStop == ASSUME PoolInvariant, Pool!Stop PROVE PoolInvariant'
<1>1. /\ PoolWorkersKept /\ lock' = lock /\ poolPc = "free"
      /\ UNCHANGED <<teamQuit, shouldQuit, coordinatorQuit, seen, n, size>>
      /\ then' = "free" /\ started' = FALSE
      /\ poolPc' = IF teamQuit THEN "free" ELSE "quit"
  BY DEF Pool!Stop, Pool!Call, Pool!Goto, Pool!team, Pool!workers, Pool!history, PoolWorkersKept
<1>2. PoolTypes'
  BY <1>1 DEF PoolInvariant, PoolTypes, PoolWorkersKept, PoolLabels
<1>3. /\ PoolThreads' /\ PoolCounts' /\ PoolTasks'
      /\ PoolUnused' <=> PoolUnused
      /\ PoolReturning' <=> PoolReturning
  BY <1>1, PoolKept
<1>4. PoolBacklog'
  BY <1>1, <1>3 DEF PoolInvariant, PoolBacklog, PoolWorkersKept
<1>5. PoolQuits'
  BY <1>1, <1>3 DEF PoolInvariant, PoolQuits, PoolWorkersKept
<1> QED BY <1>2, <1>3, <1>4, <1>5 DEF PoolInvariant

LEMMA PoolStartsBacklog == ASSUME PoolInvariant, Pool!Backlog PROVE PoolInvariant'
<1>1. /\ PoolWorkersKept /\ lock' = lock /\ poolPc = "backlog"
      /\ UNCHANGED <<teamQuit, shouldQuit, coordinatorQuit, seen, size, started>>
      /\ then' = "free" /\ n' = Len(pending)
      /\ poolPc' = IF pending = <<>> THEN "free" ELSE "grow"
  BY DEF Pool!Backlog, Pool!Goto, Pool!pool, Pool!team, Pool!workers, Pool!history, PoolWorkersKept
<1>2. Len(pending) \in Nat
  BY DEF PoolInvariant, PoolTypes
<1>3. PoolTypes'
  BY <1>1, <1>2 DEF PoolInvariant, PoolTypes, PoolWorkersKept, PoolLabels
<1>4. /\ PoolThreads' /\ PoolCounts' /\ PoolTasks'
      /\ PoolUnused' <=> PoolUnused
      /\ PoolReturning' <=> PoolReturning
  BY <1>1, PoolKept
<1>5. pending # <<>> => PoolStarting'
  BY <1>1, <1>2 DEF PoolStarting, PoolWorkersKept
<1>6. PoolBacklog'
  BY <1>1, <1>4, <1>5 DEF PoolInvariant, PoolBacklog, PoolWorkersKept
<1>7. PoolQuits'
  BY <1>1, <1>4 DEF PoolInvariant, PoolQuits, PoolWorkersKept
<1> QED BY <1>3, <1>4, <1>6, <1>7 DEF PoolInvariant

LEMMA PoolRefused == ASSUME PoolInvariant, Pool!Refused \/ Pool!Join PROVE PoolInvariant'
<1>1. /\ PoolWorkersKept /\ lock' = lock /\ poolPc \in {"grow", "shrink", "shrinkExcess", "join"}
      /\ UNCHANGED <<teamQuit, shouldQuit, coordinatorQuit, seen, size, started, then, n>>
      /\ poolPc' = "free"
  BY DEF Pool!Refused, Pool!Join, Pool!Goto, Pool!pool, Pool!team, Pool!workers, Pool!history,
         PoolWorkersKept
<1>2. teamQuit
  BY DEF Pool!Refused, Pool!Join, PoolInvariant, PoolQuits
<1>3. \A w \in Workers : thread[w] \in {"none", "dead"}
  <2>1. CASE Pool!Refused
    BY <1>2, <2>1 DEF Pool!Refused, PoolInvariant, PoolQuits
  <2>2. CASE Pool!Join
    BY <2>2 DEF Pool!Join, Pool!Ended, PoolInvariant, PoolTypes
  <2> QED BY <2>1, <2>2
<1>4. PoolTypes'
  BY <1>1 DEF PoolInvariant, PoolTypes, PoolWorkersKept, PoolLabels
<1>5. /\ PoolThreads' /\ PoolCounts' /\ PoolTasks'
      /\ PoolUnused' <=> PoolUnused
      /\ PoolReturning' <=> PoolReturning
  BY <1>1, PoolKept
<1>6. PoolBacklog'
  BY <1>1, <1>2, <1>5 DEF PoolInvariant, PoolBacklog, PoolWorkersKept
<1>7. PoolQuits'
  BY <1>1, <1>2, <1>3, <1>5 DEF PoolInvariant, PoolQuits, PoolWorkersKept
<1> QED BY <1>4, <1>5, <1>6, <1>7 DEF PoolInvariant

\* The loop of grow() ends.  If nobody has been created for the backlog, there is none.
LEMMA PoolGrowEnds == ASSUME PoolInvariant, Pool!GrowEnds PROVE PoolInvariant'
<1>1. /\ PoolWorkersKept /\ lock \in {NONE, "caller"} /\ lock' = NONE /\ poolPc = "grow" /\ ~teamQuit
      /\ UNCHANGED <<teamQuit, shouldQuit, coordinatorQuit, seen, size, started, then>>
      /\ n' = 0 /\ poolPc' = then
  BY DEF Pool!GrowEnds, Pool!Growing, Pool!Goto, Pool!pool, Pool!team, Pool!workers, Pool!history,
         PoolWorkersKept
<1>2. PoolTypes'
  BY <1>1 DEF PoolInvariant, PoolTypes, PoolWorkersKept, PoolLabels
<1>3. /\ PoolThreads' /\ PoolCounts' /\ PoolTasks'
      /\ PoolUnused' <=> PoolUnused
      /\ PoolReturning' <=> PoolReturning
  BY <1>1, PoolKept
<1>4. ASSUME Pool!CanRunTasks, pending # <<>>, PoolUnused, started, then # "backlog",
             n >= Len(pending)
      PROVE  FALSE
  <2>1. Len(pending) \in Nat /\ Len(pending) > 0 /\ n \in Int
    BY <1>4 DEF PoolInvariant, PoolTypes
  <2>2. ~Pool!MayCreate
    BY <1>4, <2>1 DEF Pool!GrowEnds
  <2>3. size[2] \in Nat /\ size[2] > 0
    BY <1>4, PoolConstants DEF PoolInvariant, PoolTypes, Pool!CanRunTasks
  <2>4. idle = {} /\ \A w \in Workers : \A t \in Tasks : ~PoolHas(w, t)
    BY <1>4, PoolQueue DEF PoolInvariant, PoolTypes, PoolThreads, PoolUnused, PoolWaits
  <2>5. PoolBusy = {}
    BY <1>4, <2>4 DEF PoolBusy, PoolUnused
  <2>6. busyCount = 0 /\ Pool!Cardinality(idle) = 0
    BY <2>4, <2>5, FS_EmptySet, PoolCardinality DEF PoolInvariant, PoolCounts
  <2> QED BY <1>4, <2>2, <2>3, <2>6 DEF Pool!MayCreate, Pool!CurrentLimit
<1>5. PoolBacklog'
  <2>1. ASSUME Pool!CanRunTasks, pending # <<>>, PoolUnused, started PROVE PoolStarting'
    <3>1. PoolStarting
      BY <1>1, <2>1 DEF PoolInvariant, PoolBacklog
    <3>2. then = "backlog"
      BY <1>1, <1>4, <2>1, <3>1 DEF PoolStarting
    <3> QED BY <1>1, <3>2 DEF PoolStarting
  <2> QED BY <1>1, <1>3, <2>1 DEF PoolInvariant, PoolBacklog, PoolWorkersKept
<1>6. PoolQuits'
  BY <1>1, <1>3, PoolConstants DEF PoolInvariant, PoolQuits, PoolTypes, PoolWorkersKept
<1> QED BY <1>2, <1>3, <1>5, <1>6 DEF PoolInvariant

-------------------------------------------------------------------------------
\* The coordinator leaves its critical section, in which it may have put the stop
\* marker into the queues of the idle workers W.
PoolMarked(W) ==
    /\ taskQueue' \in [Workers -> PoolQueues] /\ workerQuit' \in [Workers -> BOOLEAN]
    /\ \A w \in W : PoolStops(w)' /\ workerQuit'[w]
    /\ \A w \in Workers \ W : taskQueue'[w] = taskQueue[w] /\ workerQuit'[w] = workerQuit[w]

LEMMA PoolIdle ==
    ASSUME PoolInvariant, NEW w \in idle
    PROVE  w \in Workers /\ PoolEmpty(w) /\ ~workerQuit[w] /\ thread[w] \in {"recycle", "get"}
           /\ w \notin PoolBusy
<1>1. w \in Workers
  BY DEF PoolInvariant, PoolTypes
<1>2. PoolEmpty(w) /\ thread[w] \in {"recycle", "get"}
  BY <1>1 DEF PoolInvariant, PoolThreads, PoolWaits
<1>3. ~PoolStops(w) /\ \A t \in Tasks : ~PoolHas(w, t)
  BY <1>1, <1>2, PoolQueue DEF PoolInvariant
<1> QED BY <1>1, <1>2, <1>3 DEF PoolInvariant, PoolThreads, PoolBusy

LEMMA PoolQuitWorkers ==
    ASSUME PoolInvariant, NEW W \in SUBSET idle, Pool!QuitWorkers(W)
    PROVE  PoolMarked(W)
<1>0. W \subseteq Workers
  BY DEF PoolInvariant, PoolTypes
<1>1. /\ workerQuit' = [w \in Workers |-> w \in W \/ workerQuit[w]]
      /\ taskQueue' = [w \in Workers |-> IF w \in W THEN Append(taskQueue[w], "stop")
                                                    ELSE taskQueue[w]]
  BY DEF Pool!QuitWorkers
<1>2. ASSUME NEW w \in W PROVE taskQueue'[w] = <<"stop">> /\ workerQuit'[w]
  <2>1. taskQueue[w] = <<>>
    BY PoolIdle DEF PoolEmpty
  <2>2. taskQueue'[w] = Append(taskQueue[w], "stop")
    BY <1>0, <1>1
  <2> QED BY <1>0, <1>1, <2>1, <2>2, OneElement
<1>3. ASSUME NEW w \in Workers \ W PROVE taskQueue'[w] = taskQueue[w]
  BY <1>1
<1>4. ASSUME NEW w \in Workers \ W PROVE workerQuit'[w] = workerQuit[w]
  BY <1>1, Zenon DEF PoolInvariant, PoolTypes
<1>5. taskQueue' \in [Workers -> PoolQueues]
  <2>1. \A w \in Workers : taskQueue[w] \in PoolQueues
    BY DEF PoolInvariant, PoolTypes, PoolQueues
  <2>2. <<"stop">> \in PoolQueues
    BY DEF PoolQueues
  <2>3. \A w \in Workers : taskQueue'[w] \in PoolQueues
    BY <1>2, <1>3, <2>1, <2>2
  <2> QED BY ONLY <1>1, <2>3
<1>6. workerQuit' \in [Workers -> BOOLEAN]
  BY <1>1
<1> QED BY <1>2, <1>3, <1>4, <1>5, <1>6 DEF PoolMarked, PoolStops

LEMMA PoolMarks ==
    ASSUME PoolInvariant, NEW W \in SUBSET idle, PoolMarked(W), idle' = idle \ W, lock' = NONE,
           UNCHANGED <<pending, task, picked, busyCount, accepted, begun, ended>>,
           \A w \in Workers : PoolHolds(w) => thread[w] = "recycle",
           thread' = [w \in Workers |-> IF thread[w] = "recycle" THEN "get" ELSE thread[w]]
    PROVE  /\ PoolThreads' /\ PoolCounts' /\ PoolTasks'
           /\ PoolUnused' <=> PoolUnused
           /\ PoolReturning' <=> PoolBusy # {}
           /\ PoolBusy' = PoolBusy
<1>1. \A w \in Workers : \A t \in Tasks : PoolHas(w, t)' <=> PoolHas(w, t)
  <2> SUFFICES ASSUME NEW w \in Workers, NEW t \in Tasks PROVE PoolHas(w, t)' <=> PoolHas(w, t)
    OBVIOUS
  <2>1. CASE w \in W
    <3>1. PoolStops(w)' /\ ~PoolHas(w, t)
      BY <2>1, PoolIdle, PoolQueue DEF PoolMarked, PoolInvariant
    <3>2. <<t>> # <<"stop">>
      BY OneElement, PoolConstants
    <3> QED BY <3>1, <3>2 DEF PoolStops, PoolHas
  <2>2. CASE w \notin W
    BY <2>2 DEF PoolMarked, PoolHas
  <2> QED BY <2>1, <2>2
<1>2. PoolBusy' = PoolBusy
  <2>1. \A w \in Workers : thread'[w] \in {"task", "report", "wait", "decrement"}
                           <=> thread[w] \in {"task", "report", "wait", "decrement"}
    OBVIOUS
  <2> QED BY <1>1, <2>1 DEF PoolBusy
<1>3. PoolCounts'
  <2>1. IsFiniteSet(idle \ W)
    BY FS_Subset DEF PoolInvariant, PoolCounts
  <2> QED BY <1>2, <2>1 DEF PoolInvariant, PoolCounts
<1>4. PoolTasks'
  BY <1>1, PoolTasksKept DEF PoolInvariant, PoolTypes
<1>5. \A w \in Workers : ~PoolHolds(w)'
  BY DEF PoolHolds, PoolInvariant, PoolTypes
<1>6. PoolThreads'
  <2> SUFFICES ASSUME NEW w \in Workers
               PROVE  /\ thread'[w] # "get" => PoolEmpty(w)'
                      /\ workerQuit'[w] <=> (thread'[w] = "dead" \/ PoolStops(w)')
                      /\ w \in idle' <=> (thread'[w] = "recycle" \/ PoolWaits(w)')
                      /\ task'[w] # NONE <=> thread'[w] \in {"task", "dispatch"}
                      /\ thread'[w] = "dispatch" => picked' = w
    BY <1>5, PoolConstants DEF PoolThreads
  <2>1. CASE w \in W
    <3>1. PoolStops(w)' /\ workerQuit'[w] /\ thread'[w] = "get" /\ ~PoolEmpty(w)'
      BY <2>1, PoolIdle, OneElement DEF PoolMarked, PoolStops, PoolEmpty
    <3>2. task[w] = NONE
      BY <2>1, PoolIdle DEF PoolInvariant, PoolThreads
    <3> QED BY <2>1, <3>1, <3>2 DEF PoolWaits
  <2>2. CASE w \notin W
    <3>1. taskQueue'[w] = taskQueue[w] /\ workerQuit'[w] = workerQuit[w]
      BY <2>2 DEF PoolMarked
    <3>2. thread[w] = "recycle" => PoolEmpty(w) /\ w \in idle
      BY DEF PoolInvariant, PoolThreads
    <3> QED BY <2>2, <3>1, <3>2
            DEF PoolInvariant, PoolThreads, PoolEmpty, PoolStops, PoolWaits, PoolTypes
  <2> QED BY <2>1, <2>2
<1>7. PoolUnused' <=> PoolUnused
  BY DEF PoolUnused
<1>8. PoolReturning' <=> PoolBusy # {}
  <2>1. PoolBusy \subseteq Workers
    BY DEF PoolBusy
  <2> QED BY <1>2, <1>5, <2>1 DEF PoolReturning
<1> QED BY <1>2, <1>3, <1>4, <1>6, <1>7, <1>8

\* With the lock free or the caller's, no worker is inside the coordinator.
LEMMA PoolNobodyInside ==
    ASSUME PoolInvariant, lock \in {NONE, "caller"}
    PROVE  /\ \A w \in Workers : ~PoolHolds(w)
           /\ thread = [w \in Workers |-> IF thread[w] = "recycle" THEN "get" ELSE thread[w]]
           /\ PoolReturning <=> PoolBusy # {}
<1>1. \A w \in Workers : ~PoolHolds(w)
  BY PoolConstants DEF PoolInvariant, PoolThreads
<1>2. thread = [w \in Workers |-> IF thread[w] = "recycle" THEN "get" ELSE thread[w]]
  BY <1>1 DEF PoolInvariant, PoolTypes, PoolHolds
<1>3. PoolReturning <=> PoolBusy # {}
  BY <1>1 DEF PoolReturning, PoolBusy
<1> QED BY <1>1, <1>2, <1>3

LEMMA PoolShrink == ASSUME PoolInvariant, Pool!Shrink PROVE PoolInvariant'
<1>1. /\ poolPc \in {"shrink", "shrinkExcess"} /\ ~teamQuit /\ lock = NONE /\ lock' = lock
      /\ poolPc' = (IF poolPc = "shrink" THEN "free" ELSE "tooFew")
      /\ UNCHANGED <<started, size, teamQuit, shouldQuit, busyCount, pending, thread, task,
                     picked, seen, n, then, accepted, begun, ended>>
  BY DEF Pool!Shrink, Pool!Goto, Pool!pool, Pool!history
<1>2. PICK W \in SUBSET idle :
         /\ idle' = idle \ W /\ Pool!QuitWorkers(W)
         /\ coordinatorQuit' = (coordinatorQuit \/ Pool!MayQuitCoordinator(shouldQuit))
  BY DEF Pool!Shrink, Pool!QuitIdlers
<1>3. PoolMarked(W)
  BY <1>2, PoolQuitWorkers
<1>4. /\ PoolThreads' /\ PoolCounts' /\ PoolTasks'
      /\ PoolUnused' <=> PoolUnused
      /\ PoolReturning' <=> PoolReturning
  BY <1>1, <1>2, <1>3, PoolNobodyInside, PoolMarks
<1>5. PoolTypes'
  BY <1>1, <1>2, <1>3 DEF PoolInvariant, PoolTypes, PoolLabels, PoolMarked, PoolQueues
<1>6. PoolBacklog'
  <2>1. PoolStarting => PoolStarting'
    BY <1>1 DEF PoolStarting
  <2> QED BY <1>1, <1>2, <1>4, <2>1 DEF PoolInvariant, PoolBacklog
<1>7. PoolQuits'
  <2>1. ~shouldQuit /\ ~coordinatorQuit
    BY <1>1 DEF PoolInvariant, PoolQuits
  <2>2. ~coordinatorQuit'
    BY <1>2, <2>1, Zenon DEF Pool!MayQuitCoordinator
  <2> QED BY <1>1, <1>4, <2>2 DEF PoolInvariant, PoolQuits
<1> QED BY <1>4, <1>5, <1>6, <1>7 DEF PoolInvariant

LEMMA PoolNoneBusy == ASSUME PoolInvariant, busyCount = 0 PROVE PoolBusy = {}
BY FS_EmptySet DEF PoolInvariant, PoolCounts

LEMMA PoolTeamQuit == ASSUME PoolInvariant, Pool!TeamQuit PROVE PoolInvariant'
<1>1. /\ poolPc = "quit" /\ lock = NONE /\ lock' = lock /\ poolPc' = "join"
      /\ teamQuit' = TRUE /\ shouldQuit' = TRUE
      /\ UNCHANGED <<started, size, busyCount, pending, thread, task, picked, seen, n, then,
                     accepted, begun, ended>>
  BY DEF Pool!TeamQuit, Pool!Goto, Pool!pool, Pool!history
<1>2. PICK W \in SUBSET idle :
         /\ idle' = idle \ W /\ Pool!QuitWorkers(W)
         /\ coordinatorQuit' = (coordinatorQuit \/ Pool!MayQuitCoordinator(TRUE))
  BY DEF Pool!TeamQuit, Pool!QuitIdlers
<1>3. PoolMarked(W)
  BY <1>2, PoolQuitWorkers
<1>4. /\ PoolThreads' /\ PoolCounts' /\ PoolTasks'
      /\ PoolUnused' <=> PoolUnused
      /\ PoolReturning' <=> PoolReturning
      /\ PoolReturning' <=> PoolBusy # {}
  BY <1>1, <1>2, <1>3, PoolNobodyInside, PoolMarks
<1>5. PoolTypes'
  BY <1>1, <1>2, <1>3 DEF PoolInvariant, PoolTypes, PoolLabels, PoolMarked, PoolQueues
<1>6. PoolBacklog'
  BY <1>1, <1>2, <1>4 DEF PoolInvariant, PoolBacklog
<1>7. PoolQuits'
  <2>1. ~coordinatorQuit
    BY <1>1 DEF PoolInvariant, PoolQuits
  <2>2. coordinatorQuit' => busyCount = 0
    BY <1>2, <2>1, Zenon DEF Pool!MayQuitCoordinator
  <2>3. coordinatorQuit' => ~PoolReturning'
    BY <1>4, <2>2, PoolNoneBusy
  <2> QED BY <1>1, <2>3, PoolConstants DEF PoolQuits
<1> QED BY <1>4, <1>5, <1>6, <1>7 DEF PoolInvariant

\* A worker that has reported stays idle, or is quit.
LEMMA PoolRecycle ==
    ASSUME PoolInvariant, NEW w \in Workers,
           Pool!RecycleToQuit(w) \/ Pool!RecycleToShrink(w) \/ Pool!RecycleToIdle(w)
    PROVE  PoolInvariant'
<1>1. /\ thread[w] = "recycle" /\ thread' = [thread EXCEPT ![w] = "get"] /\ lock' = NONE
      /\ pending = <<>>
      /\ UNCHANGED <<started, size, teamQuit, shouldQuit, busyCount, pending, task, picked, poolPc,
                     seen, n, then, accepted, begun, ended>>
  BY DEF Pool!RecycleToQuit, Pool!RecycleToShrink, Pool!RecycleToIdle, Pool!At, Pool!MustRetry,
         Pool!pool, Pool!team, Pool!caller
<1>2. lock = w /\ w \in idle
  BY <1>1 DEF PoolInvariant, PoolThreads, PoolHolds
<1>3. /\ \A v \in Workers : PoolHolds(v) => v = w
      /\ thread' = [v \in Workers |-> IF thread[v] = "recycle" THEN "get" ELSE thread[v]]
  BY <1>1, <1>2 DEF PoolInvariant, PoolThreads, PoolHolds, PoolTypes
<1>4. PICK W \in SUBSET idle :
         /\ idle' = idle \ W /\ PoolMarked(W)
         /\ coordinatorQuit' => coordinatorQuit \/ (shouldQuit /\ busyCount = 0)
  <2>1. CASE Pool!RecycleToQuit(w)
    <3>1. PICK W \in SUBSET idle :
             /\ idle' = idle \ W /\ Pool!QuitWorkers(W)
             /\ coordinatorQuit' = (coordinatorQuit \/ Pool!MayQuitCoordinator(TRUE))
      BY <2>1 DEF Pool!RecycleToQuit, Pool!QuitIdlers
    <3>2. PoolMarked(W) /\ shouldQuit
      BY <2>1, <3>1, PoolQuitWorkers DEF Pool!RecycleToQuit
    <3>3. coordinatorQuit' => coordinatorQuit \/ (shouldQuit /\ busyCount = 0)
      BY <3>1, <3>2, Zenon DEF Pool!MayQuitCoordinator
    <3> QED BY <3>1, <3>2, <3>3
  <2>2. CASE Pool!RecycleToShrink(w)
    <3>1. /\ idle' = idle \ {w} /\ Pool!QuitWorkers({w}) /\ {w} \in SUBSET idle
          /\ coordinatorQuit' = coordinatorQuit
      BY <1>2, <2>2 DEF Pool!RecycleToShrink, Pool!LeaveIdle
    <3>2. PoolMarked({w})
      BY <3>1, PoolQuitWorkers
    <3> QED BY <3>1, <3>2
  <2>3. CASE Pool!RecycleToIdle(w)
    <3>1. UNCHANGED <<idle, taskQueue, workerQuit, coordinatorQuit>>
      BY <2>3 DEF Pool!RecycleToIdle, Pool!team
    <3>2. PoolMarked({})
      BY <3>1 DEF PoolMarked, PoolInvariant, PoolTypes, PoolQueues
    <3> QED BY <3>1, <3>2
  <2> QED BY <2>1, <2>2, <2>3
<1>5. /\ PoolThreads' /\ PoolCounts' /\ PoolTasks'
      /\ PoolUnused' <=> PoolUnused
      /\ PoolReturning' <=> PoolBusy # {}
  BY <1>1, <1>3, <1>4, PoolMarks
<1>6. PoolTypes'
  BY <1>1, <1>4 DEF PoolInvariant, PoolTypes, PoolMarked, PoolQueues
<1>7. PoolBacklog'
  BY <1>1 DEF PoolBacklog
<1>8. PoolQuits'
  <2>1. PoolReturning /\ ~coordinatorQuit /\ (teamQuit => poolPc = "join") /\ ~PoolUnused
    BY <1>1 DEF PoolReturning, PoolHolds, PoolInvariant, PoolQuits, PoolUnused
  <2>2. coordinatorQuit' => shouldQuit /\ ~PoolReturning'
    BY <1>4, <1>5, <2>1, PoolNoneBusy
  <2> QED BY <1>1, <2>1, <2>2, PoolConstants DEF PoolInvariant, PoolQuits
<1> QED BY <1>5, <1>6, <1>7, <1>8 DEF PoolInvariant

-------------------------------------------------------------------------------
\* Worker w, whose queue is empty, is given task t and is busy from now on.
PoolGives(w, t) ==
    /\ taskQueue' = [taskQueue EXCEPT ![w] = <<t>>]
    /\ thread' = [thread EXCEPT ![w] = "get"]
    /\ workerQuit' = [workerQuit EXCEPT ![w] = FALSE]
    /\ task' = [task EXCEPT ![w] = NONE]
    /\ idle' = idle \ {w}
    /\ busyCount' = busyCount + 1
    /\ lock' # w /\ \A v \in Workers \ {w} : (lock' = v <=> lock = v) /\ (picked = v => picked' = v)

LEMMA PoolGivesWorker ==
    ASSUME PoolInvariant, NEW w \in Workers, NEW t \in Tasks, PoolGives(w, t),
           PoolEmpty(w), w \notin PoolBusy
    PROVE  /\ PoolThreads' /\ PoolCounts' /\ PoolReturning' /\ ~PoolUnused'
           /\ taskQueue' \in [Workers -> PoolQueues] /\ busyCount' \in Nat
           /\ \A v \in Workers : \A u \in Tasks : PoolHas(v, u)' <=> PoolHas(v, u) \/ (v = w /\ u = t)
<1>1. PoolTypes
  BY DEF PoolInvariant
<1>2. <<t>> \in PoolQueues
  BY DEF PoolQueues
<1>3. /\ taskQueue' \in [Workers -> PoolQueues] /\ taskQueue'[w] = <<t>>
      /\ \A v \in Workers \ {w} : taskQueue'[v] = taskQueue[v]
  BY <1>1, <1>2, PoolQueueSet DEF PoolGives
<1>4. PoolHas(w, t)' /\ ~PoolEmpty(w)' /\ ~PoolStops(w)' /\ \A u \in Tasks : PoolHas(w, u)' => u = t
  BY <1>3, OneElement, PoolConstants DEF PoolHas, PoolEmpty, PoolStops
<1>5. /\ thread'[w] = "get" /\ \A v \in Workers \ {w} : thread'[v] = thread[v]
      /\ task'[w] = NONE /\ \A v \in Workers \ {w} : task'[v] = task[v]
      /\ ~workerQuit'[w] /\ \A v \in Workers \ {w} : workerQuit'[v] = workerQuit[v]
  BY <1>1 DEF PoolGives, PoolTypes
<1>6. \A v \in Workers \ {w} : /\ PoolEmpty(v)' <=> PoolEmpty(v)
                               /\ PoolStops(v)' <=> PoolStops(v)
                               /\ \A u \in Tasks : PoolHas(v, u)' <=> PoolHas(v, u)
  BY <1>3 DEF PoolEmpty, PoolStops, PoolHas
<1>7. \A u \in Tasks : ~PoolHas(w, u)
  BY <1>1, PoolQueue
<1>8. \A v \in Workers : \A u \in Tasks : PoolHas(v, u)' <=> PoolHas(v, u) \/ (v = w /\ u = t)
  BY <1>4, <1>6, <1>7
<1>9. PoolBusy' = PoolBusy \cup {w}
  <2>1. w \in PoolBusy'
    BY <1>4 DEF PoolBusy
  <2>2. \A v \in Workers \ {w} : v \in PoolBusy' <=> v \in PoolBusy
    BY <1>5, <1>6 DEF PoolBusy
  <2>3. PoolBusy \subseteq Workers /\ PoolBusy' \subseteq Workers
    BY DEF PoolBusy
  <2> QED BY <2>1, <2>2, <2>3
<1>10. PoolCounts'
  <2>1. IsFiniteSet(idle) /\ IsFiniteSet(PoolBusy) /\ busyCount = Cardinality(PoolBusy)
    BY DEF PoolInvariant, PoolCounts
  <2>2. IsFiniteSet(PoolBusy \cup {w}) /\ Cardinality(PoolBusy \cup {w}) = busyCount + 1
    BY <2>1, FS_AddElement
  <2>3. IsFiniteSet(idle \ {w})
    BY <2>1, FS_RemoveElement
  <2> QED BY <1>9, <2>2, <2>3 DEF PoolCounts, PoolGives
<1>11. PoolThreads'
  <2> SUFFICES ASSUME NEW v \in Workers
               PROVE  /\ PoolHolds(v)' <=> lock' = v
                      /\ thread'[v] # "get" => PoolEmpty(v)'
                      /\ workerQuit'[v] <=> (thread'[v] = "dead" \/ PoolStops(v)')
                      /\ v \in idle' <=> (thread'[v] = "recycle" \/ PoolWaits(v)')
                      /\ task'[v] # NONE <=> thread'[v] \in {"task", "dispatch"}
                      /\ thread'[v] = "dispatch" => picked' = v
    BY DEF PoolThreads
  <2>1. CASE v = w
    BY <1>4, <1>5, <2>1 DEF PoolGives, PoolHolds, PoolWaits
  <2>2. CASE v # w
    BY <1>5, <1>6, <2>2 DEF PoolGives, PoolHolds, PoolWaits, PoolInvariant, PoolThreads
  <2> QED BY <2>1, <2>2
<1>12. PoolReturning' /\ ~PoolUnused'
  BY <1>5, <1>9 DEF PoolReturning, PoolUnused
<1>13. busyCount' \in Nat
  BY <1>1 DEF PoolGives, PoolTypes
<1> QED BY <1>3, <1>8, <1>10, <1>11, <1>12, <1>13

\* The task comes from the application, from the backlog or out of the worker's own hands.
LEMMA PoolGivesTask ==
    ASSUME PoolInvariant, NEW w \in Workers, NEW t \in Tasks, PoolGives(w, t),
           \A v \in Workers : \A u \in Tasks : PoolHas(v, u)' <=> PoolHas(v, u) \/ (v = w /\ u = t),
           begun[t] = 0, \A v \in Workers : ~PoolHas(v, t) /\ (task[v] = t => v = w),
           task[w] \in {t, NONE},
           accepted' = accepted \cup {t}, UNCHANGED <<begun, ended>>,
           pending' \in Seq(Tasks),
           \A i, j \in 1..Len(pending') : pending'[i] = pending'[j] => i = j,
           \A i \in 1..Len(pending') :
              pending'[i] # t /\ \E j \in 1..Len(pending) : pending[j] = pending'[i],
           \A j \in 1..Len(pending) :
              pending[j] = t \/ \E i \in 1..Len(pending') : pending'[i] = pending[j]
    PROVE  PoolTasks'
<1>1. PoolTypes /\ PoolPlaces /\ PoolFresh /\ PoolAccounted
  BY DEF PoolInvariant, PoolTasks
<1>2. /\ task'[w] = NONE /\ \A v \in Workers \ {w} : task'[v] = task[v] /\ task[v] # t
      /\ thread'[w] = "get" /\ \A v \in Workers \ {w} : thread'[v] = thread[v]
  BY <1>1 DEF PoolGives, PoolTypes
<1>3. NONE \notin Tasks
  BY PoolConstants
<1>4. \A i \in 1..Len(pending') : pending'[i] \in Tasks
  OBVIOUS
<1>5. PoolPlaces'
  <2>1. ASSUME NEW i \in 1..Len(pending'), NEW v \in Workers
        PROVE  taskQueue'[v] # <<pending'[i]>> /\ task'[v] # pending'[i]
    <3>1. PICK j \in 1..Len(pending) : pending[j] = pending'[i]
      OBVIOUS
    <3>2. ~PoolHas(v, pending[j]) /\ task[v] # pending[j]
      BY <1>1 DEF PoolPlaces
    <3>3. PICK u \in Tasks : u = pending'[i]
      BY <1>4
    <3>4. ~PoolHas(v, u)'
      BY <3>1, <3>2, <3>3
    <3>5. task'[v] # pending'[i]
      BY <1>2, <1>3, <3>1, <3>2, <3>3
    <3> QED BY <3>3, <3>4, <3>5 DEF PoolHas
  <2>2. ASSUME NEW x \in Workers, NEW v \in Workers, NEW u \in Tasks
        PROVE  /\ (PoolHas(x, u)' /\ PoolHas(v, u)') => x = v
               /\ ~(PoolHas(x, u)' /\ task'[v] = u)
               /\ (task'[x] = u /\ task'[v] = u) => x = v
    BY <1>1, <1>2, <1>3 DEF PoolPlaces
  <2>3. \A i, j \in 1..Len(pending') : pending'[i] = pending'[j] => i = j
    OBVIOUS
  <2> QED BY ONLY <2>1, <2>2, <2>3 DEF PoolPlaces, PoolHas
<1>6. PoolFresh'
  <2>1. ASSUME NEW i \in 1..Len(pending')
        PROVE  begun'[pending'[i]] = 0 /\ pending'[i] \in accepted'
    <3>1. PICK j \in 1..Len(pending) : pending[j] = pending'[i]
      OBVIOUS
    <3>2. begun[pending[j]] = 0 /\ pending[j] \in accepted
      BY <1>1 DEF PoolFresh
    <3> QED BY <3>1, <3>2
  <2>2. ASSUME NEW v \in Workers, NEW u \in Tasks
        PROVE  /\ PoolHas(v, u)' => begun'[u] = 0 /\ u \in accepted'
               /\ task'[v] = u => u \in accepted'
               /\ (task'[v] = u /\ thread'[v] = "dispatch") => begun'[u] = 0
    BY <1>1, <1>2, <1>3 DEF PoolFresh
  <2>3. \A u \in Tasks : u \notin accepted' => begun'[u] = 0
    BY <1>1 DEF PoolFresh
  <2>4. begun' \in [Tasks -> 0..1] /\ accepted' \subseteq Tasks /\ ended' \subseteq accepted'
    BY <1>1 DEF PoolFresh
  <2> QED BY <2>1, <2>2, <2>3, <2>4 DEF PoolFresh
<1>7. PoolAccounted'
  <2> SUFFICES ASSUME NEW u \in accepted', u \notin ended'
               PROVE  \/ \E i \in 1..Len(pending') : pending'[i] = u
                      \/ \E v \in Workers : PoolHas(v, u)' \/ task'[v] = u
    BY DEF PoolAccounted
  <2>0. u \in Tasks
    BY <1>1 DEF PoolFresh
  <2>1. CASE u = t
    BY <2>0, <2>1
  <2>2. CASE u # t
    <3>1. \/ \E i \in 1..Len(pending) : pending[i] = u
          \/ \E v \in Workers : PoolHas(v, u) \/ task[v] = u
      BY <1>1, <2>2 DEF PoolAccounted
    <3>2. ASSUME NEW v \in Workers, PoolHas(v, u) \/ task[v] = u
          PROVE  PoolHas(v, u)' \/ task'[v] = u
      BY <1>2, <1>3, <2>0, <2>2, <3>2
    <3> QED BY <2>2, <3>1, <3>2
  <2> QED BY <2>1, <2>2
<1> QED BY <1>5, <1>6, <1>7 DEF PoolTasks

LEMMA PoolGiven ==
    ASSUME PoolInvariant, NEW w \in Workers, NEW t \in Tasks, PoolGives(w, t),
           PoolEmpty(w), w \notin PoolBusy, PoolTasks',
           pending' \in Seq(Tasks), pending' # <<>> => pending # <<>>,
           UNCHANGED <<started, size, seen, teamQuit, shouldQuit, coordinatorQuit, poolPc, then>>,
           n' \in Int, lock' \in {lock, NONE, "caller"},
           lock' = "caller" => poolPc = "grow" /\ ~teamQuit,
           ~coordinatorQuit, started \/ teamQuit \/ poolPc = "quit", teamQuit => poolPc = "join"
    PROVE  PoolInvariant'
<1>1. /\ PoolThreads' /\ PoolCounts' /\ PoolReturning' /\ ~PoolUnused'
      /\ taskQueue' \in [Workers -> PoolQueues] /\ busyCount' \in Nat
  BY PoolGivesWorker
<1>2. PoolTypes'
  BY <1>1 DEF PoolInvariant, PoolTypes, PoolGives, PoolQueues
<1>3. PoolBacklog'
  <2>1. \A v \in idle' : v \in idle /\ thread'[v] = thread[v]
    BY DEF PoolInvariant, PoolTypes, PoolGives
  <2> QED BY <1>1, <2>1 DEF PoolInvariant, PoolBacklog
<1>4. PoolQuits'
  BY <1>1 DEF PoolInvariant, PoolQuits
<1> QED BY <1>1, <1>2, <1>3, <1>4 DEF PoolInvariant

LEMMA PoolNewTask ==
    ASSUME PoolInvariant, NEW t \in Tasks, t \notin accepted
    PROVE  /\ begun[t] = 0 /\ \A v \in Workers : ~PoolHas(v, t) /\ task[v] # t
           /\ \A i \in 1..Len(pending) : pending[i] # t
BY DEF PoolInvariant, PoolTasks, PoolFresh

LEMMA PoolTakesOn ==
    ASSUME PoolInvariant, NEW w \in Workers, NEW t \in Tasks, Pool!CallInThread(t), PoolGives(w, t),
           PoolEmpty(w), w \notin PoolBusy, task[w] = NONE, started, pending' = pending
    PROVE  PoolInvariant'
<1>1. /\ poolPc = "free" /\ ~teamQuit /\ t \notin accepted /\ accepted' = accepted \cup {t}
      /\ UNCHANGED <<started, size, seen, teamQuit, shouldQuit, coordinatorQuit, poolPc, then, n,
                     begun, ended, lock>>
  BY DEF Pool!CallInThread, Pool!pool, Pool!caller
<1>2. ~coordinatorQuit
  BY <1>1 DEF PoolInvariant, PoolQuits
<1>3. /\ begun[t] = 0 /\ \A v \in Workers : ~PoolHas(v, t) /\ task[v] # t
      /\ \A i \in 1..Len(pending) : pending[i] # t
  BY <1>1, PoolNewTask
<1>4. /\ pending \in Seq(Tasks) /\ n \in Int
      /\ \A i, j \in 1..Len(pending) : pending[i] = pending[j] => i = j
  BY DEF PoolInvariant, PoolTypes, PoolTasks, PoolPlaces
<1>5. \A v \in Workers : \A u \in Tasks : PoolHas(v, u)' <=> PoolHas(v, u) \/ (v = w /\ u = t)
  BY PoolGivesWorker
<1>6. PoolTasks'
  BY <1>1, <1>3, <1>4, <1>5, PoolGivesTask
<1>7. lock' = "caller" => poolPc = "grow" /\ ~teamQuit
  BY <1>1 DEF PoolInvariant, PoolQuits
<1> QED BY <1>1, <1>2, <1>4, <1>6, <1>7, PoolGiven

LEMMA PoolCallOnIdle ==
    ASSUME PoolInvariant, NEW t \in Tasks, Pool!CallOnIdle(t)
    PROVE  PoolInvariant'
<1>1. PICK w \in idle : idle' = idle \ {w} /\ Pool!DoTask(w, t)
  BY DEF Pool!CallOnIdle
<1>2. /\ Pool!CallInThread(t) /\ lock = NONE /\ lock' = NONE /\ busyCount' = busyCount + 1
      /\ UNCHANGED <<pending, thread, task, picked>> /\ ~teamQuit /\ poolPc = "free"
      /\ taskQueue' = [taskQueue EXCEPT ![w] = Append(taskQueue[w], t)] /\ workerQuit' = workerQuit
  BY <1>1 DEF Pool!CallOnIdle, Pool!CallInThread, Pool!CountBusy, Pool!DoTask
<1>3. w \in Workers /\ PoolEmpty(w) /\ ~workerQuit[w] /\ thread[w] \in {"recycle", "get"}
      /\ w \notin PoolBusy
  BY PoolIdle
<1>4. thread[w] = "get" /\ task[w] = NONE
  BY <1>2, <1>3, PoolNobodyInside DEF PoolHolds, PoolInvariant, PoolThreads
<1>5. started
  BY <1>2, <1>3, <1>4 DEF PoolInvariant, PoolQuits, PoolUnused
<1>6. PoolGives(w, t)
  <2>1. taskQueue' = [taskQueue EXCEPT ![w] = <<t>>]
    BY <1>2, <1>3, OneElement DEF PoolEmpty
  <2>2. workerQuit[w] = FALSE
    BY <1>3 DEF PoolInvariant, PoolTypes
  <2>3. /\ thread = [thread EXCEPT ![w] = "get"] /\ task = [task EXCEPT ![w] = NONE]
        /\ workerQuit = [workerQuit EXCEPT ![w] = FALSE]
    BY <1>3, <1>4, <2>2 DEF PoolInvariant, PoolTypes
  <2>4. lock' # w /\ \A v \in Workers \ {w} : (lock' = v <=> lock = v) /\ (picked = v => picked' = v)
    BY <1>2, <1>3, PoolConstants
  <2> QED BY <1>1, <1>2, <2>1, <2>3, <2>4 DEF PoolGives
<1> QED BY <1>2, <1>3, <1>4, <1>5, <1>6, PoolTakesOn

\* limitedWorkerCreator creates workers only for a pool that has been started.
LEMMA PoolMayCreate == ASSUME PoolInvariant, Pool!MayCreate PROVE started
<1>1. Pool!Cardinality(idle) \in Nat /\ busyCount \in Nat
  BY FS_CardinalityType, PoolCardinality DEF PoolInvariant, PoolTypes, PoolCounts
<1> QED BY <1>1 DEF Pool!MayCreate, Pool!CurrentLimit

LEMMA PoolNewWorker ==
    ASSUME PoolInvariant, NEW w \in Workers, Pool!NewWorker(w)
    PROVE  /\ PoolEmpty(w) /\ w \notin PoolBusy /\ task[w] = NONE /\ w \notin idle
           /\ ~PoolHolds(w) /\ lock # w /\ thread[w] \in {"none", "dead"}
           /\ thread' = [thread EXCEPT ![w] = "get"]
           /\ task' = task /\ picked' = picked /\ task = [task EXCEPT ![w] = NONE]
<1>1. /\ thread[w] \in {"none", "dead"} /\ thread' = [thread EXCEPT ![w] = "get"]
      /\ task' = task /\ picked' = picked
  BY DEF Pool!NewWorker
<1>2. PoolEmpty(w) /\ task[w] = NONE /\ w \notin idle /\ ~PoolHolds(w) /\ lock # w
  BY <1>1 DEF PoolInvariant, PoolThreads, PoolWaits, PoolHolds
<1>3. w \notin PoolBusy
  BY <1>1, <1>2, PoolQueue DEF PoolBusy, PoolInvariant
<1>4. task = [task EXCEPT ![w] = NONE]
  BY <1>2 DEF PoolInvariant, PoolTypes
<1> QED BY <1>1, <1>2, <1>3, <1>4

LEMMA PoolCallOnNew ==
    ASSUME PoolInvariant, NEW t \in Tasks, Pool!CallOnNew(t)
    PROVE  PoolInvariant'
<1>1. PICK w \in Workers : /\ Pool!NewWorker(w)
                           /\ taskQueue' = [taskQueue EXCEPT ![w] = <<t>>]
                           /\ workerQuit' = [workerQuit EXCEPT ![w] = FALSE]
  BY DEF Pool!CallOnNew
<1>2. /\ Pool!CallInThread(t) /\ lock = NONE /\ lock' = NONE /\ busyCount' = busyCount + 1
      /\ UNCHANGED <<pending, idle>> /\ Pool!MayCreate
  BY DEF Pool!CallOnNew, Pool!CallInThread, Pool!CountBusy
<1>3. PoolGives(w, t)
  BY <1>1, <1>2, PoolNewWorker, PoolConstants DEF PoolGives
<1> QED BY <1>1, <1>2, <1>3, PoolNewWorker, PoolMayCreate, PoolTakesOn

\* The first task of the backlog is taken off it.
LEMMA PoolTakesFirst ==
    ASSUME PoolInvariant, pending # <<>>
    PROVE  /\ Head(pending) \in Tasks /\ Head(pending) = pending[1] /\ 1 \in 1..Len(pending)
           /\ Tail(pending) \in Seq(Tasks) /\ Len(Tail(pending)) = Len(pending) - 1
           /\ \A i \in 1..Len(Tail(pending)) : Tail(pending)[i] = pending[i + 1]
           /\ \A i, j \in 1..Len(Tail(pending)) : Tail(pending)[i] = Tail(pending)[j] => i = j
           /\ \A i \in 1..Len(Tail(pending)) :
                 /\ Tail(pending)[i] # Head(pending)
                 /\ \E j \in 1..Len(pending) : pending[j] = Tail(pending)[i]
           /\ \A j \in 1..Len(pending) :
                 \/ pending[j] = Head(pending)
                 \/ \E i \in 1..Len(Tail(pending)) : Tail(pending)[i] = pending[j]
           /\ begun[Head(pending)] = 0 /\ Head(pending) \in accepted
           /\ \A v \in Workers : ~PoolHas(v, Head(pending)) /\ task[v] # Head(pending)
<1>1. pending \in Seq(Tasks) /\ Len(pending) \in Nat /\ Len(pending) > 0
  BY DEF PoolInvariant, PoolTypes
<1>2. \A i, j \in 1..Len(pending) : pending[i] = pending[j] => i = j
  BY DEF PoolInvariant, PoolTasks, PoolPlaces
<1> DEFINE r == Tail(pending)
<1>3. /\ Head(pending) \in Tasks /\ Head(pending) = pending[1] /\ 1 \in 1..Len(pending)
      /\ r \in Seq(Tasks) /\ Len(r) = Len(pending) - 1
      /\ \A i \in 1..Len(r) : r[i] = pending[i + 1]
  BY <1>1
<1> HIDE DEF r
<1>4. \A i \in 1..Len(r) : i + 1 \in 1..Len(pending) /\ i + 1 # 1
  BY <1>1, <1>3
<1>5. ASSUME NEW i \in 1..Len(r), NEW j \in 1..Len(r), r[i] = r[j] PROVE i = j
  <2>1. i + 1 = j + 1
    BY <1>2, <1>3, <1>4, <1>5
  <2> QED BY <2>1
<1>6. ASSUME NEW i \in 1..Len(r)
      PROVE  r[i] # Head(pending) /\ \E j \in 1..Len(pending) : pending[j] = r[i]
  BY <1>2, <1>3, <1>4
<1>7. ASSUME NEW j \in 1..Len(pending), pending[j] # Head(pending)
      PROVE  \E i \in 1..Len(r) : r[i] = pending[j]
  <2>1. j # 1
    BY <1>3, <1>7
  <2>2. j - 1 \in 1..Len(r) /\ (j - 1) + 1 = j
    BY <1>1, <1>3, <2>1
  <2> QED BY <1>3, <2>2
<1>8. /\ begun[pending[1]] = 0 /\ pending[1] \in accepted
      /\ \A v \in Workers : ~PoolHas(v, pending[1]) /\ task[v] # pending[1]
  BY <1>3 DEF PoolInvariant, PoolTasks, PoolPlaces, PoolFresh
<1>9. \A v \in Workers : ~PoolHas(v, Head(pending)) /\ task[v] # Head(pending)
  BY <1>3, <1>8 DEF PoolHas
<1> QED BY <1>3, <1>5, <1>6, <1>7, <1>8, <1>9 DEF r

LEMMA PoolGrowing ==
    ASSUME PoolInvariant, NEW w \in Workers, Pool!GrowOne(w)
    PROVE  /\ poolPc = "grow" /\ ~teamQuit /\ lock \in {NONE, "caller"} /\ lock' = "caller"
           /\ n > 0 /\ n' = n - 1 /\ n \in Int /\ started /\ Pool!NewWorker(w)
           /\ UNCHANGED <<started, size, seen, teamQuit, shouldQuit, coordinatorQuit, poolPc, then,
                          accepted, begun, ended>>
BY PoolMayCreate DEF Pool!GrowOne, Pool!Growing, Pool!pool, Pool!history, PoolInvariant, PoolTypes

LEMMA PoolGrowForPending ==
    ASSUME PoolInvariant, NEW w \in Workers, Pool!GrowForPending(w)
    PROVE  PoolInvariant'
<1>1. PICK v \in idle \cup {w} :
         /\ idle' = (idle \cup {w}) \ {v}
         /\ taskQueue' = [[taskQueue EXCEPT ![w] = <<>>] EXCEPT ![v] = Append(@, Head(pending))]
  BY DEF Pool!GrowForPending
<1>2. /\ Pool!GrowOne(w) /\ pending # <<>> /\ pending' = Tail(pending) /\ busyCount' = busyCount + 1
      /\ workerQuit' = [workerQuit EXCEPT ![w] = FALSE]
  BY DEF Pool!GrowForPending, Pool!MustRetry, Pool!TakePending, Pool!CountBusy
<1>3. /\ poolPc = "grow" /\ ~teamQuit /\ lock \in {NONE, "caller"} /\ lock' = "caller"
      /\ n' = n - 1 /\ n \in Int /\ started /\ Pool!NewWorker(w)
      /\ UNCHANGED <<started, size, seen, teamQuit, shouldQuit, coordinatorQuit, poolPc, then,
                     accepted, begun, ended>>
  BY <1>2, PoolGrowing
<1>4. idle = {}
  <2>1. \A x \in idle : thread[x] = "recycle" /\ x \in Workers
    BY <1>2 DEF PoolInvariant, PoolBacklog, PoolTypes
  <2> QED BY <1>3, <2>1, PoolNobodyInside DEF PoolHolds
<1>5. PICK t \in Tasks : t = Head(pending)
  BY <1>2, PoolTakesFirst
<1>6. taskQueue' = [taskQueue EXCEPT ![w] = <<t>>]
  BY <1>1, <1>4, <1>5, OneElement DEF PoolInvariant, PoolTypes
<1>7. /\ PoolEmpty(w) /\ w \notin PoolBusy /\ task[w] = NONE /\ w \notin idle /\ lock # w
      /\ thread' = [thread EXCEPT ![w] = "get"]
      /\ task' = task /\ picked' = picked /\ task = [task EXCEPT ![w] = NONE]
  BY <1>3, PoolNewWorker
<1>8. PoolGives(w, t)
  <2>1. idle' = idle \ {w}
    BY <1>1, <1>4
  <2>2. lock' # w /\ \A x \in Workers \ {w} : (lock' = x <=> lock = x) /\ (picked = x => picked' = x)
    BY <1>3, <1>7, PoolConstants
  <2> QED BY <1>2, <1>6, <1>7, <2>1, <2>2 DEF PoolGives
<1>9. /\ \A x \in Workers : \A u \in Tasks : PoolHas(x, u)' <=> PoolHas(x, u) \/ (x = w /\ u = t)
  BY <1>7, <1>8, PoolGivesWorker
<1>10. PoolTasks'
  <2>1. /\ begun[t] = 0 /\ t \in accepted /\ \A x \in Workers : ~PoolHas(x, t) /\ task[x] # t
        /\ pending' \in Seq(Tasks)
        /\ \A i, j \in 1..Len(pending') : pending'[i] = pending'[j] => i = j
        /\ \A i \in 1..Len(pending') :
              pending'[i] # t /\ \E j \in 1..Len(pending) : pending[j] = pending'[i]
        /\ \A j \in 1..Len(pending) :
              pending[j] = t \/ \E i \in 1..Len(pending') : pending'[i] = pending[j]
    BY <1>2, <1>5, PoolTakesFirst DEF PoolHas
  <2>2. accepted' = accepted \cup {t}
    BY <1>3, <2>1
  <2> QED BY <1>3, <1>7, <1>8, <1>9, <2>1, <2>2, PoolGivesTask
<1>11. pending' \in Seq(Tasks) /\ n' \in Int /\ ~coordinatorQuit
  BY <1>2, <1>3, PoolTakesFirst DEF PoolInvariant, PoolQuits
<1> QED BY <1>2, <1>3, <1>7, <1>8, <1>10, <1>11, PoolGiven

LEMMA PoolDispatch ==
    ASSUME PoolInvariant, NEW w \in Workers, Pool!Dispatch(w)
    PROVE  PoolInvariant'
<1>1. /\ thread[w] = "dispatch" /\ thread' = [thread EXCEPT ![w] = "get"]
      /\ busyCount' = busyCount + 1 /\ task' = [task EXCEPT ![w] = NONE] /\ lock' = NONE
      /\ taskQueue' = [taskQueue EXCEPT ![picked] = Append(@, task[w])] /\ workerQuit' = workerQuit
      /\ UNCHANGED <<idle, started, size, seen, teamQuit, shouldQuit, coordinatorQuit, poolPc, then,
                     accepted, begun, ended, n, pending>>
  BY DEF Pool!Dispatch, Pool!At, Pool!CountBusy, Pool!DoTask, Pool!pool, Pool!caller
<1>2. picked = w /\ PoolEmpty(w) /\ lock = w /\ w \notin idle /\ ~workerQuit[w]
  BY <1>1, PoolQueue DEF PoolInvariant, PoolThreads, PoolHolds, PoolWaits
<1>3. PICK t \in Tasks : t = task[w]
  BY <1>1 DEF PoolInvariant, PoolThreads, PoolTypes
<1>4. w \notin PoolBusy
  BY <1>1, <1>2, PoolQueue DEF PoolBusy, PoolInvariant
<1>5. PoolGives(w, t)
  <2>1. taskQueue' = [taskQueue EXCEPT ![w] = <<t>>]
    BY <1>1, <1>2, <1>3, OneElement DEF PoolEmpty, PoolInvariant, PoolTypes
  <2>2. workerQuit[w] = FALSE
    BY <1>2 DEF PoolInvariant, PoolTypes
  <2>3. workerQuit' = [workerQuit EXCEPT ![w] = FALSE]
    BY <1>1, <2>2 DEF PoolInvariant, PoolTypes
  <2>4. lock' # w /\ \A v \in Workers \ {w} : (lock' = v <=> lock = v) /\ (picked = v => picked' = v)
    BY <1>1, <1>2, PoolConstants
  <2>5. idle' = idle \ {w}
    BY <1>1, <1>2
  <2> QED BY <1>1, <2>1, <2>3, <2>4, <2>5 DEF PoolGives
<1>6. \A v \in Workers : \A u \in Tasks : PoolHas(v, u)' <=> PoolHas(v, u) \/ (v = w /\ u = t)
  BY <1>2, <1>4, <1>5, PoolGivesWorker
<1>7. /\ begun[t] = 0 /\ t \in accepted /\ \A v \in Workers : ~PoolHas(v, t) /\ (task[v] = t => v = w)
      /\ \A i, j \in 1..Len(pending) : pending[i] = pending[j] => i = j
      /\ \A i \in 1..Len(pending) : pending[i] # t
  BY <1>1, <1>3 DEF PoolInvariant, PoolTasks, PoolPlaces, PoolFresh
<1>8. pending' \in Seq(Tasks) /\ n' \in Int
  BY <1>1 DEF PoolInvariant, PoolTypes
<1>9. PoolTasks'
  <2>1. accepted' = accepted \cup {t}
    BY <1>1, <1>7
  <2> QED BY <1>1, <1>3, <1>5, <1>6, <1>7, <1>8, <2>1, PoolGivesTask
<1>10. /\ ~coordinatorQuit /\ (started \/ teamQuit \/ poolPc = "quit")
       /\ teamQuit => poolPc = "join"
  <2>1. PoolReturning /\ ~PoolUnused
    BY <1>1 DEF PoolReturning, PoolHolds, PoolUnused
  <2> QED BY <1>1, <2>1 DEF PoolInvariant, PoolQuits
<1>11. lock' # "caller"
  BY <1>1, PoolConstants
<1> QED BY <1>1, <1>2, <1>4, <1>5, <1>8, <1>9, <1>10, <1>11, PoolGiven

-------------------------------------------------------------------------------
\* Steps of one worker's thread.
PoolThread(w) ==
    /\ PoolHolds(w) <=> lock = w
    /\ thread[w] # "get" => PoolEmpty(w)
    /\ workerQuit[w] <=> (thread[w] = "dead" \/ PoolStops(w))
    /\ w \in idle <=> (thread[w] = "recycle" \/ PoolWaits(w))
    /\ task[w] # NONE <=> thread[w] \in {"task", "dispatch"}
    /\ thread[w] = "dispatch" => picked = w

\* Everything else is left alone.
PoolOnly(w) ==
    /\ idle' \subseteq Workers /\ thread' = [thread EXCEPT ![w] = thread'[w]]
    /\ taskQueue' = [taskQueue EXCEPT ![w] = taskQueue'[w]]
    /\ task' = [task EXCEPT ![w] = task'[w]] /\ workerQuit' = workerQuit
    /\ \A v \in Workers \ {w} : /\ v \in idle' <=> v \in idle
                                /\ lock' = v <=> lock = v
                                /\ thread[v] = "dispatch" => picked' = picked
    /\ UNCHANGED <<started, size, seen, teamQuit, shouldQuit, coordinatorQuit, poolPc, then, n,
                   accepted>>

LEMMA PoolOthers ==
    ASSUME PoolInvariant, NEW w \in Workers, PoolOnly(w), PoolThread(w)'
    PROVE  /\ PoolThreads'
           /\ \A v \in Workers \ {w} : /\ v \in PoolBusy' <=> v \in PoolBusy
                                       /\ PoolHolds(v)' <=> PoolHolds(v)
                                       /\ thread'[v] = thread[v] /\ task'[v] = task[v]
                                       /\ \A t \in Tasks : PoolHas(v, t)' <=> PoolHas(v, t)
<1>1. \A v \in Workers \ {w} : /\ thread'[v] = thread[v] /\ taskQueue'[v] = taskQueue[v]
                               /\ task'[v] = task[v]
  BY DEF PoolOnly, PoolInvariant, PoolTypes
<1>2. ASSUME NEW v \in Workers \ {w} PROVE PoolThread(v)'
  <2>1. PoolThread(v)
    BY DEF PoolThread, PoolInvariant, PoolThreads
  <2> QED BY <1>1, <2>1 DEF PoolThread, PoolOnly, PoolHolds, PoolEmpty, PoolStops, PoolWaits
<1>3. PoolThreads'
  BY <1>2 DEF PoolThreads, PoolThread
<1>4. \A v \in Workers \ {w} : /\ v \in PoolBusy' <=> v \in PoolBusy
                               /\ PoolHolds(v)' <=> PoolHolds(v)
                               /\ \A t \in Tasks : PoolHas(v, t)' <=> PoolHas(v, t)
  BY <1>1 DEF PoolBusy, PoolHas, PoolHolds
<1> QED BY <1>1, <1>3, <1>4

LEMMA PoolStepsBack ==
    ASSUME PoolInvariant, NEW w \in Workers, PoolOnly(w),
           w \in PoolBusy \/ PoolHolds(w), w \in PoolBusy' \/ PoolHolds(w)',
           thread[w] # "none", thread'[w] # "none", lock' \in {lock, w},
           w \in idle' => thread'[w] = "recycle",
           pending' # <<>> => pending # <<>>
    PROVE  PoolBacklog' /\ PoolQuits'
<1>1. PoolReturning /\ PoolReturning' /\ ~PoolUnused /\ ~PoolUnused'
  BY DEF PoolReturning, PoolUnused
<1>2. \A v \in Workers \ {w} : thread'[v] = thread[v] /\ (v \in idle' => v \in idle)
  BY DEF PoolOnly, PoolInvariant, PoolTypes
<1>3. ASSUME pending' # <<>>, NEW v \in idle' PROVE thread'[v] = "recycle"
  <2>1. CASE v = w
    BY <2>1
  <2>2. CASE v # w /\ v \in Workers
    BY <1>2, <1>3, <2>2 DEF PoolInvariant, PoolBacklog
  <2>3. CASE v \notin Workers
    <3>1. idle' \subseteq Workers
      BY DEF PoolOnly
    <3> QED BY <2>3, <3>1
  <2> QED BY <2>1, <2>2, <2>3
<1>4. PoolBacklog'
  BY <1>1, <1>3 DEF PoolBacklog
<1>5. teamQuit => poolPc = "join"
  BY <1>1 DEF PoolInvariant, PoolQuits, PoolReturning, PoolBusy, PoolHolds, PoolHas, PoolThreads,
             PoolEmpty
<1>6. PoolQuits'
  BY <1>1, <1>5, PoolConstants DEF PoolInvariant, PoolQuits, PoolOnly
<1> QED BY <1>4, <1>6

\* A busy worker that goes on with its task stays busy.
LEMMA PoolStaysBusy ==
    ASSUME PoolInvariant, NEW w \in Workers, PoolOnly(w), PoolThread(w)',
           w \in PoolBusy, w \in PoolBusy', idle' = idle, busyCount' = busyCount
    PROVE  PoolCounts'
<1>1. PoolBusy \subseteq Workers /\ PoolBusy' \subseteq Workers
  BY DEF PoolBusy
<1>2. PoolBusy' = PoolBusy
  BY <1>1, PoolOthers
<1> QED BY <1>2 DEF PoolInvariant, PoolCounts

LEMMA PoolGetTask ==
    ASSUME PoolInvariant, NEW w \in Workers, Pool!GetTask(w)
    PROVE  PoolInvariant'
<1>1. /\ thread[w] = "get" /\ thread' = [thread EXCEPT ![w] = "task"]
      /\ taskQueue[w] # <<>> /\ Head(taskQueue[w]) # "stop"
      /\ taskQueue' = [taskQueue EXCEPT ![w] = Tail(taskQueue[w])]
      /\ task' = [task EXCEPT ![w] = Head(taskQueue[w])]
      /\ begun' = [begun EXCEPT ![Head(taskQueue[w])] = begun[Head(taskQueue[w])] + 1]
      /\ UNCHANGED <<started, size, seen, teamQuit, shouldQuit, coordinatorQuit, poolPc, then, n,
                     accepted, ended, lock, idle, picked, workerQuit, pending, busyCount>>
  BY DEF Pool!GetTask, Pool!At, Pool!pool, Pool!team, Pool!caller
<1>2. PICK t \in Tasks : PoolHas(w, t)
  <2>1. ~PoolEmpty(w) /\ ~PoolStops(w)
    BY <1>1, OneElement DEF PoolEmpty, PoolStops
  <2> QED BY <2>1, PoolQueue DEF PoolInvariant
<1>3. Head(taskQueue[w]) = t /\ Tail(taskQueue[w]) = <<>>
  BY <1>2, OneElement DEF PoolHas
<1>4. /\ thread \in [Workers -> {"none", "get", "task", "report", "wait", "decrement", "add",
                                 "recycle", "dispatch", "dead"}]
      /\ task \in [Workers -> Tasks \cup {NONE}]
  BY DEF PoolInvariant, PoolTypes
<1>5. taskQueue' \in [Workers -> PoolQueues] /\ taskQueue'[w] = <<>>
  <2>1. <<>> \in PoolQueues
    BY DEF PoolQueues
  <2> QED BY <1>1, <1>3, <2>1, PoolQueueSet DEF PoolInvariant
<1>6. thread'[w] = "task" /\ task'[w] = t /\ task[w] = NONE
  BY <1>1, <1>3, <1>4 DEF PoolInvariant, PoolThreads
<1>7. PoolOnly(w)
  BY <1>1, <1>3, <1>5, <1>6 DEF PoolOnly, PoolInvariant, PoolTypes
<1>8. PoolThread(w)'
  <2>1. PoolThread(w) /\ ~PoolStops(w) /\ ~PoolEmpty(w)
    BY <1>2, PoolQueue DEF PoolThread, PoolInvariant, PoolThreads
  <2>2. PoolEmpty(w)' /\ ~PoolStops(w)'
    BY <1>5, OneElement DEF PoolEmpty, PoolStops
  <2> QED BY <1>1, <1>6, <2>1, <2>2, PoolConstants DEF PoolThread, PoolHolds, PoolWaits
<1>9. w \in PoolBusy /\ w \in PoolBusy' /\ \A u \in Tasks : ~PoolHas(w, u)'
  BY <1>2, <1>5, <1>6, OneElement DEF PoolBusy, PoolHas
<1>10. /\ PoolThreads'
       /\ \A v \in Workers \ {w} : /\ thread'[v] = thread[v] /\ task'[v] = task[v]
                                   /\ \A u \in Tasks : PoolHas(v, u)' <=> PoolHas(v, u)
  BY <1>7, <1>8, PoolOthers
<1>11. PoolCounts'
  BY <1>1, <1>7, <1>8, <1>9, PoolStaysBusy
<1>12. PoolBacklog' /\ PoolQuits'
  <2>1. w \notin idle
    BY <1>9, PoolIdle
  <2> QED BY <1>1, <1>6, <1>7, <1>9, <2>1, PoolStepsBack
<1>13. PoolTypes'
  BY <1>1, <1>3, <1>5 DEF PoolInvariant, PoolTypes, PoolQueues
<1>14. PoolPlaces /\ PoolFresh /\ PoolAccounted /\ pending \in Seq(Tasks)
  BY DEF PoolInvariant, PoolTasks, PoolTypes
<1>15. \A i \in 1..Len(pending) : pending[i] \in Tasks /\ pending[i] # t
  BY <1>2, <1>14 DEF PoolPlaces
<1>16. PoolPlaces'
  <2>1. ASSUME NEW i \in 1..Len(pending), NEW v \in Workers
        PROVE  taskQueue'[v] # <<pending[i]>> /\ task'[v] # pending[i]
    <3>1. PICK u \in Tasks : u = pending[i]
      BY <1>15
    <3>2. ~PoolHas(v, u) /\ task[v] # u /\ u # t
      BY <1>14, <1>15, <3>1 DEF PoolPlaces
    <3>3. ~PoolHas(v, u)' /\ task'[v] # u
      BY <1>6, <1>9, <1>10, <3>2
    <3> QED BY <3>1, <3>3 DEF PoolHas
  <2>2. ASSUME NEW x \in Workers, NEW v \in Workers, NEW u \in Tasks
        PROVE  /\ (PoolHas(x, u)' /\ PoolHas(v, u)') => x = v
               /\ ~(PoolHas(x, u)' /\ task'[v] = u)
               /\ (task'[x] = u /\ task'[v] = u) => x = v
    BY <1>2, <1>6, <1>9, <1>10, <1>14 DEF PoolPlaces
  <2>3. \A i, j \in 1..Len(pending) : pending[i] = pending[j] => i = j
    BY <1>14 DEF PoolPlaces
  <2>4. pending' = pending
    BY <1>1
  <2> QED BY ONLY <2>1, <2>2, <2>3, <2>4 DEF PoolPlaces, PoolHas
<1>17. PoolFresh'
  <2>0. begun[t] = 0 /\ t \in accepted
    BY <1>2, <1>14 DEF PoolFresh
  <2>1. /\ begun' \in [Tasks -> 0..1] /\ begun'[t] = 1
        /\ \A u \in Tasks \ {t} : begun'[u] = begun[u]
    BY <1>1, <1>3, <1>14, <2>0 DEF PoolFresh
  <2>2. ASSUME NEW i \in 1..Len(pending) PROVE begun'[pending[i]] = 0 /\ pending[i] \in accepted
    BY <1>14, <1>15, <2>1 DEF PoolFresh
  <2>3. ASSUME NEW v \in Workers, NEW u \in Tasks
        PROVE  /\ PoolHas(v, u)' => begun'[u] = 0 /\ u \in accepted
               /\ task'[v] = u => u \in accepted
               /\ (task'[v] = u /\ thread'[v] = "dispatch") => begun'[u] = 0
    <3>1. CASE v = w
      BY <1>6, <1>9, <2>0, <3>1
    <3>2. CASE v # w /\ u = t
      BY <1>2, <1>10, <1>14, <3>2, <2>0 DEF PoolPlaces
    <3>3. CASE v # w /\ u # t
      BY <1>10, <1>14, <2>1, <3>3 DEF PoolFresh
    <3> QED BY <3>1, <3>2, <3>3
  <2>4. \A u \in Tasks : u \notin accepted => begun'[u] = 0
    BY <1>14, <2>0, <2>1 DEF PoolFresh
  <2>5. accepted \subseteq Tasks /\ ended \subseteq accepted
    BY <1>14 DEF PoolFresh
  <2> QED BY <1>1, <2>1, <2>2, <2>3, <2>4, <2>5 DEF PoolFresh
<1>18. PoolAccounted'
  <2> SUFFICES ASSUME NEW u \in accepted, u \notin ended
               PROVE  \/ \E i \in 1..Len(pending) : pending[i] = u
                      \/ \E v \in Workers : PoolHas(v, u)' \/ task'[v] = u
    BY <1>1 DEF PoolAccounted
  <2>0. u \in Tasks
    BY <1>14 DEF PoolFresh
  <2>1. \/ \E i \in 1..Len(pending) : pending[i] = u
        \/ \E v \in Workers : PoolHas(v, u) \/ task[v] = u
    BY <1>14 DEF PoolAccounted
  <2>2. ASSUME NEW v \in Workers, PoolHas(v, u) \/ task[v] = u PROVE PoolHas(v, u)' \/ task'[v] = u
    <3>1. v = w => u = t
      BY <1>2, <1>6, <2>0, <2>2, PoolQueue, PoolConstants DEF PoolInvariant
    <3> QED BY <1>6, <1>10, <2>0, <2>2, <3>1
  <2> QED BY <2>1, <2>2
<1> QED BY <1>10, <1>11, <1>12, <1>13, <1>16, <1>17, <1>18 DEF PoolInvariant, PoolTasks

LEMMA PoolGetStop ==
    ASSUME PoolInvariant, NEW w \in Workers, Pool!GetStop(w)
    PROVE  PoolInvariant'
<1>1. /\ thread[w] = "get" /\ thread' = [thread EXCEPT ![w] = "dead"]
      /\ taskQueue[w] # <<>> /\ Head(taskQueue[w]) = "stop"
      /\ taskQueue' = [taskQueue EXCEPT ![w] = Tail(taskQueue[w])]
      /\ UNCHANGED <<started, size, seen, teamQuit, shouldQuit, coordinatorQuit, poolPc, then, n,
                     accepted, begun, ended, lock, idle, picked, workerQuit, pending, busyCount, task>>
  BY DEF Pool!GetStop, Pool!At, Pool!pool, Pool!team, Pool!caller
<1>2. PoolStops(w)
  <2>1. ~PoolEmpty(w)
    BY <1>1 DEF PoolEmpty
  <2>2. ASSUME NEW t \in Tasks, PoolHas(w, t) PROVE FALSE
    BY <1>1, <2>2, OneElement, PoolConstants DEF PoolHas
  <2> QED BY <2>1, <2>2, PoolQueue DEF PoolInvariant
<1>3. Tail(taskQueue[w]) = <<>>
  BY <1>2, OneElement DEF PoolStops
<1>4. taskQueue' \in [Workers -> PoolQueues] /\ taskQueue'[w] = <<>>
  <2>1. <<>> \in PoolQueues
    BY DEF PoolQueues
  <2> QED BY <1>1, <1>3, <2>1, PoolQueueSet DEF PoolInvariant
<1>5. thread'[w] = "dead"
  BY <1>1 DEF PoolInvariant, PoolTypes
<1>6. PoolOnly(w)
  BY <1>1, <1>3, <1>4, <1>5 DEF PoolOnly, PoolInvariant, PoolTypes
<1>7. PoolThread(w)'
  <2>1. PoolThread(w) /\ ~PoolEmpty(w)
    BY <1>2, PoolQueue DEF PoolThread, PoolInvariant, PoolThreads
  <2>2. PoolEmpty(w)'
    BY <1>4 DEF PoolEmpty
  <2> QED BY <1>1, <1>2, <1>5, <2>1, <2>2 DEF PoolThread, PoolHolds, PoolWaits
<1>8. \A t \in Tasks : ~PoolHas(w, t) /\ ~PoolHas(w, t)'
  BY <1>2, <1>4, PoolQueue, OneElement DEF PoolHas, PoolInvariant
<1>9. w \notin PoolBusy /\ w \notin PoolBusy' /\ ~PoolHolds(w) /\ ~PoolHolds(w)'
  BY <1>1, <1>5, <1>8 DEF PoolBusy, PoolHolds
<1>10. /\ PoolThreads'
       /\ \A v \in Workers \ {w} : /\ v \in PoolBusy' <=> v \in PoolBusy
                                   /\ PoolHolds(v)' <=> PoolHolds(v)
                                   /\ thread'[v] = thread[v]
                                   /\ \A t \in Tasks : PoolHas(v, t)' <=> PoolHas(v, t)
  BY <1>6, <1>7, PoolOthers
<1>11. PoolBusy' = PoolBusy
  <2>1. PoolBusy \subseteq Workers /\ PoolBusy' \subseteq Workers
    BY DEF PoolBusy
  <2> QED BY <1>9, <1>10, <2>1
<1>12. PoolCounts'
  BY <1>1, <1>11 DEF PoolInvariant, PoolCounts
<1>13. PoolTasks'
  BY <1>1, <1>5, <1>8, <1>10, PoolTasksKept DEF PoolInvariant, PoolTypes
<1>14. PoolTypes'
  BY <1>1, <1>4 DEF PoolInvariant, PoolTypes, PoolQueues
<1>15. /\ PoolReturning' <=> PoolReturning
       /\ ~PoolUnused /\ ~PoolUnused'
  BY <1>1, <1>5, <1>9, <1>10, <1>11 DEF PoolReturning, PoolUnused
<1>16. w \notin idle
  BY <1>2, PoolIdle, PoolQueue DEF PoolInvariant
<1>17. PoolBacklog'
  <2>1. \A v \in idle : thread'[v] = thread[v]
    BY <1>10, <1>16 DEF PoolInvariant, PoolTypes
  <2> QED BY <1>1, <1>15, <2>1 DEF PoolInvariant, PoolBacklog
<1>18. PoolQuits'
  <2>1. teamQuit => poolPc = "join"
    BY <1>1 DEF PoolInvariant, PoolQuits
  <2> QED BY <1>1, <1>15, <2>1 DEF PoolInvariant, PoolQuits
<1> QED BY <1>10, <1>12, <1>13, <1>14, <1>17, <1>18 DEF PoolInvariant

LEMMA PoolTaskEnds ==
    ASSUME PoolInvariant, NEW w \in Workers, Pool!TaskEnds(w)
    PROVE  PoolInvariant'
<1>1. /\ thread[w] = "task" /\ thread' = [thread EXCEPT ![w] = "report"]
      /\ ended' = ended \cup {task[w]} /\ task' = [task EXCEPT ![w] = NONE]
      /\ UNCHANGED <<started, size, seen, teamQuit, shouldQuit, coordinatorQuit, poolPc, then, n,
                     accepted, begun, lock, idle, picked, workerQuit, pending, busyCount, taskQueue>>
  BY DEF Pool!TaskEnds, Pool!At, Pool!pool, Pool!team, Pool!caller
<1>2. PICK t \in Tasks : t = task[w]
  BY <1>1 DEF PoolInvariant, PoolThreads, PoolTypes
<1>3. thread'[w] = "report" /\ task'[w] = NONE /\ taskQueue'[w] = taskQueue[w]
  BY <1>1 DEF PoolInvariant, PoolTypes
<1>4. PoolOnly(w)
  BY <1>1, <1>3 DEF PoolOnly, PoolInvariant, PoolTypes
<1>5. PoolThread(w)'
  <2>1. PoolThread(w)
    BY DEF PoolThread, PoolInvariant, PoolThreads
  <2> QED BY <1>1, <1>3, <2>1 DEF PoolThread, PoolHolds, PoolWaits, PoolEmpty, PoolStops
<1>6. w \in PoolBusy /\ w \in PoolBusy'
  BY <1>1, <1>3 DEF PoolBusy
<1>7. /\ PoolThreads'
      /\ \A v \in Workers \ {w} : thread'[v] = thread[v] /\ task'[v] = task[v]
  BY <1>4, <1>5, PoolOthers
<1>8. PoolCounts'
  BY <1>1, <1>4, <1>5, <1>6, PoolStaysBusy
<1>9. PoolBacklog' /\ PoolQuits'
  <2>1. w \notin idle
    BY <1>6, PoolIdle
  <2> QED BY <1>1, <1>3, <1>4, <1>6, <2>1, PoolStepsBack
<1>10. PoolTypes'
  BY <1>1 DEF PoolInvariant, PoolTypes
<1>11. PoolPlaces /\ PoolFresh /\ PoolAccounted /\ pending \in Seq(Tasks)
  BY DEF PoolInvariant, PoolTasks, PoolTypes
<1>12. \A v \in Workers : \A u \in Tasks : PoolHas(v, u)' <=> PoolHas(v, u)
  BY <1>1 DEF PoolHas
<1>13. NONE \notin Tasks /\ \A i \in 1..Len(pending) : pending[i] \in Tasks
  BY <1>11, PoolConstants
<1>14. PoolPlaces'
  <2>1. ASSUME NEW i \in 1..Len(pending), NEW v \in Workers
        PROVE  taskQueue'[v] # <<pending[i]>> /\ task'[v] # pending[i]
    <3>1. taskQueue[v] # <<pending[i]>> /\ task[v] # pending[i]
      BY <1>11 DEF PoolPlaces, PoolHas
    <3> QED BY <1>1, <1>3, <1>7, <1>13, <3>1
  <2>2. ASSUME NEW x \in Workers, NEW v \in Workers, NEW u \in Tasks
        PROVE  /\ (PoolHas(x, u)' /\ PoolHas(v, u)') => x = v
               /\ ~(PoolHas(x, u)' /\ task'[v] = u)
               /\ (task'[x] = u /\ task'[v] = u) => x = v
    BY <1>3, <1>7, <1>11, <1>12, <1>13 DEF PoolPlaces
  <2>3. (\A i, j \in 1..Len(pending) : pending[i] = pending[j] => i = j) /\ pending' = pending
    BY <1>1, <1>11 DEF PoolPlaces
  <2> QED BY ONLY <2>1, <2>2, <2>3 DEF PoolPlaces, PoolHas
<1>15. PoolFresh'
  <2>1. ended' \subseteq accepted
    BY <1>1, <1>2, <1>11 DEF PoolFresh
  <2>2. ASSUME NEW v \in Workers, NEW u \in Tasks
        PROVE  /\ PoolHas(v, u)' => begun[u] = 0 /\ u \in accepted
               /\ task'[v] = u => u \in accepted
               /\ (task'[v] = u /\ thread'[v] = "dispatch") => begun[u] = 0
    BY <1>3, <1>7, <1>11, <1>12, <1>13 DEF PoolFresh
  <2> QED BY <1>1, <1>11, <2>1, <2>2 DEF PoolFresh
<1>16. PoolAccounted'
  <2> SUFFICES ASSUME NEW u \in accepted, u \notin ended'
               PROVE  \/ \E i \in 1..Len(pending) : pending[i] = u
                      \/ \E v \in Workers : PoolHas(v, u)' \/ task'[v] = u
    BY <1>1 DEF PoolAccounted
  <2>1. u \in Tasks /\ u # t
    BY <1>1, <1>2, <1>11 DEF PoolFresh
  <2>2. \/ \E i \in 1..Len(pending) : pending[i] = u
        \/ \E v \in Workers : PoolHas(v, u) \/ task[v] = u
    BY <1>1, <1>11 DEF PoolAccounted
  <2>3. ASSUME NEW v \in Workers, PoolHas(v, u) \/ task[v] = u PROVE PoolHas(v, u)' \/ task'[v] = u
    BY <1>2, <1>7, <1>12, <2>1, <2>3
  <2> QED BY <2>2, <2>3
<1> QED BY <1>7, <1>8, <1>9, <1>10, <1>14, <1>15, <1>16 DEF PoolInvariant, PoolTasks

\* report, wait, decrement, add: the worker is on its way back to the idle ones.
LEMMA PoolReports ==
    ASSUME PoolInvariant, NEW w \in Workers,
           Pool!Report(w) \/ Pool!Acquire(w) \/ Pool!Decrement(w) \/ Pool!AddIdle(w)
    PROVE  PoolInvariant'
<1>1. /\ UNCHANGED <<started, size, seen, teamQuit, shouldQuit, coordinatorQuit, poolPc, then, n,
                     accepted, begun, ended, picked, workerQuit, pending, taskQueue, task>>
      /\ thread[w] \in {"report", "wait", "decrement", "add"}
  BY DEF Pool!Report, Pool!Acquire, Pool!Decrement, Pool!AddIdle, Pool!At, Pool!pool, Pool!team,
         Pool!caller, Pool!CountBack
<1>2. w \in PoolBusy \/ PoolHolds(w)
  BY <1>1 DEF PoolBusy, PoolHolds
<1>3. ~coordinatorQuit
  BY <1>2 DEF PoolInvariant, PoolQuits, PoolReturning
<1>4. \/ /\ thread[w] = "report" /\ thread' = [thread EXCEPT ![w] = "wait"]
         /\ UNCHANGED <<lock, idle, busyCount>>
      \/ /\ thread[w] = "wait" /\ thread' = [thread EXCEPT ![w] = "decrement"]
         /\ lock = NONE /\ lock' = w /\ UNCHANGED <<idle, busyCount>>
      \/ /\ thread[w] = "decrement" /\ thread' = [thread EXCEPT ![w] = "add"]
         /\ busyCount' = busyCount - 1 /\ UNCHANGED <<lock, idle>>
      \/ /\ thread[w] = "add" /\ thread' = [thread EXCEPT ![w] = "recycle"]
         /\ idle' = idle \cup {w} /\ UNCHANGED <<lock, busyCount>>
  BY <1>3 DEF Pool!Report, Pool!Acquire, Pool!Decrement, Pool!AddIdle, Pool!At, Pool!team,
         Pool!CountBack
<1>5. /\ thread'[w] \in {"wait", "decrement", "add", "recycle"}
      /\ taskQueue'[w] = taskQueue[w] /\ task'[w] = task[w]
      /\ thread' = [thread EXCEPT ![w] = thread'[w]]
  BY <1>1, <1>4 DEF PoolInvariant, PoolTypes
<1>6. PoolOnly(w)
  BY <1>1, <1>4, <1>5, PoolConstants DEF PoolOnly, PoolInvariant, PoolTypes
<1>7. PoolThread(w)'
  <2>1. PoolThread(w)
    BY DEF PoolThread, PoolInvariant, PoolThreads
  <2>2. /\ thread[w] = "report" => thread'[w] = "wait"
        /\ thread[w] = "wait" => thread'[w] = "decrement"
        /\ thread[w] = "decrement" => thread'[w] = "add"
        /\ thread[w] = "add" => thread'[w] = "recycle"
    BY <1>1, <1>4 DEF PoolInvariant, PoolTypes
  <2> QED BY <1>1, <1>4, <1>5, <2>1, <2>2 DEF PoolThread, PoolHolds, PoolWaits, PoolEmpty, PoolStops
<1>8. /\ PoolThreads'
      /\ \A v \in Workers \ {w} : /\ v \in PoolBusy' <=> v \in PoolBusy
                                  /\ thread'[v] = thread[v]
  BY <1>6, <1>7, PoolOthers
<1>9. PoolTasks'
  <2>1. \A v \in Workers : \A t \in Tasks : PoolHas(v, t)' <=> PoolHas(v, t)
    BY <1>1 DEF PoolHas
  <2>2. \A v \in Workers : thread'[v] = "dispatch" => thread[v] = "dispatch"
    BY <1>5, <1>8
  <2> QED BY <1>1, <2>1, <2>2, PoolTasksKept DEF PoolInvariant, PoolTypes
<1>10. PoolBacklog' /\ PoolQuits'
  <2>1. w \in PoolBusy' \/ PoolHolds(w)'
    BY <1>5 DEF PoolBusy, PoolHolds
  <2>2. w \in idle' => thread'[w] = "recycle"
    BY <1>5, <1>7 DEF PoolThread, PoolWaits
  <2>3. lock' \in {lock, w} /\ thread[w] # "none" /\ thread'[w] # "none"
    BY <1>1, <1>4, <1>5
  <2> QED BY <1>1, <1>2, <1>6, <2>1, <2>2, <2>3, PoolStepsBack
<1>11. /\ IsFiniteSet(idle) /\ IsFiniteSet(PoolBusy) /\ busyCount = Cardinality(PoolBusy)
       /\ PoolBusy \subseteq Workers /\ PoolBusy' \subseteq Workers
       /\ \A t \in Tasks : ~PoolHas(w, t) /\ ~PoolHas(w, t)'
  <2>1. PoolEmpty(w)
    BY <1>1 DEF PoolInvariant, PoolThreads
  <2> QED BY <1>1, <2>1, PoolQueue DEF PoolInvariant, PoolCounts, PoolBusy, PoolHas
<1>12. PoolCounts' /\ busyCount' \in Nat
  <2>1. CASE thread[w] \in {"report", "wait"}
    <3>1. thread'[w] \in {"wait", "decrement"} /\ idle' = idle /\ busyCount' = busyCount
      BY <1>4, <1>5, <2>1 DEF PoolInvariant, PoolTypes
    <3>2. PoolBusy' = PoolBusy
      BY <1>8, <1>11, <2>1, <3>1 DEF PoolBusy
    <3> QED BY <1>11, <3>1, <3>2 DEF PoolCounts, PoolInvariant, PoolTypes
  <2>2. CASE thread[w] = "decrement"
    <3>1. thread'[w] = "add" /\ idle' = idle /\ busyCount' = busyCount - 1
      BY <1>4, <2>2 DEF PoolInvariant, PoolTypes
    <3>2. w \in PoolBusy /\ PoolBusy' = PoolBusy \ {w}
      BY <1>8, <1>11, <2>2, <3>1 DEF PoolBusy
    <3>3. IsFiniteSet(PoolBusy \ {w}) /\ Cardinality(PoolBusy \ {w}) = busyCount - 1
      BY <1>11, <3>2, FS_RemoveElement
    <3> QED BY <1>11, <3>1, <3>2, <3>3, FS_CardinalityType DEF PoolCounts
  <2>3. CASE thread[w] = "add"
    <3>1. thread'[w] = "recycle" /\ idle' = idle \cup {w} /\ busyCount' = busyCount
      BY <1>4, <2>3 DEF PoolInvariant, PoolTypes
    <3>2. PoolBusy' = PoolBusy
      BY <1>8, <1>11, <2>3, <3>1 DEF PoolBusy
    <3>3. IsFiniteSet(idle \cup {w})
      BY <1>11, FS_AddElement
    <3> QED BY <1>11, <3>1, <3>2, <3>3 DEF PoolCounts, PoolInvariant, PoolTypes
  <2> QED BY <1>1, <2>1, <2>2, <2>3
<1>13. PoolTypes'
  BY <1>1, <1>4, <1>6, <1>12 DEF PoolInvariant, PoolTypes, PoolOnly
<1> QED BY <1>8, <1>9, <1>10, <1>12, <1>13 DEF PoolInvariant

-------------------------------------------------------------------------------
\* No worker for a task: all those that the pool may have are busy.
LEMMA PoolCallBacklogged ==
    ASSUME PoolInvariant, NEW t \in Tasks, Pool!CallBacklogged(t)
    PROVE  PoolInvariant'
<1>1. /\ poolPc = "free" /\ ~teamQuit /\ lock = NONE /\ idle = {} /\ ~Pool!MayCreate
      /\ t \notin accepted /\ accepted' = accepted \cup {t} /\ pending' = Append(pending, t)
      /\ UNCHANGED <<started, size, seen, teamQuit, shouldQuit, coordinatorQuit, poolPc, then, n,
                     begun, ended, lock, idle, busyCount, thread, task, picked, taskQueue,
                     workerQuit>>
  BY DEF Pool!CallBacklogged, Pool!CallInThread, Pool!pool, Pool!caller
<1>2. /\ begun[t] = 0 /\ \A v \in Workers : ~PoolHas(v, t) /\ task[v] # t
      /\ \A i \in 1..Len(pending) : pending[i] # t
  BY <1>1, PoolNewTask
<1>3. PoolPlaces /\ PoolFresh /\ PoolAccounted /\ pending \in Seq(Tasks) /\ Len(pending) \in Nat
  BY DEF PoolInvariant, PoolTasks, PoolTypes
<1>4. /\ pending' \in Seq(Tasks) /\ Len(pending') = Len(pending) + 1
      /\ \A i \in 1..Len(pending) : pending'[i] = pending[i]
      /\ pending'[Len(pending) + 1] = t
  BY <1>1, <1>3
<1>5. \A i \in 1..Len(pending') : i \in 1..Len(pending) \/ i = Len(pending) + 1
  BY <1>3, <1>4
<1>6. PoolTypes'
  BY <1>1, <1>4 DEF PoolInvariant, PoolTypes
<1>7. PoolBusy' = PoolBusy
  BY <1>1 DEF PoolBusy, PoolHas
<1>8. PoolThreads' /\ PoolCounts'
  BY <1>1, <1>7 DEF PoolInvariant, PoolThreads, PoolCounts, PoolHolds, PoolWaits, PoolEmpty, PoolStops
<1>9. (PoolUnused' <=> PoolUnused) /\ (PoolReturning' <=> PoolReturning)
  BY <1>1, <1>7 DEF PoolUnused, PoolReturning, PoolHolds
<1>10. PoolQuits'
  BY <1>1, <1>9 DEF PoolInvariant, PoolQuits
<1>11. ASSUME Pool!CanRunTasks, started PROVE PoolReturning
  <2>1. size[2] \in Nat /\ size[2] > 0 /\ busyCount \in Nat
    BY <1>11, PoolConstants DEF PoolInvariant, PoolTypes, Pool!CanRunTasks
  <2>2. Pool!Cardinality(idle) = 0
    BY <1>1, FS_EmptySet, PoolCardinality
  <2>3. busyCount # 0
    BY <1>1, <1>11, <2>1, <2>2 DEF Pool!MayCreate, Pool!CurrentLimit
  <2>4. PoolBusy # {}
    BY <2>3, FS_EmptySet DEF PoolInvariant, PoolCounts
  <2> QED BY <1>1, <2>4, PoolNobodyInside
<1>12. ~started => PoolUnused
  BY <1>1 DEF PoolInvariant, PoolQuits
<1>13. ~(PoolReturning /\ PoolUnused)
  BY PoolQueue DEF PoolInvariant, PoolThreads, PoolReturning, PoolUnused, PoolBusy, PoolHolds
<1>14. PoolBacklog'
  BY <1>1, <1>9, <1>11, <1>12, <1>13 DEF PoolBacklog
<1>15. PoolPlaces'
  <2>1. ASSUME NEW i \in 1..Len(pending'), NEW j \in 1..Len(pending'), pending'[i] = pending'[j]
        PROVE  i = j
    BY <1>2, <1>3, <1>4, <1>5, <2>1 DEF PoolPlaces
  <2>2. ASSUME NEW i \in 1..Len(pending'), NEW v \in Workers
        PROVE  taskQueue'[v] # <<pending'[i]>> /\ task'[v] # pending'[i]
    <3>1. CASE i \in 1..Len(pending)
      BY <1>1, <1>3, <1>4, <3>1 DEF PoolPlaces, PoolHas
    <3>2. CASE i = Len(pending) + 1
      BY <1>1, <1>2, <1>4, <3>2 DEF PoolHas
    <3> QED BY <1>5, <3>1, <3>2
  <2>3. ASSUME NEW x \in Workers, NEW v \in Workers, NEW u \in Tasks
        PROVE  /\ (PoolHas(x, u)' /\ PoolHas(v, u)') => x = v
               /\ ~(PoolHas(x, u)' /\ task'[v] = u)
               /\ (task'[x] = u /\ task'[v] = u) => x = v
    BY <1>1, <1>3 DEF PoolPlaces, PoolHas
  <2> QED BY ONLY <2>1, <2>2, <2>3 DEF PoolPlaces, PoolHas
<1>16. PoolFresh'
  <2>1. ASSUME NEW i \in 1..Len(pending')
        PROVE  begun[pending'[i]] = 0 /\ pending'[i] \in accepted'
    BY <1>1, <1>2, <1>3, <1>4, <1>5 DEF PoolFresh
  <2>2. ASSUME NEW v \in Workers, NEW u \in Tasks
        PROVE  /\ PoolHas(v, u)' => begun[u] = 0 /\ u \in accepted'
               /\ task'[v] = u => u \in accepted'
               /\ (task'[v] = u /\ thread'[v] = "dispatch") => begun[u] = 0
    BY <1>1, <1>3 DEF PoolFresh, PoolHas
  <2> QED BY <1>1, <1>3, <2>1, <2>2 DEF PoolFresh
<1>17. PoolAccounted'
  <2> SUFFICES ASSUME NEW u \in accepted', u \notin ended'
               PROVE  \/ \E i \in 1..Len(pending') : pending'[i] = u
                      \/ \E v \in Workers : PoolHas(v, u)' \/ task'[v] = u
    BY DEF PoolAccounted
  <2>1. CASE u = t
    <3>1. Len(pending) + 1 \in 1..Len(pending')
      BY <1>3, <1>4
    <3> QED BY <1>4, <2>1, <3>1
  <2>2. CASE u \in accepted
    <3>1. \/ \E i \in 1..Len(pending) : pending[i] = u
          \/ \E v \in Workers : PoolHas(v, u) \/ task[v] = u
      BY <1>1, <1>3, <2>2 DEF PoolAccounted
    <3>2. \A i \in 1..Len(pending) : i \in 1..Len(pending')
      BY <1>3, <1>4
    <3> QED BY <1>1, <1>4, <3>1, <3>2 DEF PoolHas
  <2> QED BY <1>1, <2>1, <2>2
<1> QED BY <1>6, <1>8, <1>10, <1>14, <1>15, <1>16, <1>17 DEF PoolInvariant, PoolTasks

\* A new worker for which there is no task: it is idle, or quit at once.
LEMMA PoolGrows ==
    ASSUME PoolInvariant, NEW w \in Workers, Pool!GrowForShrink(w) \/ Pool!GrowIdle(w)
    PROVE  PoolInvariant'
<1>1. /\ Pool!GrowOne(w) /\ pending = <<>> /\ pending' = <<>> /\ busyCount' = busyCount
      /\ \/ /\ taskQueue' = [taskQueue EXCEPT ![w] = <<"stop">>]
            /\ workerQuit' = [workerQuit EXCEPT ![w] = TRUE] /\ idle' = idle
         \/ /\ taskQueue' = [taskQueue EXCEPT ![w] = <<>>]
            /\ workerQuit' = [workerQuit EXCEPT ![w] = FALSE] /\ idle' = idle \cup {w}
  BY DEF Pool!GrowForShrink, Pool!GrowIdle, Pool!MustRetry
<1>2. /\ poolPc = "grow" /\ ~teamQuit /\ lock \in {NONE, "caller"} /\ lock' = "caller"
      /\ n' = n - 1 /\ n \in Int /\ started /\ Pool!NewWorker(w)
      /\ UNCHANGED <<started, size, seen, teamQuit, shouldQuit, coordinatorQuit, poolPc, then,
                     accepted, begun, ended>>
  BY <1>1, PoolGrowing
<1>3. /\ PoolEmpty(w) /\ w \notin PoolBusy /\ task[w] = NONE /\ w \notin idle /\ lock # w
      /\ thread' = [thread EXCEPT ![w] = "get"] /\ task' = task /\ picked' = picked
  BY <1>2, PoolNewWorker
<1>4. /\ \A v \in Workers \ {w} : /\ thread'[v] = thread[v] /\ taskQueue'[v] = taskQueue[v]
                                  /\ workerQuit'[v] = workerQuit[v]
                                  /\ v \in idle' <=> v \in idle
      /\ thread'[w] = "get" /\ taskQueue' \in [Workers -> PoolQueues]
      /\ \/ taskQueue'[w] = <<"stop">> /\ workerQuit'[w] = TRUE /\ w \notin idle'
         \/ taskQueue'[w] = <<>> /\ workerQuit'[w] = FALSE /\ w \in idle'
  BY <1>1, <1>3 DEF PoolInvariant, PoolTypes, PoolQueues
<1>5. \A v \in Workers : ~PoolHolds(v) /\ lock' # v
  BY <1>2, PoolNobodyInside, PoolConstants
<1>6. \A t \in Tasks : ~PoolHas(w, t) /\ ~PoolHas(w, t)'
  BY <1>3, <1>4, PoolQueue, PoolConstants, OneElement DEF PoolHas, PoolInvariant
<1>7. \A v \in Workers : \A t \in Tasks : PoolHas(v, t)' <=> PoolHas(v, t)
  BY <1>4, <1>6 DEF PoolHas
<1>8. PoolTypes'
  <2>1. workerQuit' \in [Workers -> BOOLEAN] /\ idle' \subseteq Workers
    BY <1>1 DEF PoolInvariant, PoolTypes
  <2> QED BY <1>1, <1>2, <1>3, <1>4, <2>1 DEF PoolInvariant, PoolTypes, PoolQueues
<1>9. PoolThreads'
  <2>1. ASSUME NEW v \in Workers \ {w} PROVE PoolThread(v)'
    <3>1. PoolThread(v)
      BY DEF PoolThread, PoolInvariant, PoolThreads
    <3> QED BY <1>3, <1>4, <1>5, <3>1 DEF PoolThread, PoolHolds, PoolEmpty, PoolStops, PoolWaits
  <2>2. PoolThread(w)'
    BY <1>3, <1>4, <1>5, OneElement DEF PoolThread, PoolHolds, PoolEmpty, PoolStops, PoolWaits
  <2> QED BY <2>1, <2>2 DEF PoolThreads, PoolThread
<1>10. PoolBusy' = PoolBusy
  <2>1. \A v \in Workers \ {w} : v \in PoolBusy' <=> v \in PoolBusy
    BY <1>4, <1>7 DEF PoolBusy
  <2>2. w \notin PoolBusy'
    BY <1>4, <1>6 DEF PoolBusy
  <2>3. PoolBusy \subseteq Workers /\ PoolBusy' \subseteq Workers
    BY DEF PoolBusy
  <2> QED BY <1>3, <2>1, <2>2, <2>3
<1>11. PoolCounts'
  BY <1>1, <1>10, FS_AddElement DEF PoolInvariant, PoolCounts
<1>12. PoolBacklog'
  BY <1>1 DEF PoolBacklog
<1>13. PoolQuits'
  BY <1>2 DEF PoolInvariant, PoolQuits
<1>14. PoolTasks'
  <2>1. \A v \in Workers : thread'[v] = "dispatch" => thread[v] = "dispatch"
    BY <1>4
  <2> QED BY <1>1, <1>2, <1>3, <1>7, <2>1, PoolTasksKept DEF PoolInvariant, PoolTypes
<1> QED BY <1>8, <1>9, <1>11, <1>12, <1>13, <1>14 DEF PoolInvariant

\* The worker that has come back takes the first task of the backlog: nobody else is idle.
LEMMA PoolRetryPending ==
    ASSUME PoolInvariant, NEW w \in Workers, Pool!RetryPending(w)
    PROVE  PoolInvariant'
<1>1. /\ thread[w] = "recycle" /\ thread' = [thread EXCEPT ![w] = "dispatch"] /\ pending # <<>>
      /\ task' = [task EXCEPT ![w] = Head(pending)] /\ pending' = Tail(pending)
      /\ \E v \in idle : idle' = idle \ {v} /\ picked' = v
      /\ UNCHANGED <<started, size, seen, teamQuit, shouldQuit, coordinatorQuit, poolPc, then, n,
                     accepted, begun, ended, lock, workerQuit, busyCount, taskQueue>>
  BY DEF Pool!RetryPending, Pool!At, Pool!MustRetry, Pool!TakePending, Pool!pool, Pool!caller
<1>2. /\ lock = w /\ w \in idle /\ PoolEmpty(w) /\ task[w] = NONE /\ PoolHolds(w)
      /\ \A v \in Workers : PoolHolds(v) => v = w
  BY <1>1 DEF PoolInvariant, PoolThreads, PoolHolds
<1>3. idle = {w}
  BY <1>1, <1>2 DEF PoolInvariant, PoolBacklog, PoolTypes, PoolHolds
<1>4. idle' = {} /\ picked' = w
  BY <1>1, <1>3
<1>5. PICK t \in Tasks : t = Head(pending)
  BY <1>1, PoolTakesFirst
<1>6. /\ pending' \in Seq(Tasks) /\ begun[t] = 0 /\ t \in accepted
      /\ \A i, j \in 1..Len(pending') : pending'[i] = pending'[j] => i = j
      /\ \A i \in 1..Len(pending') :
            pending'[i] # t /\ \E j \in 1..Len(pending) : pending[j] = pending'[i]
      /\ \A j \in 1..Len(pending) :
            pending[j] = t \/ \E i \in 1..Len(pending') : pending'[i] = pending[j]
      /\ \A v \in Workers : ~PoolHas(v, t) /\ task[v] # t
  BY <1>1, <1>5, PoolTakesFirst DEF PoolHas
<1>7. thread'[w] = "dispatch" /\ task'[w] = t /\ taskQueue'[w] = taskQueue[w]
  BY <1>1, <1>5 DEF PoolInvariant, PoolTypes
<1>8. PoolOnly(w)
  <2>1. \A v \in Workers \ {w} : thread[v] # "dispatch" /\ v \notin idle /\ v \notin idle'
    BY <1>2, <1>3, <1>4 DEF PoolHolds
  <2> QED BY <1>1, <1>4, <1>7, <2>1 DEF PoolOnly, PoolInvariant, PoolTypes
<1>9. PoolThread(w)'
  <2>1. PoolThread(w)
    BY DEF PoolThread, PoolInvariant, PoolThreads
  <2> QED BY <1>1, <1>2, <1>4, <1>7, <2>1, PoolConstants
          DEF PoolThread, PoolHolds, PoolWaits, PoolEmpty, PoolStops
<1>10. /\ PoolThreads'
       /\ \A v \in Workers \ {w} : /\ v \in PoolBusy' <=> v \in PoolBusy
                                   /\ thread'[v] = thread[v] /\ task'[v] = task[v]
  BY <1>8, <1>9, PoolOthers
<1>11. PoolBusy' = PoolBusy
  <2>1. w \notin PoolBusy
    BY <1>2, PoolIdle
  <2>2. w \notin PoolBusy'
    BY <1>1, <1>7, <2>1 DEF PoolBusy, PoolHas
  <2>3. PoolBusy \subseteq Workers /\ PoolBusy' \subseteq Workers
    BY DEF PoolBusy
  <2> QED BY <1>10, <2>1, <2>2, <2>3
<1>12. PoolCounts'
  BY <1>1, <1>4, <1>11, FS_EmptySet DEF PoolInvariant, PoolCounts
<1>13. PoolBacklog' /\ PoolQuits'
  <2>1. PoolHolds(w)'
    BY <1>7 DEF PoolHolds
  <2> QED BY <1>1, <1>2, <1>4, <1>7, <1>8, <2>1, PoolStepsBack
<1>14. PoolTypes'
  BY <1>1, <1>4, <1>5, <1>6 DEF PoolInvariant, PoolTypes
<1>15. PoolPlaces /\ PoolFresh /\ PoolAccounted
  BY DEF PoolInvariant, PoolTasks
<1>16. \A v \in Workers : \A u \in Tasks : PoolHas(v, u)' <=> PoolHas(v, u)
  BY <1>1 DEF PoolHas
<1>17. PoolPlaces'
  <2>1. ASSUME NEW i \in 1..Len(pending'), NEW v \in Workers
        PROVE  taskQueue'[v] # <<pending'[i]>> /\ task'[v] # pending'[i]
    <3>1. PICK j \in 1..Len(pending) : pending[j] = pending'[i]
      BY <1>6
    <3>2. taskQueue[v] # <<pending[j]>> /\ task[v] # pending[j]
      BY <1>15 DEF PoolPlaces, PoolHas
    <3> QED BY <1>1, <1>6, <1>7, <1>10, <3>1, <3>2
  <2>2. ASSUME NEW x \in Workers, NEW v \in Workers, NEW u \in Tasks
        PROVE  /\ (PoolHas(x, u)' /\ PoolHas(v, u)') => x = v
               /\ ~(PoolHas(x, u)' /\ task'[v] = u)
               /\ (task'[x] = u /\ task'[v] = u) => x = v
    BY <1>6, <1>7, <1>10, <1>15, <1>16 DEF PoolPlaces
  <2> QED BY ONLY <1>6, <2>1, <2>2 DEF PoolPlaces, PoolHas
<1>18. PoolFresh'
  <2>1. ASSUME NEW v \in Workers, NEW u \in Tasks
        PROVE  /\ PoolHas(v, u)' => begun[u] = 0 /\ u \in accepted
               /\ task'[v] = u => u \in accepted
               /\ (task'[v] = u /\ thread'[v] = "dispatch") => begun[u] = 0
    BY <1>6, <1>7, <1>10, <1>15, <1>16 DEF PoolFresh
  <2>2. \A i \in 1..Len(pending') : begun[pending'[i]] = 0 /\ pending'[i] \in accepted
    BY <1>6, <1>15 DEF PoolFresh
  <2> QED BY <1>1, <1>15, <2>1, <2>2 DEF PoolFresh
<1>19. PoolAccounted'
  <2> SUFFICES ASSUME NEW u \in accepted, u \notin ended
               PROVE  \/ \E i \in 1..Len(pending') : pending'[i] = u
                      \/ \E v \in Workers : PoolHas(v, u)' \/ task'[v] = u
    BY <1>1 DEF PoolAccounted
  <2>1. u \in Tasks
    BY <1>15 DEF PoolFresh
  <2>2. \/ \E i \in 1..Len(pending) : pending[i] = u
        \/ \E v \in Workers : PoolHas(v, u) \/ task[v] = u
    BY <1>15 DEF PoolAccounted
  <2>3. ASSUME NEW v \in Workers, PoolHas(v, u) \/ task[v] = u PROVE PoolHas(v, u)' \/ task'[v] = u
    <3>1. CASE PoolHas(v, u)
      BY <1>2, <1>10, <1>16, <2>1, <3>1, PoolConstants
    <3>2. CASE task[v] = u
      BY <1>2, <1>10, <1>16, <2>1, <3>2, PoolConstants
    <3> QED BY <2>3, <3>1, <3>2
  <2>4. CASE \E i \in 1..Len(pending) : pending[i] = u
    <3>1. PICK j \in 1..Len(pending) : pending[j] = u
      BY <2>4
    <3>2. u = t \/ \E i \in 1..Len(pending') : pending'[i] = u
      BY ONLY <1>6, <3>1, Zenon
    <3> QED BY ONLY <1>7, <3>2, w \in Workers, Zenon
  <2>5. CASE \E v \in Workers : PoolHas(v, u) \/ task[v] = u
    BY ONLY <2>3, <2>5, Zenon
  <2> QED BY ONLY <2>2, <2>4, <2>5
<1> QED BY <1>10, <1>12, <1>13, <1>14, <1>17, <1>18, <1>19 DEF PoolInvariant, PoolTasks

-------------------------------------------------------------------------------
LEMMA PoolStep == PoolInvariant /\ [Pool!Next]_(Pool!vars) => PoolInvariant'
<1> SUFFICES ASSUME PoolInvariant, [Pool!Next]_(Pool!vars) PROVE PoolInvariant'
  OBVIOUS
<1>1. CASE Pool!Methods
  <2>1. CASE Pool!Start \/ Pool!StartAWorker \/ Pool!StopAWorker \/ \E s \in Sizes : Pool!AdjustPoolsize(s)
    BY <2>1, PoolCalls
  <2>2. CASE Pool!Stop
    BY <2>2, PoolStop
  <2>3. CASE \E t \in Tasks : Pool!CallOnIdle(t) \/ Pool!CallOnNew(t) \/ Pool!CallBacklogged(t)
    BY <2>3, PoolCallOnIdle, PoolCallOnNew, PoolCallBacklogged
  <2> QED BY <1>1, <2>1, <2>2, <2>3 DEF Pool!Methods
<1>2. CASE Pool!CallerProceeds
  <2>1. CASE \/ Pool!ReadIdle \/ Pool!CheckMax \/ Pool!ExcessOverMax \/ Pool!CheckMin
             \/ Pool!ShortOfMin
    BY <2>1, PoolReads
  <2>2. CASE Pool!Backlog \/ Pool!Refused \/ Pool!Join
    BY <2>2, PoolStartsBacklog, PoolRefused
  <2>3. CASE Pool!Shrink \/ Pool!GrowEnds \/ Pool!TeamQuit
    BY <2>3, PoolShrink, PoolGrowEnds, PoolTeamQuit
  <2>4. CASE \E w \in Workers :
                Pool!GrowForPending(w) \/ Pool!GrowForShrink(w) \/ Pool!GrowIdle(w)
    BY <2>4, PoolGrowForPending, PoolGrows
  <2> QED BY <1>2, <2>1, <2>2, <2>3, <2>4 DEF Pool!CallerProceeds
<1>3. ASSUME NEW w \in Workers, Pool!ThreadProceeds(w) PROVE PoolInvariant'
  <2>1. CASE Pool!GetTask(w) \/ Pool!GetStop(w) \/ Pool!TaskEnds(w)
    BY <2>1, PoolGetTask, PoolGetStop, PoolTaskEnds
  <2>2. CASE Pool!Report(w) \/ Pool!Acquire(w) \/ Pool!Decrement(w) \/ Pool!AddIdle(w)
    BY <2>2, PoolReports
  <2>3. CASE Pool!RetryPending(w) \/ Pool!Dispatch(w)
    BY <2>3, PoolRetryPending, PoolDispatch
  <2>4. CASE Pool!RecycleToQuit(w) \/ Pool!RecycleToShrink(w) \/ Pool!RecycleToIdle(w)
    BY <2>4, PoolRecycle
  <2> QED BY <1>3, <2>1, <2>2, <2>3, <2>4 DEF Pool!ThreadProceeds
<1>4. CASE UNCHANGED Pool!vars
  <2>1. /\ PoolWorkersKept /\ lock' = lock
        /\ UNCHANGED <<started, size, seen, teamQuit, shouldQuit, coordinatorQuit, poolPc, then, n>>
    BY <1>4 DEF Pool!vars, Pool!pool, Pool!team, Pool!workers, Pool!caller, Pool!history,
               PoolWorkersKept
  <2>2. /\ PoolThreads' /\ PoolCounts' /\ PoolTasks'
        /\ PoolUnused' <=> PoolUnused
        /\ PoolReturning' <=> PoolReturning
    BY <2>1, PoolKept
  <2>3. PoolTypes'
    BY <2>1 DEF PoolInvariant, PoolTypes, PoolWorkersKept
  <2>4. PoolBacklog'
    BY <2>1, <2>2 DEF PoolInvariant, PoolBacklog, PoolWorkersKept, PoolStarting
  <2>5. PoolQuits'
    BY <2>1, <2>2 DEF PoolInvariant, PoolQuits, PoolWorkersKept
  <2> QED BY <2>2, <2>3, <2>4, <2>5 DEF PoolInvariant
<1> QED BY <1>1, <1>2, <1>3, <1>4 DEF Pool!Next

\* The workers that neither have ended nor were quit are the idle and the busy ones.
LEMMA PoolStatistics == PoolInvariant => Pool!StatisticsAreTrue
<1> SUFFICES ASSUME PoolInvariant, lock = NONE
             PROVE  /\ idle \subseteq Pool!Live
                    /\ Pool!Cardinality(Pool!Live) = Pool!Cardinality(idle) + busyCount
  BY DEF Pool!StatisticsAreTrue
<1>1. ASSUME NEW w \in Workers PROVE w \in Pool!Live <=> w \in idle \/ w \in PoolBusy
  <2>1. /\ ~PoolHolds(w) /\ (thread[w] # "get" => PoolEmpty(w))
        /\ workerQuit[w] <=> (thread[w] = "dead" \/ PoolStops(w))
        /\ w \in idle <=> (thread[w] = "recycle" \/ PoolWaits(w))
        /\ thread[w] \in {"none", "get", "task", "report", "wait", "decrement", "add",
                          "recycle", "dispatch", "dead"}
    BY PoolNobodyInside DEF PoolInvariant, PoolThreads, PoolTypes
  <2>2. w \in Pool!Live <=> thread[w] \notin {"none", "dead", "raised"} /\ ~workerQuit[w]
    BY DEF Pool!Live, Pool!Ended
  <2>3. w \in PoolBusy <=> \/ thread[w] \in {"task", "report", "wait", "decrement"}
                           \/ \E t \in Tasks : PoolHas(w, t)
    BY DEF PoolBusy
  <2>4. /\ PoolEmpty(w) \/ PoolStops(w) \/ \E t \in Tasks : PoolHas(w, t)
        /\ ~(PoolEmpty(w) /\ PoolStops(w))
        /\ (\E t \in Tasks : PoolHas(w, t)) => ~PoolEmpty(w) /\ ~PoolStops(w)
    BY PoolQueue DEF PoolInvariant
  <2> QED BY <2>1, <2>2, <2>3, <2>4 DEF PoolHolds, PoolWaits
<1>2. Pool!Live \subseteq Workers /\ idle \subseteq Workers /\ PoolBusy \subseteq Workers
  BY DEF Pool!Live, PoolBusy, PoolInvariant, PoolTypes
<1>3. Pool!Live = idle \cup PoolBusy
  BY <1>1, <1>2
<1>4. idle \cap PoolBusy = {}
  BY PoolIdle
<1>5. IsFiniteSet(idle) /\ IsFiniteSet(PoolBusy) /\ busyCount = Cardinality(PoolBusy)
  BY DEF PoolInvariant, PoolCounts
<1>6. Cardinality(idle \cup PoolBusy) = Cardinality(idle) + Cardinality(PoolBusy)
                                        - Cardinality(idle \cap PoolBusy)
  BY <1>5, FS_Union
<1>7. /\ Cardinality(idle \cap PoolBusy) = 0
      /\ Cardinality(idle) \in Nat /\ Cardinality(PoolBusy) \in Nat
  BY <1>4, <1>5, FS_EmptySet, FS_CardinalityType
<1> QED BY <1>3, <1>5, <1>6, <1>7, PoolCardinality

LEMMA PoolStopFinishes == PoolInvariant => Pool!StopFinishesWork
<1> SUFFICES ASSUME PoolInvariant, teamQuit, poolPc = "free"
             PROVE  /\ \A w \in Workers : thread[w] \in {"none", "dead"}
                    /\ Pool!CanRunTasks /\ (\E w \in Workers : thread[w] # "none")
                          => ended = accepted
  BY DEF Pool!StopFinishesWork
<1>1. \A w \in Workers : thread[w] \in {"none", "dead"}
  BY DEF PoolInvariant, PoolQuits
<1>2. \A w \in Workers : task[w] = NONE /\ ~PoolHolds(w) /\ \A t \in Tasks : ~PoolHas(w, t)
  BY <1>1, PoolQueue DEF PoolInvariant, PoolThreads, PoolHolds
<1>3. ASSUME Pool!CanRunTasks, NEW w \in Workers, thread[w] # "none" PROVE ended = accepted
  <2>1. ~PoolUnused /\ ~PoolReturning
    BY <1>1, <1>2, <1>3 DEF PoolUnused, PoolReturning, PoolBusy
  <2>2. pending = <<>>
    BY <1>3, <2>1 DEF PoolInvariant, PoolBacklog
  <2>3. ended \subseteq accepted /\ accepted \subseteq Tasks
    BY DEF PoolInvariant, PoolTasks, PoolFresh
  <2>4. accepted \subseteq ended
    BY <1>2, <2>2, <2>3, PoolConstants DEF PoolInvariant, PoolTasks, PoolAccounted
  <2> QED BY <2>3, <2>4
<1> QED BY <1>1, <1>3

LEMMA PoolInvariantSuffices == PoolInvariant => PoolIsSound
<1> SUFFICES ASSUME PoolInvariant PROVE PoolIsSound
  OBVIOUS
<1>1. Pool!IdleWorkersAccept
  <2> SUFFICES ASSUME NEW w \in idle
               PROVE  taskQueue[w] = <<>> /\ ~workerQuit[w] /\ (thread[w] = "get" \/ lock = w)
    BY DEF Pool!IdleWorkersAccept
  <2>1. w \in Workers /\ PoolEmpty(w) /\ ~workerQuit[w] /\ thread[w] \in {"recycle", "get"}
    BY PoolIdle
  <2> QED BY <2>1 DEF PoolEmpty, PoolInvariant, PoolThreads, PoolHolds
<1>2. Pool!CoordinatorOutlivesWork
  BY DEF Pool!CoordinatorOutlivesWork, PoolInvariant, PoolTypes
<1>3. Pool!BacklogIsServed
  <2> SUFFICES ASSUME Pool!CanRunTasks, poolPc = "free", lock = NONE, ~teamQuit, started,
                      pending # <<>>
               PROVE  busyCount > 0
    BY DEF Pool!BacklogIsServed
  <2>1. ~PoolStarting
    BY DEF PoolStarting
  <2>2. PoolReturning
    BY <2>1 DEF PoolInvariant, PoolBacklog
  <2>3. busyCount # 0
    BY <2>2, PoolNobodyInside, PoolNoneBusy
  <2> QED BY <2>3 DEF PoolInvariant, PoolTypes
<1>4. Pool!TasksRunOnce
  <2>1. begun \in [Tasks -> 0..1]
    BY DEF PoolInvariant, PoolTasks, PoolFresh
  <2> QED BY <2>1 DEF Pool!TasksRunOnce
<1> QED BY <1>1, <1>2, <1>3, <1>4, PoolStatistics, PoolStopFinishes
        DEF PoolIsSound, Pool!PoolIsSound

(***************************************************************************)
(* The Team's bookkeeping in a ThreadPool is true, for any sets of workers *)
(* and tasks and any sizes: statistics() counts the live workers, idle     *)
(* workers accept work, the coordinator is not quit before the last report *)
(* (Team.quit, _recycleWorker), a backlogged task has a busy worker that   *)
(* will come back for it, no task begins twice, and when stop() has        *)
(* returned the threads have ended and the work is done.                   *)
(***************************************************************************)
THEOREM PoolIsAlwaysSound == Pool!Spec => []PoolIsSound
<1>1. Pool!Init => PoolInvariant
  BY PoolInit
<1>2. PoolInvariant /\ [Pool!Next]_(Pool!vars) => PoolInvariant'
  BY PoolStep
<1>3. PoolInvariant => PoolIsSound
  BY PoolInvariantSuffices
<1> QED BY <1>1, <1>2, <1>3, PTL DEF Pool!Spec
===============================================================================
