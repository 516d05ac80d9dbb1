----------------------------- MODULE ProgressProofs -----------------------------
(***************************************************************************)
(* Proofs about the components that MCProgress puts side by side, each for *)
(* every value of its constants and from its own specification:            *)
(* DeferredLock, DeferredQueue, ClientService, FileDescriptor and          *)
(* SSHChannel.                                                             *)
(***************************************************************************)
EXTENDS MCProgress, SequenceTheorems, FunctionTheorems, FiniteSetTheorems, TLAPS

-------------------------------------------------------------------------------
(***************************************************************************)
(* DeferredLock implements a DeferredSemaphore with one token, for any set *)
(* of users: what is proved about the semaphore holds for it.              *)
(***************************************************************************)
LockFlag == locked = TRUE \/ locked = FALSE

LEMMA LockFlagStep == LockFlag /\ [Lock!Next]_(Lock!vars) => LockFlag'
BY DEF LockFlag, Lock!Next, Lock!vars, Lock!Acquire, Lock!Release, Lock!Unlock, Lock!PassOn,
       Lock!CancelAcquire

LEMMA LockInit == Lock!Init => Lock!Semaphore!Init
BY DEF Lock!Init, Lock!Semaphore!Init

LEMMA LockSimulation ==
    LockFlag /\ [Lock!Next]_(Lock!vars) => [Lock!Semaphore!Next]_(Lock!Semaphore!vars)
<1> SUFFICES ASSUME LockFlag, [Lock!Next]_(Lock!vars)
             PROVE  [Lock!Semaphore!Next]_(Lock!Semaphore!vars)
  OBVIOUS
<1>1. ASSUME NEW u \in Users, Lock!Acquire(u) PROVE Lock!Semaphore!Acquire(u)
  <2>1. CASE locked
    BY <1>1, <2>1 DEF Lock!Acquire, Lock!Queued, Lock!Semaphore!Acquire, Lock!Semaphore!Queued
  <2>2. CASE ~locked
    BY <1>1, <2>2 DEF Lock!Acquire, Lock!Queued, Lock!Semaphore!Acquire, Lock!Semaphore!Queued
  <2> QED BY <2>1, <2>2
<1>2. ASSUME NEW u \in Users, Lock!Release(u) PROVE Lock!Semaphore!Release(u)
  <2>1. u \in lockHolders /\ locked
    BY <1>2 DEF Lock!Release
  <2>2. CASE lockWaiting = <<>>
    BY <1>2, <2>1, <2>2
       DEF Lock!Release, Lock!Unlock, Lock!Semaphore!Release,
           Lock!Semaphore!Hand, Lock!Semaphore!GiveBack
  <2>3. CASE lockWaiting # <<>>
    BY <1>2, <2>1, <2>3
       DEF Lock!Release, Lock!PassOn, Lock!Semaphore!Release,
           Lock!Semaphore!Hand, Lock!Semaphore!PassOn
  <2> QED BY <2>2, <2>3
<1>3. ASSUME NEW u \in Users, Lock!CancelAcquire(u) PROVE Lock!Semaphore!CancelAcquire(u)
  BY <1>3 DEF Lock!CancelAcquire, Lock!Without, Lock!Queued,
              Lock!Semaphore!CancelAcquire, Lock!Semaphore!Without, Lock!Semaphore!Queued
<1>4. CASE UNCHANGED Lock!vars
  BY <1>4 DEF Lock!vars, Lock!Semaphore!vars
<1> QED BY <1>1, <1>2, <1>3, <1>4 DEF Lock!Next, Lock!Semaphore!Next

(***************************************************************************)
(* Every behaviour of a DeferredLock is one of a DeferredSemaphore(1).     *)
(***************************************************************************)
THEOREM LockIsSemaphore == Lock!Spec => IsSemaphore
<1>1. Lock!Init => LockFlag
  BY DEF Lock!Init, LockFlag
<1>2. Lock!Spec => []LockFlag
  BY <1>1, LockFlagStep, PTL DEF Lock!Spec
<1> QED BY <1>2, LockInit, LockSimulation, PTL
       DEF Lock!Spec, IsSemaphore, Lock!IsSemaphore, Lock!Semaphore!Safety

-------------------------------------------------------------------------------
(***************************************************************************)
(* DeferredQueue.                                                          *)
(***************************************************************************)
QueueInvariant ==
    /\ Queue!TypeOK /\ Queue!FirstInFirstOut
    /\ Queue!NobodyWaitsInVain /\ Queue!WithinLimits

(***************************************************************************)
(* What _cancelGet leaves of the list is shorter by one.                   *)
(***************************************************************************)
Dropped(s, i) == SubSeq(s, 1, i - 1) \o SubSeq(s, i + 1, Len(s))

LEMMA QueueRemoval ==
    ASSUME NEW S, NEW s \in Seq(S), NEW i \in 1..Len(s)
    PROVE  /\ Dropped(s, i) \in Seq(S)
           /\ Len(Dropped(s, i)) = Len(s) - 1
<1> DEFINE a == SubSeq(s, 1, i - 1)
           b == SubSeq(s, i + 1, Len(s))
<1>1. a \in Seq(S) /\ Len(a) = i - 1
  BY SubSeqProperties
<1>2. b \in Seq(S) /\ Len(b) = Len(s) - i
  BY SubSeqProperties
<1> HIDE DEF a, b
<1>3. a \o b \in Seq(S) /\ Len(a \o b) = Len(a) + Len(b)
  BY <1>1, <1>2, ConcatProperties
<1>4. Len(a \o b) = Len(s) - 1
  BY <1>1, <1>2, <1>3
<1> QED BY <1>3, <1>4 DEF Dropped, a, b

LEMMA QueueCancelled ==
    ASSUME queueWaiting \in Seq(Gets), NEW g \in Gets, Queue!CancelGet(g)
    PROVE  \E i \in 1..Len(queueWaiting) :
              queueWaiting' = Dropped(queueWaiting, i)
<1> DEFINE i == CHOOSE j \in DOMAIN queueWaiting : queueWaiting[j] = g
<1>1. \E j \in DOMAIN queueWaiting : queueWaiting[j] = g
  BY DEF Queue!CancelGet, Queue!Elements
<1>2. i \in DOMAIN queueWaiting
  BY <1>1
<1>3. queueWaiting' = Dropped(queueWaiting, i)
  BY DEF Queue!CancelGet, Dropped
<1>4. DOMAIN queueWaiting = 1..Len(queueWaiting)
  OBVIOUS
<1> HIDE DEF i
<1> QED BY <1>2, <1>3, <1>4

LEMMA QueueInit == Queue!Init => QueueInvariant
BY QueueParameters
   DEF Queue!QueueAssumption, Queue!Init, QueueInvariant, Queue!TypeOK, Queue!FirstInFirstOut,
       Queue!NobodyWaitsInVain, Queue!WithinLimits

LEMMA QueueTypes == Queue!TypeOK /\ [Queue!Next]_(Queue!vars) => Queue!TypeOK'
<1> SUFFICES ASSUME Queue!TypeOK, [Queue!Next]_(Queue!vars) PROVE Queue!TypeOK'
  OBVIOUS
<1> USE DEF Queue!TypeOK
<1>1. ASSUME NEW o \in Objects, Queue!PutToWaiting(o) PROVE Queue!TypeOK'
  BY <1>1 DEF Queue!PutToWaiting, Queue!PutToFirst, Queue!Deliver
<1>2. ASSUME NEW o \in Objects, Queue!PutPending(o) PROVE Queue!TypeOK'
  BY <1>2 DEF Queue!PutPending
<1>3. ASSUME NEW g \in Gets, Queue!GetPending(g) PROVE Queue!TypeOK'
  BY <1>3 DEF Queue!GetPending, Queue!TakeOldest, Queue!Deliver
<1>4. ASSUME NEW g \in Gets, Queue!GetDeferred(g) PROVE Queue!TypeOK'
  BY <1>4 DEF Queue!GetDeferred
<1>5. ASSUME NEW g \in Gets, Queue!CancelGet(g) PROVE Queue!TypeOK'
  <2>1. PICK i \in 1..Len(queueWaiting) :
            queueWaiting' = Dropped(queueWaiting, i)
    BY <1>5, QueueCancelled
  <2>2. queueWaiting' \in Seq(Gets)
    BY <2>1, QueueRemoval
  <2> QED BY <1>5, <2>2 DEF Queue!CancelGet
<1>6. CASE UNCHANGED Queue!vars
  BY <1>6 DEF Queue!vars
<1> QED BY <1>1, <1>2, <1>3, <1>4, <1>5, <1>6 DEF Queue!Next

\* Handing over the first pending object moves it from one sequence to the other.
LEMMA HeadGoesOver ==
    ASSUME NEW S, NEW d \in Seq(S), NEW p \in Seq(S), p # <<>>
    PROVE  Append(d, Head(p)) \o Tail(p) = d \o p
<1>1. PICK m \in Nat, n \in Nat : m = Len(d) /\ n = Len(p) /\ n > 0
  OBVIOUS
<1>2. PICK a \in Seq(S) : /\ a = Append(d, Head(p)) /\ Len(a) = m + 1
                          /\ \A i \in 1..m : a[i] = d[i]
                          /\ a[m + 1] = p[1]
  <2>1. Head(p) = p[1] /\ Head(p) \in S
    BY <1>1
  <2>2. /\ Append(d, Head(p)) \in Seq(S) /\ Len(Append(d, Head(p))) = m + 1
        /\ \A i \in 1..m : Append(d, Head(p))[i] = d[i]
        /\ Append(d, Head(p))[m + 1] = p[1]
    BY <1>1, <2>1
  <2> QED BY ONLY <2>2, Zenon
<1>3. PICK b \in Seq(S) : /\ b = Tail(p) /\ Len(b) = n - 1
                          /\ \A i \in 1..(n - 1) : b[i] = p[i + 1]
  <2>1. /\ Tail(p) \in Seq(S) /\ Len(Tail(p)) = n - 1
        /\ \A i \in 1..(n - 1) : Tail(p)[i] = p[i + 1]
    BY <1>1
  <2> QED BY ONLY <2>1, Zenon
<1>4. /\ a \o b \in Seq(S) /\ Len(a \o b) = m + n
      /\ \A i \in 1..(m + n) : (a \o b)[i] = IF i <= m + 1 THEN a[i] ELSE b[i - (m + 1)]
  BY ONLY <1>1, <1>2, <1>3
<1>5. /\ d \o p \in Seq(S) /\ Len(d \o p) = m + n
      /\ \A i \in 1..(m + n) : (d \o p)[i] = IF i <= m THEN d[i] ELSE p[i - m]
  BY ONLY <1>1, d \in Seq(S), p \in Seq(S)
<1>6. ASSUME NEW i \in 1..(m + n) PROVE (a \o b)[i] = (d \o p)[i]
  <2>1. CASE i <= m
    BY ONLY <1>1, <1>2, <1>4, <1>5, <2>1, i \in 1..(m + n)
  <2>2. CASE i = m + 1
    <3>1. (a \o b)[i] = p[1]
      BY ONLY <1>1, <1>2, <1>4, <2>2, i \in 1..(m + n)
    <3>2. (d \o p)[i] = p[1]
      BY ONLY <1>1, <1>5, <2>2, i \in 1..(m + n)
    <3> QED BY <3>1, <3>2
  <2>3. CASE i > m + 1
    <3>0. i - (m + 1) \in 1..(n - 1)
      BY ONLY <1>1, <2>3, i \in 1..(m + n)
    <3>1. PICK j \in 1..(n - 1) : j = i - (m + 1)
      BY ONLY <3>0, Zenon
    <3>2. (a \o b)[i] = b[j] /\ b[j] = p[j + 1]
      BY ONLY <1>1, <1>3, <1>4, <2>3, <3>1, i \in 1..(m + n)
    <3>3. (d \o p)[i] = p[j + 1]
      BY ONLY <1>1, <1>5, <2>3, <3>1, i \in 1..(m + n)
    <3> QED BY <3>2, <3>3
  <2>4. i <= m \/ i = m + 1 \/ i > m + 1
    <3>1. \A x, y \in Int : x <= y \/ x = y + 1 \/ x > y + 1
      OBVIOUS
    <3>2. i \in Int /\ m \in Int
      OBVIOUS
    <3> QED BY ONLY <3>1, <3>2, Zenon
  <2> QED BY ONLY <2>1, <2>2, <2>3, <2>4, Zenon
<1>7. a \o b = d \o p
  BY ONLY <1>4, <1>5, <1>6, <1>1, SeqEqual
<1> QED BY <1>2, <1>3, <1>7

LEMMA AppendAtTheEnd ==
    ASSUME delivered \in Seq(Objects), pending \in Seq(Objects), NEW o \in Objects
    PROVE  Append(delivered \o pending, o) = delivered \o Append(pending, o)
OBVIOUS

(***************************************************************************)
(* The order is kept because an object skips the queue only when a get     *)
(* waits, and then the queue is empty.                                     *)
(***************************************************************************)
LEMMA QueueOrderStep == QueueInvariant /\ [Queue!Next]_(Queue!vars) => Queue!FirstInFirstOut'
<1> SUFFICES ASSUME QueueInvariant, [Queue!Next]_(Queue!vars) PROVE Queue!FirstInFirstOut'
  OBVIOUS
<1> USE DEF QueueInvariant, Queue!TypeOK, Queue!FirstInFirstOut
<1>1. ASSUME NEW o \in Objects, Queue!PutToWaiting(o) PROVE Queue!FirstInFirstOut'
  <2>1. pending = <<>> /\ queueAccepted = delivered
    BY <1>1 DEF Queue!PutToWaiting, Queue!NobodyWaitsInVain
  <2> QED BY <1>1, <2>1 DEF Queue!PutToWaiting, Queue!PutToFirst, Queue!Deliver
<1>2. ASSUME NEW o \in Objects, Queue!PutPending(o) PROVE Queue!FirstInFirstOut'
  <2>1. queueAccepted' = Append(delivered \o pending, o) /\ pending' = Append(pending, o)
        /\ delivered' = delivered
    BY <1>2 DEF Queue!PutPending
  <2>2. Append(delivered \o pending, o) = delivered \o Append(pending, o)
    BY AppendAtTheEnd
  <2> QED BY <2>1, <2>2
<1>3. ASSUME NEW g \in Gets, Queue!GetPending(g) PROVE Queue!FirstInFirstOut'
  <2>1. pending # <<>> /\ pending' = Tail(pending) /\ queueAccepted' = queueAccepted
        /\ delivered' = Append(delivered, Head(pending))
    BY <1>3 DEF Queue!GetPending, Queue!TakeOldest, Queue!Deliver
  <2>2. Append(delivered, Head(pending)) \o Tail(pending) = delivered \o pending
    BY <2>1, HeadGoesOver
  <2>3. queueAccepted = delivered \o pending
    OBVIOUS
  <2> QED BY ONLY <2>1, <2>2, <2>3, Zenon DEF Queue!FirstInFirstOut
<1>4. ASSUME NEW g \in Gets, Queue!GetDeferred(g) PROVE Queue!FirstInFirstOut'
  BY <1>4 DEF Queue!GetDeferred
<1>5. ASSUME NEW g \in Gets, Queue!CancelGet(g) PROVE Queue!FirstInFirstOut'
  BY <1>5 DEF Queue!CancelGet
<1>6. CASE UNCHANGED Queue!vars
  BY <1>6 DEF Queue!vars
<1> QED BY <1>1, <1>2, <1>3, <1>4, <1>5, <1>6 DEF Queue!Next

QueueBounds == Queue!NobodyWaitsInVain /\ Queue!WithinLimits

LEMMA QueueBoundsStep == QueueInvariant /\ [Queue!Next]_(Queue!vars) => QueueBounds'
<1> SUFFICES ASSUME QueueInvariant, [Queue!Next]_(Queue!vars) PROVE QueueBounds'
  OBVIOUS
<1> USE QueueParameters DEF QueueBounds, Queue!QueueAssumption, QueueInvariant, Queue!TypeOK,
      Queue!NobodyWaitsInVain, Queue!WithinLimits
<1>1. ASSUME NEW o \in Objects, Queue!PutToWaiting(o) PROVE QueueBounds'
  <2>1. queueWaiting # <<>> /\ queueWaiting' = Tail(queueWaiting) /\ pending' = pending
    BY <1>1 DEF Queue!PutToWaiting, Queue!PutToFirst
  <2> QED BY <2>1
<1>2. ASSUME NEW o \in Objects, Queue!PutPending(o) PROVE QueueBounds'
  BY <1>2 DEF Queue!PutPending, Queue!HasRoom
<1>3. ASSUME NEW g \in Gets, Queue!GetPending(g) PROVE QueueBounds'
  BY <1>3 DEF Queue!GetPending, Queue!TakeOldest
<1>4. ASSUME NEW g \in Gets, Queue!GetDeferred(g) PROVE QueueBounds'
  BY <1>4 DEF Queue!GetDeferred, Queue!HasRoom
<1>5. ASSUME NEW g \in Gets, Queue!CancelGet(g) PROVE QueueBounds'
  <2>1. PICK i \in 1..Len(queueWaiting) :
            queueWaiting' = Dropped(queueWaiting, i)
    BY <1>5, QueueCancelled
  <2>2. queueWaiting' \in Seq(Gets) /\ Len(queueWaiting') = Len(queueWaiting) - 1
        /\ Len(queueWaiting) > 0
    <3>1. queueWaiting \in Seq(Gets)
      OBVIOUS
    <3>2. Len(queueWaiting) > 0
      BY <2>1, <3>1
    <3> QED BY <2>1, <3>1, <3>2, QueueRemoval
  <2>3. pending = <<>> /\ pending' = pending
    <3>1. queueWaiting # <<>>
      BY <2>2
    <3> QED BY <1>5, <3>1 DEF Queue!CancelGet
  <2>4. Queue!NobodyWaitsInVain'
    BY <2>3
  <2>5. Queue!WithinLimits'
    BY <2>2, <2>3
  <2> QED BY <2>4, <2>5
<1>6. CASE UNCHANGED Queue!vars
  BY <1>6 DEF Queue!vars
<1> QED BY <1>1, <1>2, <1>3, <1>4, <1>5, <1>6 DEF Queue!Next

LEMMA QueueInvariance == Queue!Spec => []QueueInvariant
<1>1. QueueInvariant /\ [Queue!Next]_(Queue!vars) => QueueInvariant'
  BY QueueTypes, QueueOrderStep, QueueBoundsStep DEF QueueInvariant, QueueBounds
<1> QED BY QueueInit, <1>1, PTL DEF Queue!Spec

(***************************************************************************)
(* Whatever the order of puts, gets and cancellations, the objects come    *)
(* out once each and in the order in which put accepted them, and no get   *)
(* waits beside an object.                                                 *)
(***************************************************************************)
THEOREM QueueIsAlwaysSound == Queue!Spec => []QueueIsSound
<1>1. QueueInvariant => QueueIsSound
  BY DEF QueueInvariant, QueueIsSound, Queue!QueueIsSound
<1> QED BY QueueInvariance, <1>1, PTL

(***************************************************************************)
(* The lists of DeferredQueue never outgrow size and backlog.              *)
(***************************************************************************)
THEOREM QueueLimits == Queue!Spec => []Queue!WithinLimits
<1>1. QueueInvariant => Queue!WithinLimits
  BY DEF QueueInvariant
<1> QED BY QueueInvariance, <1>1, PTL

(***************************************************************************)
(* The waiting Deferreds fire in the order of the gets.                    *)
(***************************************************************************)
THEOREM QueueTurns == Queue!Spec => Queue!GetsInTurn
<1> DEFINE Turn == \A g \in Gets : served' = Append(served, g) =>
                        queueWaiting = <<>> \/ g = queueWaiting[1]
<1>1. ASSUME QueueInvariant, Queue!Next, NEW g \in Gets, served' = Append(served, g),
             queueWaiting # <<>>
      PROVE  g = queueWaiting[1]
  <2> USE DEF QueueInvariant, Queue!TypeOK
  <2>1. served' # served
    BY <1>1
  <2>2. ASSUME NEW o \in Objects, Queue!PutToWaiting(o) PROVE g = queueWaiting[1]
    <3>1. served' = Append(served, Head(queueWaiting)) /\ Head(queueWaiting) \in Gets
      BY <1>1, <2>2 DEF Queue!PutToWaiting, Queue!PutToFirst, Queue!Deliver
    <3>2. Append(served, g)[Len(served) + 1] = g
      BY <1>1
    <3>3. Append(served, Head(queueWaiting))[Len(served) + 1] = Head(queueWaiting)
      BY <1>1, <3>1
    <3> QED BY <1>1, <3>1, <3>2, <3>3
  <2>3. ASSUME NEW o \in Objects, Queue!PutPending(o) PROVE FALSE
    BY <2>1, <2>3 DEF Queue!PutPending
  <2>4. ASSUME NEW h \in Gets, Queue!GetPending(h) PROVE FALSE
    BY <1>1, <2>4 DEF Queue!GetPending, Queue!NobodyWaitsInVain
  <2>5. ASSUME NEW h \in Gets, Queue!GetDeferred(h) PROVE FALSE
    BY <2>1, <2>5 DEF Queue!GetDeferred
  <2>6. ASSUME NEW h \in Gets, Queue!CancelGet(h) PROVE FALSE
    BY <2>1, <2>6 DEF Queue!CancelGet
  <2> QED BY <1>1, <2>2, <2>3, <2>4, <2>5, <2>6 DEF Queue!Next
<1>2. QueueInvariant /\ [Queue!Next]_(Queue!vars) => [Turn]_(Queue!vars)
  BY <1>1 DEF Queue!vars
<1> QED BY QueueInvariance, <1>2, PTL DEF Queue!Spec, Queue!GetsInTurn

-------------------------------------------------------------------------------
(***************************************************************************)
(* ClientService.  A connection that prepareConnection is given is one of  *)
(* those that exist, and not a stale _currentConnection, so that it is     *)
(* still there when it becomes the current one.                            *)
(***************************************************************************)
ServiceStates ==
    {"init", "connecting", "waiting", "connected", "disconnecting", "restarting", "stopped"}

ServiceTypes ==
    /\ csState \in ServiceStates
    /\ attempt \in {"none", "connect", "prepare"}
    /\ running \in BOOLEAN /\ retrying \in BOOLEAN /\ started \in BOOLEAN /\ upset \in BOOLEAN

PreparedIsOpen ==
    /\ current \subseteq made /\ prepared \subseteq made
    /\ (attempt = "prepare" /\ ~upset) => prepared \subseteq open /\ prepared \cap current = {}
    /\ csState = "init" => ~started

ServiceInvariant == ServiceTypes /\ PreparedIsOpen /\ Service!ServiceIsDriven

LEMMA ServiceInit == Service!Init => ServiceInvariant
BY DEF Service!Init, ServiceInvariant, ServiceTypes, ServiceStates, PreparedIsOpen,
       Service!ServiceIsDriven

LEMMA ServiceStep == ServiceInvariant /\ [Service!Next]_(Service!csVars) => ServiceInvariant'
<1> SUFFICES ASSUME ServiceInvariant, [Service!Next]_(Service!csVars) PROVE ServiceInvariant'
  OBVIOUS
<1> USE DEF ServiceInvariant, ServiceTypes, ServiceStates, PreparedIsOpen, Service!ServiceIsDriven,
      Service!csConns, Service!csWaiters
<1>1. CASE Service!StartService
  BY <1>1 DEF Service!StartService
<1>2. ASSUME NEW s \in Stoppers, Service!StopService(s) PROVE ServiceInvariant'
  <2> USE DEF Service!CancelConnectWaiters, Service!FinishStopping, Service!Unawait
  <2>0. /\ running' = FALSE /\ current' = current /\ open' = open /\ made' = made
        /\ started' = started /\ upset' = upset
    BY <1>2 DEF Service!StopService
  <2>1. CASE csState \in {"init", "stopped"}
    <3>1. /\ csState' = "stopped" /\ attempt' = attempt /\ retrying' = retrying
          /\ awaiting' = awaiting /\ stopping' = stopping /\ prepared' = prepared
      BY <1>2, <2>1 DEF Service!StopService
    <3> QED BY <2>0, <2>1, <3>1
  <2>2. CASE csState \in {"connecting", "waiting"}
    BY <1>2, <2>0, <2>2 DEF Service!StopService
  <2>3. CASE csState \in {"connected", "disconnecting", "restarting"}
    <3>1. /\ csState' = "disconnecting" /\ attempt' = attempt /\ retrying' = retrying
          /\ prepared' = prepared
      BY <1>2, <2>3 DEF Service!StopService
    <3> QED BY <2>0, <2>3, <3>1
  <2> QED BY <2>1, <2>2, <2>3
<1>3. ASSUME NEW w \in Waiters, NEW n \in 0..MaxFailures, Service!WhenConnected(w, n)
      PROVE  ServiceInvariant'
  BY <1>3 DEF Service!WhenConnected
<1>4. CASE Service!EndpointFails
  BY <1>4 DEF Service!EndpointFails, Service!ConnectionFailed
<1>5. CASE Service!PrepareEnds
  <2>1. ASSUME NEW c \in prepared, Service!ConnectionMade(c) PROVE ServiceInvariant'
    BY <1>5, <2>1 DEF Service!PrepareEnds, Service!ConnectionMade, Service!Unawait
  <2>2. CASE Service!ConnectionFailed /\ UNCHANGED current
    BY <1>5, <2>2 DEF Service!PrepareEnds, Service!ConnectionFailed
  <2> QED BY <1>5, <2>1, <2>2 DEF Service!PrepareEnds
<1>6. CASE Service!Reconnect
  BY <1>6 DEF Service!Reconnect
<1>7. ASSUME NEW c \in Connections, Service!EndpointConnects(c) PROVE ServiceInvariant'
  <2>1. CASE Service!ConnectionMade(c) /\ UNCHANGED prepared
    BY <1>7, <2>1 DEF Service!EndpointConnects, Service!ConnectionMade, Service!Unawait
  <2>2. CASE Service!ConnectionFailed /\ UNCHANGED <<prepared, current>>
    BY <1>7, <2>2 DEF Service!EndpointConnects, Service!ConnectionFailed
  <2>3. CASE /\ attempt' = "prepare" /\ prepared' = {c}
             /\ UNCHANGED <<csState, current, retrying, awaiting, remaining>>
    BY <1>7, <2>3 DEF Service!EndpointConnects
  <2> QED BY <1>7, <2>1, <2>2, <2>3 DEF Service!EndpointConnects
<1>8. ASSUME NEW c \in Connections, Service!Lost(c) PROVE ServiceInvariant'
  <2> USE DEF Service!CancelConnectWaiters, Service!FinishStopping, Service!Unawait
  <2>0. /\ open' = open \ {c} /\ upset' = (upset \/ c \notin current) /\ running' = running
        /\ made' = made /\ prepared' = prepared /\ started' = started
    BY <1>8 DEF Service!Lost
  <2>1. upset' \in BOOLEAN /\ (~upset' => ~upset /\ c \in current)
    BY <2>0
  <2>2. CASE csState = "connected"
    BY <1>8, <2>0, <2>1, <2>2 DEF Service!Lost
  <2>3. CASE csState = "disconnecting"
    BY <1>8, <2>0, <2>1, <2>3 DEF Service!Lost
  <2>4. CASE csState = "restarting"
    BY <1>8, <2>0, <2>1, <2>4 DEF Service!Lost
  <2>5. CASE csState \in {"connecting", "waiting", "stopped"}
    BY <1>8, <2>0, <2>1, <2>5 DEF Service!Lost
  <2> QED BY <1>8, <2>2, <2>3, <2>4, <2>5 DEF Service!Lost
<1>9. CASE UNCHANGED Service!csVars
  BY <1>9 DEF Service!csVars
<1> QED
  BY <1>1, <1>2, <1>3, <1>4, <1>5, <1>6, <1>7, <1>8, <1>9 DEF Service!Next

(***************************************************************************)
(* The machine of ClientService never waits for an event that is not on    *)
(* its way: while it connects there is an attempt, while it waits a retry  *)
(* is scheduled, and while it is connected or closes the connection is     *)
(* there (unless the loss of another one was taken for its own).           *)
(***************************************************************************)
THEOREM ServiceIsAlwaysDriven == Service!Spec => []ServiceIsDriven
<1>1. Service!Spec => []ServiceInvariant
  BY ServiceInit, ServiceStep, PTL DEF Service!Spec
<1>2. ServiceInvariant => ServiceIsDriven
  BY DEF ServiceInvariant, ServiceIsDriven
<1> QED BY <1>1, <1>2, PTL

-------------------------------------------------------------------------------
(***************************************************************************)
(* FileDescriptor.  Beside the types, the invariant only adds that offset  *)
(* stays within the buffer and that a connection that was closed because   *)
(* everything was sent is closed.                                          *)
(***************************************************************************)
TransportFlags ==
    /\ connected \in BOOLEAN /\ disconnecting \in BOOLEAN /\ writeDisconnecting \in BOOLEAN
    /\ writeDisconnected \in BOOLEAN /\ aborting \in BOOLEAN /\ reading \in BOOLEAN
    /\ writing \in BOOLEAN /\ producerPaused \in BOOLEAN

TransportCounts ==
    /\ buffered \in Nat /\ offset \in Nat /\ tempLen \in Nat /\ accepted \in Nat /\ sent \in Nat
    /\ offset <= buffered

TransportTypes ==
    /\ TransportFlags /\ TransportCounts
    /\ producer \in {"none", "push", "pull"} /\ told \in {"produce", "pause"}
    /\ lost \in {"no", "halfClosed", "readEnd", "error", "aborted", "done"}

TransportInvariant ==
    TransportTypes /\ (lost = "done" => ~connected) /\ Transport!TransportIsDriven

LEMMA TransportInit == Transport!Init => TransportInvariant
<1> SUFFICES ASSUME Transport!Init PROVE TransportInvariant
  OBVIOUS
<1> USE DEF Transport!Init
<1>1. TransportFlags
  BY DEF TransportFlags
<1>2. TransportCounts
  BY DEF TransportCounts
<1>3. Transport!Pending = 0
  BY DEF Transport!Pending
<1>4. Transport!TransportIsDriven
  BY <1>3 DEF Transport!TransportIsDriven, Transport!Live
<1> QED BY <1>1, <1>2, <1>4 DEF TransportInvariant, TransportTypes

LEMMA TransportStep ==
    TransportInvariant /\ [Transport!Next]_(Transport!fdVars) => TransportInvariant'
<1> SUFFICES ASSUME TransportInvariant, [Transport!Next]_(Transport!fdVars)
             PROVE  TransportInvariant'
  OBVIOUS
<1> USE TransportParameters DEF Transport!FileDescriptorAssumption, TransportInvariant,
      TransportTypes, TransportFlags, TransportCounts, Transport!TransportIsDriven,
      Transport!Live, Transport!Pending, Transport!fdFlags, Transport!fdBuffer, Transport!fdProducer
<1>1. ASSUME NEW n \in 1..MaxBytes, Transport!Write(n) PROVE TransportInvariant'
  <2>1. /\ tempLen' = tempLen + n /\ accepted' = accepted + n /\ writing' = TRUE /\ connected
        /\ buffered' = buffered /\ offset' = offset /\ sent' = sent /\ reading' = reading
        /\ producer' = producer /\ lost' = lost
        /\ UNCHANGED <<connected, disconnecting, writeDisconnecting, writeDisconnected, aborting>>
    BY <1>1 DEF Transport!Write
  <2>2. TransportFlags'
    BY <1>1, <2>1 DEF Transport!Write
  <2>3. told' \in {"produce", "pause"}
    BY <1>1, <2>1 DEF Transport!Write
  <2>4. (producer = "push" /\ told' = "pause" /\ ~aborting) => producerPaused'
    BY <1>1, <2>1 DEF Transport!Write
  <2>5. TransportCounts' /\ accepted' = sent' + Transport!Pending'
    BY <2>1
  <2> QED BY <2>1, <2>2, <2>3, <2>4, <2>5
<1>2. ASSUME NEW k \in {"push", "pull"}, Transport!RegisterProducer(k) PROVE TransportInvariant'
  BY <1>2 DEF Transport!RegisterProducer
<1>3. ASSUME NEW n \in 0..SendLimit, Transport!DoWrite(n) PROVE TransportInvariant'
  <2> DEFINE all == Transport!From + n = Transport!Length /\ Transport!LeftInTemp = 0
  <2>0. /\ writing /\ ~aborting /\ connected /\ sent' = sent + n /\ accepted' = accepted
        /\ disconnecting' = disconnecting /\ writeDisconnecting' = writeDisconnecting
        /\ aborting' = aborting /\ n \in Nat /\ n <= Transport!Length - Transport!From
    BY <1>3 DEF Transport!DoWrite
  <2>1. /\ Transport!Length \in Nat /\ Transport!From \in Nat /\ Transport!LeftInTemp \in Nat
        /\ Transport!Length - Transport!From + Transport!LeftInTemp = buffered - offset + tempLen
        /\ Transport!From <= Transport!Length
    BY DEF Transport!Refill, Transport!Length, Transport!From, Transport!LeftInTemp
  <2>2. CASE all
    <3>1. buffered' = 0 /\ offset' = 0 /\ tempLen' = 0
      BY <1>3, <2>2 DEF Transport!DoWrite
    <3>2. TransportCounts' /\ accepted' = sent' + Transport!Pending' /\ Transport!Pending' = 0
      BY <2>0, <2>1, <2>2, <3>1
    <3>3. CASE Transport!AskAgain
      <4>1. /\ producerPaused' = FALSE /\ told' = "produce" /\ writing' = FALSE
            /\ UNCHANGED <<connected, writeDisconnected, reading, producer, lost>>
        BY <1>3, <2>2, <3>3 DEF Transport!DoWrite
      <4>2. producer # "none"
        BY <3>3 DEF Transport!AskAgain
      <4>3. TransportFlags'
        BY <2>0, <4>1
      <4>4. Transport!TransportIsDriven'
        BY <2>0, <3>1, <3>2, <4>1, <4>2
      <4> QED BY <2>0, <3>2, <4>1, <4>3, <4>4
    <3>4. CASE ~Transport!AskAgain /\ disconnecting
      <4>1. Transport!ConnectionLost("done") /\ UNCHANGED writeDisconnected
        BY <1>3, <2>2, <3>4 DEF Transport!DoWrite
      <4> QED BY <2>0, <3>2, <4>1 DEF Transport!ConnectionLost
    <3>5. CASE ~Transport!AskAgain /\ ~disconnecting
      <4>1. /\ writeDisconnected' = (writeDisconnected \/ writeDisconnecting) /\ writing' = FALSE
            /\ UNCHANGED <<connected, reading, producer, producerPaused, told, lost>>
        BY <1>3, <2>2, <3>5 DEF Transport!DoWrite
      <4>2. ~(producer # "none" /\ told = "pause")
        BY <2>0, <3>5 DEF Transport!AskAgain
      <4>3. TransportFlags'
        BY <2>0, <4>1
      <4>4. Transport!TransportIsDriven'
        BY <2>0, <3>1, <3>2, <3>5, <4>1, <4>2
      <4> QED BY <2>0, <3>2, <4>1, <4>3, <4>4
    <3> QED BY <3>3, <3>4, <3>5
  <2>3. CASE ~all
    <3>1. /\ buffered' = Transport!Length /\ offset' = Transport!From + n
          /\ tempLen' = Transport!LeftInTemp
          /\ UNCHANGED <<connected, writeDisconnected, reading, writing, producer,
                         producerPaused, told, lost>>
      BY <1>3, <2>3 DEF Transport!DoWrite
    <3>2. TransportCounts' /\ accepted' = sent' + Transport!Pending'
      BY <2>0, <2>1, <3>1
    <3> QED BY <2>0, <3>1, <3>2
  <2> QED BY <2>2, <2>3
<1>4. CASE Transport!LoseConnection
  BY <1>4 DEF Transport!LoseConnection, Transport!ConnectionLost
<1>5. CASE Transport!LoseWriteConnection
  BY <1>5 DEF Transport!LoseWriteConnection
<1>6. CASE Transport!AbortConnection
  BY <1>6 DEF Transport!AbortConnection
<1>7. CASE Transport!UnregisterProducer
  BY <1>7 DEF Transport!UnregisterProducer, Transport!RestartsWriting
<1>8. CASE Transport!PauseProducing
  <2>1. /\ reading' = FALSE
        /\ UNCHANGED <<connected, disconnecting, writeDisconnecting, writeDisconnected, aborting,
                       buffered, offset, tempLen, accepted, sent, writing, producer,
                       producerPaused, told, lost>>
    BY <1>8 DEF Transport!PauseProducing
  <2>2. TransportFlags'
    BY <2>1
  <2>3. TransportCounts'
    BY <2>1
  <2> QED BY <2>1, <2>2, <2>3
<1>9. CASE Transport!ResumeProducing
  <2>1. /\ reading' = TRUE /\ connected
        /\ UNCHANGED <<connected, disconnecting, writeDisconnecting, writeDisconnected, aborting,
                       buffered, offset, tempLen, accepted, sent, writing, producer,
                       producerPaused, told, lost>>
    BY <1>9 DEF Transport!ResumeProducing
  <2>2. TransportFlags'
    BY <2>1
  <2>3. TransportCounts'
    BY <2>1
  <2> QED BY <2>1, <2>2, <2>3
<1>10. CASE Transport!ReadsEnd
  BY <1>10 DEF Transport!ReadsEnd, Transport!ConnectionLost
<1>11. CASE Transport!Fails
  BY <1>11 DEF Transport!Fails, Transport!ConnectionLost
<1>12. CASE Transport!Aborted
  BY <1>12 DEF Transport!Aborted, Transport!ConnectionLost
<1>13. CASE UNCHANGED Transport!fdVars
  BY <1>13 DEF Transport!fdVars
<1> QED
  BY <1>1, <1>2, <1>3, <1>4, <1>5, <1>6, <1>7, <1>8, <1>9, <1>10, <1>11, <1>12,
     <1>13 DEF Transport!Next

(***************************************************************************)
(* Whatever the application, its producer and the reactor do, buffered     *)
(* bytes, a close that was asked for and a paused producer have a doWrite  *)
(* coming, no accepted byte is lost while the connection is there, and     *)
(* loseConnection closes it only when all have been sent.                  *)
(***************************************************************************)
THEOREM TransportIsAlwaysDriven == Transport!Spec => []TransportIsDriven
<1>1. Transport!Spec => []TransportInvariant
  BY TransportInit, TransportStep, PTL DEF Transport!Spec
<1>2. TransportInvariant => TransportIsDriven
  BY DEF TransportInvariant, TransportIsDriven
<1> QED BY <1>1, <1>2, PTL

-------------------------------------------------------------------------------
(***************************************************************************)
(* SSHChannel.  Its packets: a window adjustment is at most a window, and  *)
(* no piece of data is longer than a packet may be.                        *)
(***************************************************************************)
SshKinds == {"open", "confirm", "openfail", "data", "ext", "adjust", "close", "request", "reply"}
SshLimit == Window + MaxPacket
SshPackets == [t : SshKinds, n : 0..SshLimit]

-------------------------------------------------------------------------------
(***************************************************************************)
(* Counting packets and bytes in sequences of packets.                     *)
(***************************************************************************)
LEMMA SshCardinality == ASSUME NEW S PROVE Channel!Cardinality(S) = Cardinality(S)
BY DEF Channel!Cardinality, Cardinality

LEMMA SshSameSize ==
    ASSUME NEW S, NEW T, IsFiniteSet(S), NEW f \in [S -> T],
           \A x, y \in S : f[x] = f[y] => x = y, \A z \in T : \E x \in S : f[x] = z
    PROVE  IsFiniteSet(T) /\ Cardinality(T) = Cardinality(S)
<1>1. f \in Bijection(S, T)
  BY Fun_IsBij
<1>2. ExistsBijection(S, T)
  BY <1>1 DEF ExistsBijection
<1> QED BY <1>2, FS_Bijection

LEMMA SshTogether ==
    ASSUME NEW S, NEW T, IsFiniteSet(S), IsFiniteSet(T), S \cap T = {}
    PROVE  IsFiniteSet(S \cup T) /\ Cardinality(S \cup T) = Cardinality(S) + Cardinality(T)
<1>1. Cardinality(S \cap T) = 0
  BY FS_EmptySet
<1>2. Cardinality(S) \in Nat /\ Cardinality(T) \in Nat
  BY FS_CardinalityType
<1>3. /\ IsFiniteSet(S \cup T)
      /\ Cardinality(S \cup T) = Cardinality(S) + Cardinality(T) - Cardinality(S \cap T)
  BY FS_Union
<1> QED BY ONLY <1>1, <1>2, <1>3

\* Where the bytes of a sequence of packets are.
SshBytes(s, T) == UNION {{i} \X (1..s[i].n) : i \in Channel!Of(s, T)}

LEMMA SshByte ==
    ASSUME NEW s, NEW T
    PROVE  \A x : x \in SshBytes(s, T) <=> \E i \in Channel!Of(s, T) : \E b \in 1..s[i].n : x = <<i, b>>
BY DEF SshBytes

LEMMA SshCounts ==
    ASSUME NEW s, NEW T
    PROVE  /\ Channel!Count(s, T) = Cardinality(Channel!Of(s, T))
           /\ Channel!Bytes(s, T) = Cardinality(SshBytes(s, T))
BY SshCardinality DEF Channel!Count, Channel!Bytes, SshBytes

LEMMA SshPacket ==
    ASSUME NEW s \in Seq(SshPackets)
    PROVE  /\ Len(s) \in Nat
           /\ \A i \in 1..Len(s) : s[i] \in SshPackets /\ s[i].n \in 0..SshLimit /\ s[i].t \in SshKinds
           /\ SshLimit \in Nat
<1>1. Len(s) \in Nat /\ \A i \in 1..Len(s) : s[i] \in SshPackets
  OBVIOUS
<1>2. SshLimit \in Nat
  BY ChannelParameters DEF Channel!SSHChannelAssumption, SshLimit
<1> QED BY <1>1, <1>2 DEF SshPackets

LEMMA SshFinite ==
    ASSUME NEW s \in Seq(SshPackets), NEW T
    PROVE  /\ IsFiniteSet(Channel!Of(s, T)) /\ IsFiniteSet(SshBytes(s, T))
           /\ Channel!Count(s, T) \in Nat /\ Channel!Bytes(s, T) \in Nat
<1>1. PICK n \in Nat : n = Len(s)
  BY SshPacket
<1>2. IsFiniteSet(1..n)
  BY FS_Interval
<1>3. Channel!Of(s, T) \in SUBSET (1..n)
  BY <1>1 DEF Channel!Of
<1>4. IsFiniteSet(Channel!Of(s, T))
  BY <1>2, <1>3, FS_Subset
<1>5. IsFiniteSet((1..n) \X (1..SshLimit))
  <2>1. IsFiniteSet(1..SshLimit)
    BY SshPacket, FS_Interval
  <2> QED BY <1>2, <2>1, FS_Product
<1>6. SshBytes(s, T) \in SUBSET ((1..n) \X (1..SshLimit))
  <2> SUFFICES ASSUME NEW x \in SshBytes(s, T) PROVE x \in (1..n) \X (1..SshLimit)
    OBVIOUS
  <2>1. PICK i \in Channel!Of(s, T), b \in Nat : b \in 1..s[i].n /\ x = <<i, b>>
    <3>1. PICK i \in Channel!Of(s, T) : \E b \in 1..s[i].n : x = <<i, b>>
      BY SshByte
    <3>2. s[i].n \in Nat
      BY <1>1, <1>3, <3>1, SshPacket
    <3> QED BY <3>1, <3>2
  <2>2. i \in 1..n /\ s[i].n \in 0..SshLimit /\ SshLimit \in Nat
    BY <1>1, <1>3, <2>1, SshPacket
  <2>3. b \in 1..SshLimit
    BY <2>1, <2>2
  <2> QED BY <2>1, <2>2, <2>3
<1>7. IsFiniteSet(SshBytes(s, T))
  BY <1>5, <1>6, FS_Subset
<1> QED BY <1>4, <1>7, SshCounts, FS_CardinalityType

LEMMA SshNone ==
    ASSUME NEW s, NEW T, Channel!Of(s, T) = {}
    PROVE  Channel!Count(s, T) = 0 /\ Channel!Bytes(s, T) = 0
<1>1. SshBytes(s, T) = {}
  BY SshByte
<1> QED BY <1>1, SshCounts, FS_EmptySet

LEMMA SshConcat ==
    ASSUME NEW s \in Seq(SshPackets), NEW t \in Seq(SshPackets)
    PROVE  /\ s \o t \in Seq(SshPackets) /\ Len(s \o t) = Len(s) + Len(t)
           /\ \A i \in 1..Len(s) : (s \o t)[i] = s[i]
           /\ \A i \in 1..Len(t) : (s \o t)[i + Len(s)] = t[i]
           /\ \A j \in 1..(Len(s) + Len(t)) :
                 j \in 1..Len(s) \/ \E i \in 1..Len(t) : j = i + Len(s)
<1>1. s \o t \in Seq(SshPackets) /\ Len(s \o t) = Len(s) + Len(t)
  OBVIOUS
<1>2. \A i \in 1..Len(s) : (s \o t)[i] = s[i]
  OBVIOUS
<1>3. \A i \in 1..Len(t) : (s \o t)[i + Len(s)] = t[i]
  OBVIOUS
<1>4. Len(s) \in Nat /\ Len(t) \in Nat
  OBVIOUS
<1>5. ASSUME NEW j \in 1..(Len(s) + Len(t))
      PROVE  j \in 1..Len(s) \/ \E i \in 1..Len(t) : j = i + Len(s)
  <2>1. CASE j <= Len(s)
    BY <1>4, <2>1
  <2>2. CASE j > Len(s)
    <3>1. j - Len(s) \in 1..Len(t) /\ j = (j - Len(s)) + Len(s)
      BY <1>4, <2>2
    <3> QED BY <3>1
  <2> QED BY <1>4, <2>1, <2>2
<1> QED BY <1>1, <1>2, <1>3, <1>5

\* The packets of a concatenation, and their bytes, are those of its parts.
LEMMA SshOfConcat ==
    ASSUME NEW s \in Seq(SshPackets), NEW t \in Seq(SshPackets), NEW T
    PROVE  \A j : j \in Channel!Of(s \o t, T) <=>
              j \in Channel!Of(s, T) \/ \E i \in Channel!Of(t, T) : j = i + Len(s)
<1> DEFINE u == s \o t
<1>1. /\ Len(u) = Len(s) + Len(t) /\ Len(s) \in Nat /\ Len(t) \in Nat
      /\ \A i \in 1..Len(s) : u[i] = s[i]
      /\ \A i \in 1..Len(t) : u[i + Len(s)] = t[i]
      /\ \A j \in 1..(Len(s) + Len(t)) :
            j \in 1..Len(s) \/ \E i \in 1..Len(t) : j = i + Len(s)
  BY SshConcat, SshPacket
<1> HIDE DEF u
<1>2. ASSUME NEW j \in Channel!Of(u, T)
      PROVE  j \in Channel!Of(s, T) \/ \E i \in Channel!Of(t, T) : j = i + Len(s)
  BY <1>1, <1>2 DEF Channel!Of
<1>3. ASSUME NEW j \in Channel!Of(s, T) PROVE j \in Channel!Of(u, T)
  <2>1. j \in 1..Len(s) /\ j \in 1..Len(u)
    BY <1>1, <1>3 DEF Channel!Of
  <2> QED BY <1>1, <1>3, <2>1 DEF Channel!Of
<1>4. ASSUME NEW i \in Channel!Of(t, T) PROVE i + Len(s) \in Channel!Of(u, T)
  <2>1. i \in 1..Len(t) /\ i + Len(s) \in 1..Len(u)
    BY <1>1, <1>4 DEF Channel!Of
  <2> QED BY <1>1, <1>4, <2>1 DEF Channel!Of
<1> QED BY <1>2, <1>3, <1>4 DEF u

LEMMA SshSum ==
    ASSUME NEW s \in Seq(SshPackets), NEW t \in Seq(SshPackets), NEW T
    PROVE  /\ Channel!Count(s \o t, T) = Channel!Count(s, T) + Channel!Count(t, T)
           /\ Channel!Bytes(s \o t, T) = Channel!Bytes(s, T) + Channel!Bytes(t, T)
<1> DEFINE u == s \o t
<1>1. /\ Len(u) = Len(s) + Len(t) /\ u \in Seq(SshPackets)
      /\ \A i \in 1..Len(s) : u[i] = s[i]
      /\ \A i \in 1..Len(t) : u[i + Len(s)] = t[i]
      /\ \A j : j \in Channel!Of(u, T) <=>
            j \in Channel!Of(s, T) \/ \E i \in Channel!Of(t, T) : j = i + Len(s)
  BY SshConcat, SshOfConcat
<1>2. PICK n \in Nat : n = Len(s)
  BY SshPacket
<1>3. /\ \A i \in Channel!Of(s, T) : i \in 1..n
      /\ \A i \in Channel!Of(t, T) : i \in Nat \ {0} /\ i \in 1..Len(t)
  BY <1>2, SshPacket DEF Channel!Of
<1> HIDE DEF u
<1>4. Channel!Count(u, T) = Channel!Count(s, T) + Channel!Count(t, T)
  <2> DEFINE A == Channel!Of(s, T)
             B == Channel!Of(t, T)
             C == {i + n : i \in B}
             f == [i \in B |-> i + n]
  <2>1. IsFiniteSet(A) /\ IsFiniteSet(B)
    BY SshFinite
  <2>2. f \in [B -> C] /\ \A z \in C : \E x \in B : f[x] = z
    OBVIOUS
  <2>3. \A x, y \in B : f[x] = f[y] => x = y
    BY <1>3
  <2>4. IsFiniteSet(C) /\ Cardinality(C) = Cardinality(B)
    <3> HIDE DEF A, B, C, f
    <3> QED BY <2>1, <2>2, <2>3, SshSameSize
  <2>5. A \cap C = {}
    BY <1>2, <1>3
  <2>6. Channel!Of(u, T) = A \cup C
    BY <1>1, <1>2
  <2>7. Cardinality(A \cup C) = Cardinality(A) + Cardinality(C)
    <3> HIDE DEF A, B, C, f
    <3> QED BY <2>1, <2>4, <2>5, SshTogether
  <2> QED BY <2>4, <2>6, <2>7, SshCounts
<1>5. Channel!Bytes(u, T) = Channel!Bytes(s, T) + Channel!Bytes(t, T)
  <2> DEFINE A == SshBytes(s, T)
             B == SshBytes(t, T)
             C == {<<x[1] + n, x[2]>> : x \in B}
             f == [x \in B |-> <<x[1] + n, x[2]>>]
  <2>1. IsFiniteSet(A) /\ IsFiniteSet(B)
    BY SshFinite
  <2>2. f \in [B -> C] /\ \A z \in C : \E x \in B : f[x] = z
    OBVIOUS
  <2>a. \A x \in B : \E i \in Channel!Of(t, T) : \E b \in 1..t[i].n : x = <<i, b>>
    BY SshByte
  <2>b. \A x \in A : \E i \in Channel!Of(s, T) : \E b \in 1..s[i].n : x = <<i, b>>
    BY SshByte
  <2>3. ASSUME NEW x \in B, NEW y \in B, f[x] = f[y] PROVE x = y
    <3>1. PICK i \in Channel!Of(t, T) : \E b \in 1..t[i].n : x = <<i, b>>
      BY <2>a
    <3>2. PICK b \in 1..t[i].n : x = <<i, b>>
      BY <3>1
    <3>3. PICK j \in Channel!Of(t, T) : \E c \in 1..t[j].n : y = <<j, c>>
      BY <2>a
    <3>4. PICK c \in 1..t[j].n : y = <<j, c>>
      BY <3>3
    <3>5. <<i + n, b>> = <<j + n, c>>
      BY <2>3, <3>2, <3>4
    <3>6. i + n = j + n /\ b = c
      BY <3>5
    <3>7. i = j
      BY <1>3, <3>6
    <3> QED BY <3>2, <3>4, <3>6, <3>7
  <2>4. IsFiniteSet(C) /\ Cardinality(C) = Cardinality(B)
    <3> HIDE DEF A, B, C, f
    <3> QED BY <2>1, <2>2, <2>3, SshSameSize
  <2>5. A \cap C = {}
    <3> SUFFICES ASSUME NEW x \in A, NEW y \in B, x = <<y[1] + n, y[2]>> PROVE FALSE
      OBVIOUS
    <3>1. PICK i \in Channel!Of(s, T) : \E b \in 1..s[i].n : x = <<i, b>>
      BY <2>b
    <3>2. PICK j \in Channel!Of(t, T) : \E c \in 1..t[j].n : y = <<j, c>>
      BY <2>a
    <3>3. i = j + n
      BY <3>1, <3>2
    <3> QED BY <1>3, <3>3
  <2>6. SshBytes(u, T) = A \cup C
    <3>1. ASSUME NEW x \in SshBytes(u, T) PROVE x \in A \cup C
      <4>1. PICK j \in Channel!Of(u, T) : \E b \in 1..u[j].n : x = <<j, b>>
        BY <3>1, SshByte
      <4>2. CASE j \in Channel!Of(s, T)
        <5>1. u[j] = s[j]
          BY <1>1, <1>2, <1>3, <4>2
        <5> QED BY <4>1, <4>2, <5>1, SshByte
      <4>3. ASSUME NEW i \in Channel!Of(t, T), j = i + n PROVE x \in C
        <5>1. u[j] = t[i]
          BY <1>1, <1>2, <1>3, <4>3
        <5>2. PICK b \in 1..t[i].n : x = <<j, b>>
          BY <4>1, <5>1
        <5>3. <<i, b>> \in B
          BY <4>3, <5>2, SshByte
        <5>4. x = <<(<<i, b>>)[1] + n, (<<i, b>>)[2]>>
          BY <4>3, <5>2
        <5> QED BY <5>3, <5>4
      <4> QED BY <1>1, <1>2, <4>1, <4>2, <4>3
    <3>2. ASSUME NEW x \in A PROVE x \in SshBytes(u, T)
      <4>1. PICK i \in Channel!Of(s, T) : \E b \in 1..s[i].n : x = <<i, b>>
        BY <2>b
      <4>2. u[i] = s[i] /\ i \in Channel!Of(u, T)
        BY <1>1, <1>2, <1>3, <4>1
      <4> QED BY <4>1, <4>2, SshByte
    <3>3. ASSUME NEW y \in B PROVE <<y[1] + n, y[2]>> \in SshBytes(u, T)
      <4>1. PICK i \in Channel!Of(t, T) : \E b \in 1..t[i].n : y = <<i, b>>
        BY <2>a
      <4>2. PICK b \in 1..t[i].n : y = <<i, b>>
        BY <4>1
      <4>3. u[i + n] = t[i] /\ i + n \in Channel!Of(u, T)
        BY <1>1, <1>2, <1>3, <4>1
      <4>4. <<y[1] + n, y[2]>> = <<i + n, b>>
        BY <4>2
      <4>5. <<i + n, b>> \in SshBytes(u, T)
        BY <4>2, <4>3, SshByte
      <4> QED BY <4>4, <4>5
    <3> QED BY <3>1, <3>2, <3>3
  <2>7. Cardinality(A \cup C) = Cardinality(A) + Cardinality(C)
    <3> HIDE DEF A, B, C, f
    <3> QED BY <2>1, <2>4, <2>5, SshTogether
  <2> QED BY <2>4, <2>6, <2>7, SshCounts
<1> QED BY <1>4, <1>5 DEF u

LEMMA SshOne ==
    ASSUME NEW m \in SshPackets, NEW T
    PROVE  /\ <<m>> \in Seq(SshPackets)
           /\ Channel!Count(<<m>>, T) = IF m.t \in T THEN 1 ELSE 0
           /\ Channel!Bytes(<<m>>, T) = IF m.t \in T THEN m.n ELSE 0
<1>1. m.n \in Nat
  BY SshPacket DEF SshPackets
<1>2. CASE m.t \notin T
  <2>1. Channel!Of(<<m>>, T) = {}
    BY <1>2 DEF Channel!Of
  <2> QED BY <1>2, <2>1, SshNone
<1>3. CASE m.t \in T
  <2>1. Channel!Of(<<m>>, T) = {1}
    BY <1>3 DEF Channel!Of
  <2>2. Channel!Count(<<m>>, T) = 1
    BY <2>1, SshCounts, FS_Singleton
  <2> DEFINE A == 1..m.n
             B == SshBytes(<<m>>, T)
             f == [b \in A |-> <<1, b>>]
  <2>3. \A x : x \in B <=> \E b \in A : x = <<1, b>>
    BY <2>1, SshByte
  <2>4. f \in [A -> B] /\ \A z \in B : \E x \in A : f[x] = z
    BY <2>3
  <2>5. \A x, y \in A : f[x] = f[y] => x = y
    OBVIOUS
  <2>6. IsFiniteSet(A) /\ Cardinality(A) = m.n
    <3>1. 1 \in Int /\ m.n \in Int /\ (IF 1 > m.n THEN 0 ELSE m.n - 1 + 1) = m.n
      BY <1>1
    <3> QED BY <3>1, FS_Interval
  <2>7. Cardinality(B) = Cardinality(A)
    <3> HIDE DEF A, B, f
    <3> QED BY <2>4, <2>5, <2>6, SshSameSize
  <2> QED BY <1>3, <2>2, <2>6, <2>7, SshCounts
<1> QED BY <1>2, <1>3

\* The first packet and the others.
LEMMA SshSplit ==
    ASSUME NEW s \in Seq(SshPackets), s # <<>>, NEW T
    PROVE  /\ Head(s) \in SshPackets /\ Tail(s) \in Seq(SshPackets)
           /\ Channel!Count(s, T) = Channel!Count(Tail(s), T) + (IF Head(s).t \in T THEN 1 ELSE 0)
           /\ Channel!Bytes(s, T) =
                 Channel!Bytes(Tail(s), T) + (IF Head(s).t \in T THEN Head(s).n ELSE 0)
           /\ \A i \in Channel!Of(Tail(s), T) : i + 1 \in Channel!Of(s, T)
           /\ Head(s).t \in T => 1 \in Channel!Of(s, T)
<1>1. Head(s) \in SshPackets /\ Tail(s) \in Seq(SshPackets)
  OBVIOUS
<1>2. s = <<Head(s)>> \o Tail(s) /\ Len(<<Head(s)>>) = 1
  OBVIOUS
<1>3. PICK h \in SshPackets : h = Head(s)
  BY <1>1
<1>4. PICK r \in Seq(SshPackets) : r = Tail(s)
  BY <1>1
<1>5. s = <<h>> \o r /\ <<h>> \in Seq(SshPackets) /\ Len(<<h>>) = 1
  BY <1>2, <1>3, <1>4
<1>6. /\ Channel!Count(s, T) = Channel!Count(<<h>>, T) + Channel!Count(r, T)
      /\ Channel!Bytes(s, T) = Channel!Bytes(<<h>>, T) + Channel!Bytes(r, T)
  BY <1>5, SshSum
<1>7. /\ Channel!Count(<<h>>, T) = IF h.t \in T THEN 1 ELSE 0
      /\ Channel!Bytes(<<h>>, T) = IF h.t \in T THEN h.n ELSE 0
      /\ h.n \in Nat
  BY SshOne, SshPacket DEF SshPackets
<1>8. Channel!Count(r, T) \in Nat /\ Channel!Bytes(r, T) \in Nat
  BY SshFinite
<1>9. \A j : j \in Channel!Of(s, T) <=>
         j \in Channel!Of(<<h>>, T) \/ \E i \in Channel!Of(r, T) : j = i + 1
  <2>1. \A j : j \in Channel!Of(<<h>> \o r, T) <=>
           j \in Channel!Of(<<h>>, T) \/ \E i \in Channel!Of(r, T) : j = i + Len(<<h>>)
    BY <1>5, SshOfConcat
  <2> QED BY <1>5, <2>1
<1>10. h.t \in T => 1 \in Channel!Of(<<h>>, T)
  BY DEF Channel!Of
<1> QED BY <1>3, <1>4, <1>6, <1>7, <1>8, <1>9, <1>10

\* n bytes are sent in packets of at most MaxPacket.
LEMMA SshPieces ==
    ASSUME NEW n \in Nat, NEW k \in {"data", "ext"}
    PROVE  /\ Channel!Packets(k, n) \in Seq(SshPackets)
           /\ \A i \in 1..Len(Channel!Packets(k, n)) :
                 Channel!Packets(k, n)[i].t = k /\ Channel!Packets(k, n)[i].n <= MaxPacket
           /\ Channel!Bytes(Channel!Packets(k, n), {"data", "ext"}) = n
<1> DEFINE s == Channel!Packets(k, n)
<1>1. PICK m \in Nat \ {0} : m = MaxPacket
  BY ChannelParameters DEF Channel!SSHChannelAssumption
<1>2. PICK q \in Nat : /\ q = (n + m - 1) \div m
                       /\ m * q <= n + m - 1 /\ n + m - 1 < m * q + m
  <2>1. n + m - 1 \in Nat
    BY <1>1
  <2>2. PICK x \in Nat : x = n + m - 1
    BY <2>1
  <2>3. x \div m \in Nat /\ m * (x \div m) <= x /\ x < m * (x \div m) + m
    BY <1>1, <2>2
  <2> QED BY <2>2, <2>3
<1>3. \A i \in 1..q : (i - 1) * m \in Nat /\ (i - 1) * m < n
  <2> TAKE i \in 1..q
  <2>1. i - 1 \in Nat /\ i - 1 < q
    BY <1>2
  <2>2. (i - 1) * m + m <= q * m /\ (i - 1) * m \in Nat
    BY <1>1, <2>1
  <2>3. q * m = m * q /\ q * m \in Nat
    BY <1>1, <1>2
  <2> QED BY <1>1, <1>2, <2>2, <2>3
<1>4. s = [i \in 1..q |-> [t |-> k, n |-> IF m < n - (i - 1) * m THEN m ELSE n - (i - 1) * m]]
  BY <1>1, <1>2 DEF Channel!Packets, Channel!Msg, Channel!Least
<1> HIDE DEF s
<1>5. \A i \in 1..q : /\ s[i].t = k /\ s[i].n \in 1..m
                      /\ s[i].n = IF m < n - (i - 1) * m THEN m ELSE n - (i - 1) * m
                      /\ s[i] = [t |-> k, n |-> s[i].n]
  <2> TAKE i \in 1..q
  <2>1. PICK y \in Nat : y = (i - 1) * m /\ y < n
    BY <1>3
  <2>2. s[i] = [t |-> k, n |-> IF m < n - y THEN m ELSE n - y]
    BY <1>4, <2>1
  <2>3. (IF m < n - y THEN m ELSE n - y) \in 1..m
    BY <1>1, <2>1
  <2> QED BY <2>1, <2>2, <2>3
<1>6. s \in Seq(SshPackets) /\ Len(s) = q
  <2>1. SshLimit \in Nat /\ m <= SshLimit
    BY <1>1, ChannelParameters DEF SshLimit, Channel!SSHChannelAssumption
  <2>2. \A i \in 1..q : s[i].n \in 0..SshLimit
    <3> TAKE i \in 1..q
    <3>1. s[i].n \in 1..m
      BY <1>5
    <3> QED BY <1>1, <2>1, <3>1
  <2>3. k \in SshKinds
    BY DEF SshKinds
  <2>4. \A i \in 1..q : s[i] \in SshPackets
    <3> TAKE i \in 1..q
    <3>1. PICK x \in 0..SshLimit : s[i] = [t |-> k, n |-> x]
      BY <1>5, <2>2
    <3> QED BY <2>3, <3>1 DEF SshPackets
  <2>5. s \in [1..q -> SshPackets]
    BY <1>4, <2>4
  <2> QED BY <1>2, <2>5
<1>7. Channel!Of(s, {"data", "ext"}) = 1..q
  BY <1>5, <1>6 DEF Channel!Of
<1> DEFINE B == SshBytes(s, {"data", "ext"})
           f == [x \in B |-> (x[1] - 1) * m + x[2]]
<1>8. \A x : x \in B <=> \E i \in 1..q : \E b \in 1..s[i].n : x = <<i, b>>
  BY <1>7, SshByte
<1>9. ASSUME NEW x \in B PROVE f[x] \in 1..n
  <2>1. PICK i \in 1..q : \E b \in 1..s[i].n : x = <<i, b>>
    BY <1>8
  <2>2. PICK b \in 1..s[i].n : x = <<i, b>>
    BY <2>1
  <2>3. PICK y \in Nat : y = (i - 1) * m /\ y < n
    BY <1>3
  <2>4. f[x] = y + b
    BY <2>2, <2>3
  <2>5. s[i].n = (IF m < n - y THEN m ELSE n - y) /\ s[i].n \in 1..m
    BY <1>5, <2>3
  <2> QED BY <1>1, <2>2, <2>3, <2>4, <2>5
<1>10. ASSUME NEW x \in B, NEW z \in B, f[x] = f[z] PROVE x = z
  <2>1. PICK i \in 1..q : \E b \in 1..s[i].n : x = <<i, b>>
    BY <1>8
  <2>2. PICK b \in 1..s[i].n : x = <<i, b>>
    BY <2>1
  <2>3. PICK j \in 1..q : \E c \in 1..s[j].n : z = <<j, c>>
    BY <1>8
  <2>4. PICK c \in 1..s[j].n : z = <<j, c>>
    BY <2>3
  <2>5. b \in 1..m /\ c \in 1..m
    <3>1. s[i].n \in 1..m /\ s[j].n \in 1..m
      BY <1>5
    <3> QED BY <1>1, <2>2, <2>4, <3>1
  <2>6. (i - 1) * m + b = (j - 1) * m + c
    BY <1>10, <2>2, <2>4
  <2>7. PICK y \in Nat : y = (i - 1) * m
    BY <1>3
  <2>8. PICK w \in Nat : w = (j - 1) * m
    BY <1>3
  <2>9. ~(i < j)
    <3> SUFFICES ASSUME i < j PROVE FALSE
      OBVIOUS
    <3>1. i - 1 \in Nat /\ j - 1 \in Nat /\ i - 1 < j - 1
      BY <1>2
    <3>2. y + m <= w
      BY <1>1, <2>7, <2>8, <3>1
    <3> QED BY <1>1, <2>5, <2>6, <2>7, <2>8, <3>2
  <2>10. ~(j < i)
    <3> SUFFICES ASSUME j < i PROVE FALSE
      OBVIOUS
    <3>1. i - 1 \in Nat /\ j - 1 \in Nat /\ j - 1 < i - 1
      BY <1>2
    <3>2. w + m <= y
      BY <1>1, <2>7, <2>8, <3>1
    <3> QED BY <1>1, <2>5, <2>6, <2>7, <2>8, <3>2
  <2>11. i = j
    BY <1>2, <2>9, <2>10
  <2>12. b = c
    BY <1>1, <2>5, <2>6, <2>7, <2>8, <2>11
  <2> QED BY <2>2, <2>4, <2>11, <2>12
<1>11. ASSUME NEW z \in 1..n PROVE \E x \in B : f[x] = z
  <2>1. PICK d \in Nat : d = (z - 1) \div m /\ m * d <= z - 1 /\ z - 1 < m * d + m
    <3>1. PICK y \in Nat : y = z - 1
      OBVIOUS
    <3>2. y \div m \in Nat /\ m * (y \div m) <= y /\ y < m * (y \div m) + m
      BY <1>1, <3>1
    <3> QED BY <3>1, <3>2
  <2>2. PICK y \in Nat : y = d * m /\ y = m * d
    BY <1>1, <2>1
  <2>3. d < q
    <3> SUFFICES ASSUME q <= d PROVE FALSE
      BY <1>2, <2>1
    <3>1. q * m <= d * m /\ q * m \in Nat /\ m * q = q * m
      BY <1>1, <1>2, <2>1
    <3> QED BY <1>1, <1>2, <2>1, <2>2, <3>1
  <2>4. d + 1 \in 1..q /\ (d + 1) - 1 = d
    BY <1>2, <2>1, <2>3
  <2>5. z - y \in 1..s[d + 1].n
    <3>1. s[d + 1].n = IF m < n - y THEN m ELSE n - y
      BY <1>5, <2>2, <2>4
    <3> QED BY <1>1, <2>1, <2>2, <3>1
  <2>6. <<d + 1, z - y>> \in B
    BY <1>8, <2>4, <2>5
  <2>7. f[<<d + 1, z - y>>] = z
    <3>1. f[<<d + 1, z - y>>] = ((d + 1) - 1) * m + (z - y)
      BY <2>6
    <3> QED BY <2>2, <2>4, <3>1
  <2> QED BY <2>6, <2>7
<1>12. IsFiniteSet(B)
  BY <1>6, SshFinite
<1>13. Cardinality(1..n) = Cardinality(B)
  <2>1. f \in [B -> 1..n]
    BY <1>9
  <2> HIDE DEF B, f
  <2> QED BY <1>10, <1>11, <1>12, <2>1, SshSameSize
<1>14. Cardinality(1..n) = n
  <2>1. 1 \in Int /\ n \in Int /\ (IF 1 > n THEN 0 ELSE n - 1 + 1) = n
    OBVIOUS
  <2> QED BY <2>1, FS_Interval
<1>15. Channel!Bytes(s, {"data", "ext"}) = n
  BY <1>13, <1>14, SshCounts
<1> QED BY <1>1, <1>5, <1>6, <1>15 DEF s

-------------------------------------------------------------------------------
(***************************************************************************)
(* What a channel sends, and what that does to its record.                 *)
(***************************************************************************)
SshStates == {"none", "opening", "open", "closed", "failed"}

SshChannels ==
    [st : SshStates, left : Nat, local : Nat, buf : Nat, ext : Nat, closing : BOOLEAN,
     lc : BOOLEAN, rc : BOOLEAN, waits : Nat, out : Seq(SshPackets)]

\* Nothing that needs the channel follows a close.
SshOrder(s) ==
    \A i, j \in 1..Len(s) : (i < j /\ s[i].t = "close") => s[j].t \notin Channel!InTable

SshSmall(s) == \A i \in 1..Len(s) : s[i].t \in {"data", "ext"} => s[i].n <= MaxPacket

\* The channel c has become d and ms was sent.
SshSent(c, d, ms) ==
    /\ ms \in Seq(SshPackets) /\ SshOrder(ms) /\ SshSmall(ms)
    /\ \A i \in 1..Len(ms) : ms[i].t \in Channel!InTable
    /\ c.lc => d.lc /\ ms = <<>>
    /\ ~d.lc => /\ Channel!Of(ms, {"close"}) = {}
               /\ c.left = d.left + Channel!Bytes(ms, {"data", "ext"})
    /\ d.local = c.local + Channel!Bytes(ms, {"adjust"})
    /\ d.rc = c.rc
    /\ \/ d.st = c.st /\ d.waits = c.waits + Channel!Count(ms, {"request"})
       \/ c.st = "open" /\ d.st = "closed" /\ d.waits = 0 /\ d.lc /\ d.rc

SshSends(c, d) ==
    d \in SshChannels /\ \E ms \in Seq(SshPackets) : d.out = c.out \o ms /\ SshSent(c, d, ms)

LEMMA SshEmpty ==
    /\ <<>> \in Seq(SshPackets) /\ SshOrder(<<>>) /\ SshSmall(<<>>)
    /\ \A i \in 1..Len(<<>>) : <<>>[i].t \in Channel!InTable
    /\ \A T : Channel!Of(<<>>, T) = {} /\ Channel!Count(<<>>, T) = 0 /\ Channel!Bytes(<<>>, T) = 0
<1>1. \A T : Channel!Of(<<>>, T) = {}
  BY DEF Channel!Of
<1>2. 1..Len(<<>>) = {}
  OBVIOUS
<1> QED BY <1>1, <1>2, SshNone DEF SshOrder, SshSmall

\* Nothing is sent.
LEMMA SshQuiet ==
    ASSUME NEW c \in SshChannels, NEW d \in SshChannels, d.out = c.out, d.left = c.left,
           d.local = c.local, d.lc = c.lc, d.rc = c.rc, d.st = c.st, d.waits = c.waits
    PROVE  SshSends(c, d)
<1>1. c.out \o <<>> = c.out /\ c.left \in Nat /\ c.local \in Nat /\ c.waits \in Nat
  BY DEF SshChannels
<1>2. SshSent(c, d, <<>>)
  BY <1>1, SshEmpty DEF SshSent
<1> QED BY <1>1, <1>2, SshEmpty DEF SshSends

LEMMA SshThen ==
    ASSUME NEW c \in SshChannels, NEW d, NEW e, SshSends(c, d), SshSends(d, e)
    PROVE  SshSends(c, e)
<1>1. PICK ms \in Seq(SshPackets) : d.out = c.out \o ms /\ SshSent(c, d, ms)
  BY DEF SshSends
<1>2. PICK ns \in Seq(SshPackets) : e.out = d.out \o ns /\ SshSent(d, e, ns)
  BY DEF SshSends
<1>3. d \in SshChannels /\ e \in SshChannels
  BY DEF SshSends
<1>4. PICK us \in Seq(SshPackets) : us = ms \o ns
  BY SshConcat
<1>5. e.out = c.out \o us
  <2>1. PICK o \in Seq(SshPackets) : o = c.out
    BY DEF SshChannels
  <2>2. (o \o ms) \o ns = o \o (ms \o ns)
    BY ONLY ConcatAssociative, o \in Seq(SshPackets), ms \in Seq(SshPackets), ns \in Seq(SshPackets)
  <2> QED BY <1>1, <1>2, <1>4, <2>1, <2>2
<1>6. /\ Len(us) = Len(ms) + Len(ns) /\ Len(ms) \in Nat /\ Len(ns) \in Nat
      /\ \A i \in 1..Len(ms) : us[i] = ms[i]
      /\ \A i \in 1..Len(ns) : us[i + Len(ms)] = ns[i]
      /\ \A j \in 1..Len(us) : j \in 1..Len(ms) \/ \E i \in 1..Len(ns) : j = i + Len(ms)
  BY <1>4, SshConcat, SshPacket
<1>7. \A T : /\ Channel!Count(us, T) = Channel!Count(ms, T) + Channel!Count(ns, T)
             /\ Channel!Bytes(us, T) = Channel!Bytes(ms, T) + Channel!Bytes(ns, T)
             /\ Channel!Count(ms, T) \in Nat /\ Channel!Count(ns, T) \in Nat
             /\ Channel!Bytes(ms, T) \in Nat /\ Channel!Bytes(ns, T) \in Nat
  BY <1>4, SshSum, SshFinite
<1>8. (\A i \in 1..Len(us) : us[i].t \in Channel!InTable) /\ SshSmall(us)
  <2> SUFFICES ASSUME NEW j \in 1..Len(us)
               PROVE  /\ us[j].t \in Channel!InTable
                      /\ us[j].t \in {"data", "ext"} => us[j].n <= MaxPacket
    BY DEF SshSmall
  <2>1. CASE j \in 1..Len(ms)
    BY <1>1, <1>6, <2>1 DEF SshSent, SshSmall
  <2>2. ASSUME NEW i \in 1..Len(ns), j = i + Len(ms)
        PROVE  /\ us[j].t \in Channel!InTable
               /\ us[j].t \in {"data", "ext"} => us[j].n <= MaxPacket
    <3>1. us[j] = ns[i]
      BY <1>6, <2>2
    <3> QED BY <1>2, <3>1 DEF SshSent, SshSmall
  <2> QED BY <1>6, <2>1, <2>2
<1>9. d.lc => ns = <<>> /\ us = ms
  BY <1>2, <1>4 DEF SshSent
<1>10. ~d.lc => Channel!Of(ms, {"close"}) = {}
  BY <1>1 DEF SshSent
<1>11. SshOrder(us)
  <2>1. CASE d.lc
    BY <1>1, <1>9, <2>1 DEF SshSent
  <2>2. CASE ~d.lc
    <3>1. \A i \in 1..Len(ms) : ms[i].t # "close"
      BY <1>10, <2>2 DEF Channel!Of
    <3>2. ASSUME NEW i \in 1..Len(us), NEW j \in 1..Len(us), i < j, us[i].t = "close"
          PROVE  us[j].t \notin Channel!InTable
      <4>1. i \notin 1..Len(ms)
        BY <1>6, <3>1, <3>2
      <4>2. PICK x \in 1..Len(ns) : i = x + Len(ms)
        BY <1>6, <4>1
      <4>3. j \notin 1..Len(ms)
        BY <1>6, <3>2, <4>2
      <4>4. PICK y \in 1..Len(ns) : j = y + Len(ms)
        BY <1>6, <4>3
      <4>5. x < y /\ us[i] = ns[x] /\ us[j] = ns[y]
        BY <1>6, <3>2, <4>2, <4>4
      <4> QED BY <1>2, <3>2, <4>5 DEF SshSent, SshOrder
    <3> QED BY <3>2 DEF SshOrder
  <2> QED BY <2>1, <2>2
<1>12. ASSUME ~e.lc PROVE /\ Channel!Of(us, {"close"}) = {}
                         /\ c.left = e.left + Channel!Bytes(us, {"data", "ext"})
  <2>1. ~d.lc
    BY <1>2, <1>12 DEF SshSent
  <2>2. /\ Channel!Of(ms, {"close"}) = {} /\ c.left = d.left + Channel!Bytes(ms, {"data", "ext"})
        /\ Channel!Of(ns, {"close"}) = {} /\ d.left = e.left + Channel!Bytes(ns, {"data", "ext"})
    BY <1>1, <1>2, <1>12, <2>1 DEF SshSent
  <2>3. Channel!Of(us, {"close"}) = {}
    BY <1>4, <2>2, SshOfConcat
  <2>4. c.left \in Nat /\ d.left \in Nat /\ e.left \in Nat
    BY <1>3 DEF SshChannels
  <2> QED BY <1>7, <2>2, <2>3, <2>4
<1>13. e.local = c.local + Channel!Bytes(us, {"adjust"})
  <2>1. e.local = d.local + Channel!Bytes(ns, {"adjust"}) /\ d.local = c.local + Channel!Bytes(ms, {"adjust"})
    BY <1>1, <1>2 DEF SshSent
  <2>2. c.local \in Nat
    BY DEF SshChannels
  <2> QED BY <1>7, <2>1, <2>2
<1>14. \/ e.st = c.st /\ e.waits = c.waits + Channel!Count(us, {"request"})
       \/ c.st = "open" /\ e.st = "closed" /\ e.waits = 0 /\ e.lc /\ e.rc
  <2>1. c.waits \in Nat /\ Channel!Count(us, {"request"}) = Channel!Count(ms, {"request"}) + Channel!Count(ns, {"request"})
        /\ Channel!Count(ms, {"request"}) \in Nat /\ Channel!Count(ns, {"request"}) \in Nat
    BY <1>7 DEF SshChannels
  <2>2. CASE d.st = c.st /\ d.waits = c.waits + Channel!Count(ms, {"request"})
    BY <1>2, <2>1, <2>2 DEF SshSent
  <2>3. CASE c.st = "open" /\ d.st = "closed" /\ d.waits = 0 /\ d.lc /\ d.rc
    <3>1. ns = <<>> /\ e.lc /\ e.rc /\ e.st = d.st /\ e.waits = d.waits + Channel!Count(ns, {"request"})
      BY <1>2, <2>3 DEF SshSent
    <3> QED BY <2>3, <3>1, SshEmpty
  <2> QED BY <1>1, <2>2, <2>3 DEF SshSent
<1>15. (c.lc => e.lc /\ us = <<>>) /\ e.rc = c.rc
  BY <1>1, <1>2, <1>9 DEF SshSent
<1>16. SshSent(c, e, us)
  BY <1>8, <1>11, <1>12, <1>13, <1>14, <1>15 DEF SshSent
<1> QED BY <1>3, <1>5, <1>16 DEF SshSends

LEMMA SshSingle ==
    ASSUME NEW m \in SshPackets, m.t \in Channel!InTable, m.t \notin {"data", "ext"}
    PROVE  /\ <<m>> \in Seq(SshPackets) /\ SshOrder(<<m>>) /\ SshSmall(<<m>>)
           /\ \A i \in 1..Len(<<m>>) : <<m>>[i].t \in Channel!InTable
           /\ m.t # "close" => Channel!Of(<<m>>, {"close"}) = {}
           /\ \A T : /\ Channel!Count(<<m>>, T) = IF m.t \in T THEN 1 ELSE 0
                     /\ Channel!Bytes(<<m>>, T) = IF m.t \in T THEN m.n ELSE 0
<1>1. Len(<<m>>) = 1 /\ <<m>>[1] = m /\ 1..1 = {1}
  OBVIOUS
<1>2. SshOrder(<<m>>) /\ SshSmall(<<m>>) /\ \A i \in 1..Len(<<m>>) : <<m>>[i].t \in Channel!InTable
  BY <1>1 DEF SshOrder, SshSmall
<1>3. m.t # "close" => Channel!Of(<<m>>, {"close"}) = {}
  BY <1>1 DEF Channel!Of
<1> QED BY <1>2, <1>3, SshOne

LEMMA SshMsg ==
    ASSUME NEW k \in SshKinds, NEW n \in 0..SshLimit
    PROVE  Channel!Msg(k, n) \in SshPackets /\ Channel!Msg(k, n).t = k /\ Channel!Msg(k, n).n = n
BY DEF Channel!Msg, SshPackets

LEMMA SshLimits == SshLimit \in Nat /\ 0 \in 0..SshLimit /\ Window \in 0..SshLimit /\ Window \in Nat
BY ChannelParameters DEF SshLimit, Channel!SSHChannelAssumption

LEMMA SshSendClose ==
    ASSUME NEW c \in SshChannels
    PROVE  SshSends(c, Channel!SendClose(c)) /\ Channel!SendClose(c).local = c.local
<1>1. CASE c.lc
  <2>1. Channel!SendClose(c) = c
    BY <1>1 DEF Channel!SendClose
  <2> QED BY <2>1, SshQuiet
<1>2. CASE ~c.lc
  <2> DEFINE m == Channel!Msg("close", 0)
  <2>1. m \in SshPackets /\ m.t = "close" /\ m.t \in Channel!InTable
    BY SshMsg, SshLimits DEF SshKinds, Channel!InTable
  <2> HIDE DEF m
  <2>2. /\ <<m>> \in Seq(SshPackets) /\ SshOrder(<<m>>) /\ SshSmall(<<m>>)
        /\ \A i \in 1..Len(<<m>>) : <<m>>[i].t \in Channel!InTable
        /\ \A T : /\ Channel!Count(<<m>>, T) = IF m.t \in T THEN 1 ELSE 0
                  /\ Channel!Bytes(<<m>>, T) = IF m.t \in T THEN m.n ELSE 0
    BY <2>1, SshSingle
  <2>3. Channel!Count(<<m>>, {"request"}) = 0 /\ Channel!Bytes(<<m>>, {"adjust"}) = 0
    BY <2>1, <2>2
  <2> DEFINE d == [c EXCEPT !.out = @ \o <<m>>, !.lc = TRUE]
             e == [d EXCEPT !.st = "closed", !.lc = TRUE, !.rc = TRUE, !.waits = 0]
             o == c.out \o <<m>>
  <2>4. Channel!SendClose(c) = IF d.lc /\ d.rc THEN (IF d.st = "open" THEN e ELSE d) ELSE d
    BY <1>2 DEF Channel!SendClose, Channel!Send, Channel!IfBothClosed, Channel!ChannelClosed, m
  <2>5. o \in Seq(SshPackets)
    BY <2>2, SshConcat DEF SshChannels
  <2>6. d \in SshChannels /\ e \in SshChannels
    BY <2>5 DEF SshChannels, SshStates
  <2>7. /\ d.out = o /\ d.lc = TRUE /\ d.rc = c.rc /\ d.local = c.local /\ d.st = c.st /\ d.waits = c.waits
        /\ e.out = o /\ e.lc = TRUE /\ e.rc = TRUE /\ e.local = c.local /\ e.st = "closed" /\ e.waits = 0
        /\ c.local \in Nat /\ c.waits \in Nat
    BY DEF SshChannels
  <2> HIDE DEF d, e
  <2>8. SshSent(c, d, <<m>>)
    BY <1>2, <2>2, <2>3, <2>7 DEF SshSent
  <2>9. (d.rc /\ d.st = "open") => SshSent(c, e, <<m>>)
    <3> SUFFICES ASSUME d.rc, d.st = "open" PROVE SshSent(c, e, <<m>>)
      OBVIOUS
    <3>1. c.rc = TRUE /\ e.rc = c.rc /\ c.st = "open" /\ e.lc /\ e.rc
      BY <2>7 DEF SshChannels
    <3>2. e.local = c.local + Channel!Bytes(<<m>>, {"adjust"})
      BY <2>3, <2>7
    <3> QED BY <1>2, <2>2, <2>7, <3>1, <3>2 DEF SshSent
  <2>10. Channel!SendClose(c) = d \/ (Channel!SendClose(c) = e /\ d.rc /\ d.st = "open")
    BY <2>4
  <2> QED BY <2>2, <2>6, <2>7, <2>8, <2>9, <2>10 DEF SshSends
<1> QED BY <1>1, <1>2

LEMMA SshLose ==
    ASSUME NEW c \in SshChannels
    PROVE  SshSends(c, Channel!LoseConnection(c)) /\ Channel!LoseConnection(c).local = c.local
<1> DEFINE d == [c EXCEPT !.closing = TRUE]
<1>1. /\ d \in SshChannels /\ d.out = c.out /\ d.left = c.left /\ d.local = c.local
      /\ d.lc = c.lc /\ d.rc = c.rc /\ d.st = c.st /\ d.waits = c.waits
  BY DEF SshChannels
<1>2. Channel!LoseConnection(c) = IF c.buf = 0 /\ c.ext = 0 THEN Channel!SendClose(d) ELSE d
  BY DEF Channel!LoseConnection
<1> HIDE DEF d
<1>3. SshSends(c, d)
  BY <1>1, SshQuiet
<1>4. SshSends(c, Channel!SendClose(d)) /\ Channel!SendClose(d).local = c.local
  BY <1>1, <1>3, SshSendClose, SshThen
<1> QED BY <1>1, <1>2, <1>3, <1>4

\* A part of what is written is sent, as far as the window allows.
LEMMA SshData ==
    ASSUME NEW c \in SshChannels, NEW d, NEW top \in Nat, top <= c.left, NEW k \in {"data", "ext"},
           d \in SshChannels, d.left = c.left - top, d.local = c.local,
           d.lc = c.lc, d.rc = c.rc, d.st = c.st, d.waits = c.waits,
           d.out = Channel!Send(c, Channel!Packets(k, top)).out
    PROVE  SshSends(c, d)
<1> DEFINE s == Channel!Packets(k, top)
<1>0. c.left \in Nat /\ c.local \in Nat /\ c.waits \in Nat /\ c.out \in Seq(SshPackets)
  BY DEF SshChannels
<1>1. CASE c.lc
  <2>1. d.out = c.out \o <<>>
    BY <1>0, <1>1 DEF Channel!Send
  <2>2. SshSent(c, d, <<>>)
    BY <1>0, <1>1, SshEmpty DEF SshSent
  <2> QED BY <2>1, <2>2, SshEmpty DEF SshSends
<1>2. CASE ~c.lc
  <2>1. d.out = c.out \o s
    BY <1>2 DEF Channel!Send, SshChannels
  <2>2. /\ s \in Seq(SshPackets)
        /\ \A i \in 1..Len(s) : s[i].t = k /\ s[i].n <= MaxPacket
        /\ Channel!Bytes(s, {"data", "ext"}) = top
    BY SshPieces
  <2> HIDE DEF s
  <2>3. Channel!Of(s, {"close"}) = {} /\ Channel!Of(s, {"adjust"}) = {} /\ Channel!Of(s, {"request"}) = {}
    BY <2>2 DEF Channel!Of
  <2>4. Channel!Bytes(s, {"adjust"}) = 0 /\ Channel!Count(s, {"request"}) = 0
    BY <2>3, SshNone
  <2>5. SshOrder(s) /\ SshSmall(s) /\ \A i \in 1..Len(s) : s[i].t \in Channel!InTable
    BY <2>2 DEF SshOrder, SshSmall, Channel!InTable
  <2>6. c.left = d.left + Channel!Bytes(s, {"data", "ext"})
    BY <1>0, <2>2
  <2>7. SshSent(c, d, s)
    BY <1>0, <1>2, <2>2, <2>3, <2>4, <2>5, <2>6 DEF SshSent
  <2> QED BY <2>1, <2>2, <2>7 DEF SshSends
<1> QED BY <1>1, <1>2

LEMMA SshWrite ==
    ASSUME NEW c \in SshChannels, NEW n \in Nat
    PROVE  SshSends(c, Channel!Write(c, n)) /\ Channel!Write(c, n).local = c.local
<1>1. CASE c.buf > 0
  <2>0. PICK x \in Nat : x = c.buf + n
    BY DEF SshChannels
  <2> DEFINE d == [c EXCEPT !.buf = x]
  <2>1. Channel!Write(c, n) = d
    BY <1>1, <2>0 DEF Channel!Write, SshChannels
  <2>2. /\ d \in SshChannels /\ d.out = c.out /\ d.left = c.left /\ d.local = c.local
        /\ d.lc = c.lc /\ d.rc = c.rc /\ d.st = c.st /\ d.waits = c.waits
    BY DEF SshChannels
  <2> HIDE DEF d
  <2> QED BY <2>1, <2>2, SshQuiet
<1>2. CASE ~(c.buf > 0)
  <2>1. PICK top \in Nat : top = Channel!Least(n, c.left) /\ top <= c.left /\ top <= n
    BY DEF Channel!Least, SshChannels
  <2> DEFINE s == Channel!Packets("data", top)
             d == [Channel!Send(c, s) EXCEPT !.left = @ - top, !.buf = n - top]
  <2>2. Channel!Write(c, n) = IF d.closing /\ d.buf = 0 THEN Channel!LoseConnection(d) ELSE d
    BY <1>2, <2>1 DEF Channel!Write
  <2>3. s \in Seq(SshPackets)
    BY SshPieces
  <2>4. /\ d \in SshChannels /\ d.left = c.left - top /\ d.local = c.local
        /\ d.lc = c.lc /\ d.rc = c.rc /\ d.st = c.st /\ d.waits = c.waits
        /\ d.out = Channel!Send(c, s).out
    <3> HIDE DEF s
    <3>1. c.out \o s \in Seq(SshPackets) /\ c.left - top \in Nat /\ n - top \in Nat
      BY <2>1, <2>3, SshConcat DEF SshChannels
    <3>2. CASE c.lc
      BY <3>1, <3>2 DEF Channel!Send, SshChannels
    <3>3. CASE ~c.lc
      BY <3>1, <3>3 DEF Channel!Send, SshChannels
    <3> QED BY <3>2, <3>3
  <2> HIDE DEF d
  <2>5. SshSends(c, d)
    BY <2>1, <2>4, SshData
  <2>6. SshSends(c, Channel!LoseConnection(d)) /\ Channel!LoseConnection(d).local = c.local
    BY <2>4, <2>5, SshLose, SshThen
  <2> QED BY <2>2, <2>4, <2>5, <2>6
<1> QED BY <1>1, <1>2

LEMMA SshWriteExtended ==
    ASSUME NEW c \in SshChannels, NEW n \in Nat
    PROVE  SshSends(c, Channel!WriteExtended(c, n)) /\ Channel!WriteExtended(c, n).local = c.local
<1>1. CASE c.ext > 0
  <2>0. PICK x \in Nat : x = c.ext + n
    BY DEF SshChannels
  <2> DEFINE d == [c EXCEPT !.ext = x]
  <2>1. Channel!WriteExtended(c, n) = d
    BY <1>1, <2>0 DEF Channel!WriteExtended, SshChannels
  <2>2. /\ d \in SshChannels /\ d.out = c.out /\ d.left = c.left /\ d.local = c.local
        /\ d.lc = c.lc /\ d.rc = c.rc /\ d.st = c.st /\ d.waits = c.waits
    BY DEF SshChannels
  <2> HIDE DEF d
  <2> QED BY <2>1, <2>2, SshQuiet
<1>2. CASE ~(c.ext > 0)
  <2>1. PICK top \in Nat : top = Channel!Least(n, c.left) /\ top <= c.left /\ top <= n
    BY DEF Channel!Least, SshChannels
  <2> DEFINE s == Channel!Packets("ext", top)
             d == [Channel!Send(c, s) EXCEPT !.left = @ - top, !.ext = n - top]
  <2>2. Channel!WriteExtended(c, n) = IF d.closing THEN Channel!LoseConnection(d) ELSE d
    BY <1>2, <2>1 DEF Channel!WriteExtended
  <2>3. s \in Seq(SshPackets)
    BY SshPieces
  <2>4. /\ d \in SshChannels /\ d.left = c.left - top /\ d.local = c.local
        /\ d.lc = c.lc /\ d.rc = c.rc /\ d.st = c.st /\ d.waits = c.waits
        /\ d.out = Channel!Send(c, s).out
    <3> HIDE DEF s
    <3>1. c.out \o s \in Seq(SshPackets) /\ c.left - top \in Nat /\ n - top \in Nat
      BY <2>1, <2>3, SshConcat DEF SshChannels
    <3>2. CASE c.lc
      BY <3>1, <3>2 DEF Channel!Send, SshChannels
    <3>3. CASE ~c.lc
      BY <3>1, <3>3 DEF Channel!Send, SshChannels
    <3> QED BY <3>2, <3>3
  <2> HIDE DEF d
  <2>5. SshSends(c, d)
    BY <2>1, <2>4, SshData
  <2>6. SshSends(c, Channel!LoseConnection(d)) /\ Channel!LoseConnection(d).local = c.local
    BY <2>4, <2>5, SshLose, SshThen
  <2> QED BY <2>2, <2>4, <2>5, <2>6
<1> QED BY <1>1, <1>2

LEMMA SshAddWindow ==
    ASSUME NEW c \in SshChannels, NEW n \in Nat
    PROVE  SshSends([c EXCEPT !.left = @ + n], Channel!AddWindowBytes(c, n))
<1> DEFINE d == [c EXCEPT !.left = @ + n]
           d0 == [d EXCEPT !.buf = 0]
           e == IF d.buf > 0 THEN Channel!Write(d0, d.buf) ELSE d
           e0 == [e EXCEPT !.ext = 0]
<1>1. Channel!AddWindowBytes(c, n) = IF e.ext > 0 THEN Channel!WriteExtended(e0, e.ext) ELSE e
  BY DEF Channel!AddWindowBytes
<1>2. d \in SshChannels
  BY DEF SshChannels
<1>3. SshSends(d, e)
  <2>1. /\ d0 \in SshChannels /\ d0.out = d.out /\ d0.left = d.left /\ d0.local = d.local
        /\ d0.lc = d.lc /\ d0.rc = d.rc /\ d0.st = d.st /\ d0.waits = d.waits /\ d.buf \in Nat
    <3> HIDE DEF d
    <3> QED BY <1>2 DEF SshChannels
  <2> HIDE DEF d, d0
  <2>2. SshSends(d, d0) /\ SshSends(d, d)
    BY <1>2, <2>1, SshQuiet
  <2>3. SshSends(d, Channel!Write(d0, d.buf))
    BY <1>2, <2>1, <2>2, SshWrite, SshThen
  <2> QED BY <2>2, <2>3
<1>4. e \in SshChannels
  <2> HIDE DEF d, e
  <2> QED BY <1>3 DEF SshSends
<1>5. SshSends(d, IF e.ext > 0 THEN Channel!WriteExtended(e0, e.ext) ELSE e)
  <2> HIDE DEF d, e
  <2>1. /\ e0 \in SshChannels /\ e0.out = e.out /\ e0.left = e.left /\ e0.local = e.local
        /\ e0.lc = e.lc /\ e0.rc = e.rc /\ e0.st = e.st /\ e0.waits = e.waits /\ e.ext \in Nat
    BY <1>4 DEF SshChannels
  <2> HIDE DEF e0
  <2>2. SshSends(e, e0)
    BY <1>4, <2>1, SshQuiet
  <2>3. SshSends(e, Channel!WriteExtended(e0, e.ext))
    BY <1>4, <2>1, <2>2, SshWriteExtended, SshThen
  <2>4. SshSends(d, Channel!WriteExtended(e0, e.ext))
    BY <1>2, <1>3, <2>3, SshThen
  <2> QED BY <1>3, <2>4
<1> QED BY <1>1, <1>5

\* The window is extended when it is used by half.
LEMMA SshAdjust ==
    ASSUME NEW c \in SshChannels, c.local < Window \div 2
    PROVE  SshSends(c, Channel!AdjustWindow(c, Window - c.local))
<1>1. CASE c.lc
  <2>1. Channel!AdjustWindow(c, Window - c.local) = c
    BY <1>1 DEF Channel!AdjustWindow
  <2> QED BY <2>1, SshQuiet
<1>2. CASE ~c.lc
  <2>1. PICK n \in 0..SshLimit : n = Window - c.local
    <3>1. c.local \in Nat
      BY DEF SshChannels
    <3>2. Window \in Nat /\ Window \div 2 <= Window /\ Window \div 2 \in Nat
      BY SshLimits
    <3>3. Window <= SshLimit /\ SshLimit \in Nat
      BY SshLimits
    <3> QED BY <3>1, <3>2, <3>3
  <2> DEFINE m == Channel!Msg("adjust", n)
             d == [c EXCEPT !.out = @ \o <<m>>, !.local = @ + n]
  <2>2. m \in SshPackets /\ m.t = "adjust" /\ m.n = n /\ m.t \in Channel!InTable
    BY SshMsg DEF SshKinds, Channel!InTable
  <2>3. Channel!AdjustWindow(c, Window - c.local) = d
    BY <1>2, <2>1 DEF Channel!AdjustWindow, Channel!Send, SshChannels
  <2> HIDE DEF m
  <2>4. /\ <<m>> \in Seq(SshPackets) /\ SshOrder(<<m>>) /\ SshSmall(<<m>>)
        /\ \A i \in 1..Len(<<m>>) : <<m>>[i].t \in Channel!InTable
        /\ Channel!Of(<<m>>, {"close"}) = {}
        /\ Channel!Count(<<m>>, {"request"}) = 0 /\ Channel!Bytes(<<m>>, {"adjust"}) = n
        /\ Channel!Bytes(<<m>>, {"data", "ext"}) = 0
    BY <2>2, SshSingle
  <2>5. c.out \o <<m>> \in Seq(SshPackets) /\ n \in Nat
    BY <2>4, SshConcat, SshLimits DEF SshChannels
  <2>6. /\ d \in SshChannels /\ d.out = c.out \o <<m>> /\ d.left = c.left
        /\ d.local = c.local + n /\ c.left \in Nat /\ c.waits \in Nat
        /\ d.lc = c.lc /\ d.rc = c.rc /\ d.st = c.st /\ d.waits = c.waits
    <3>1. PICK o \in Seq(SshPackets) : o = c.out \o <<m>>
      BY <2>5
    <3>2. PICK l \in Nat : l = c.local + n
      BY <2>5 DEF SshChannels
    <3>3. d = [c EXCEPT !.out = o, !.local = l]
      BY <3>1, <3>2
    <3> HIDE DEF d
    <3> QED BY <3>1, <3>2, <3>3 DEF SshChannels
  <2> HIDE DEF d
  <2>7. SshSent(c, d, <<m>>)
    BY <1>2, <2>4, <2>6 DEF SshSent
  <2> QED BY <2>3, <2>4, <2>6, <2>7 DEF SshSends
<1> QED BY <1>1, <1>2

LEMMA SshCloseReceived ==
    ASSUME NEW c \in SshChannels, ~c.rc
    PROVE  SshSends([c EXCEPT !.rc = TRUE], Channel!CloseReceived(c))
<1> DEFINE b == [c EXCEPT !.rc = TRUE]
           d == Channel!LoseConnection(c)
           e == [d EXCEPT !.rc = TRUE]
           f == [e EXCEPT !.st = "closed", !.lc = TRUE, !.rc = TRUE, !.waits = 0]
<1>1. Channel!CloseReceived(c) = IF e.lc /\ e.rc THEN (IF e.st = "open" THEN f ELSE e) ELSE e
  BY DEF Channel!CloseReceived, Channel!IfBothClosed, Channel!ChannelClosed
<1>2. /\ b.out = c.out /\ b.left = c.left /\ b.local = c.local /\ b.lc = c.lc /\ b.rc = TRUE
      /\ b.st = c.st /\ b.waits = c.waits
  BY DEF SshChannels
<1> HIDE DEF b, d
<1>3. SshSends(c, d)
  BY SshLose DEF d
<1>4. PICK ms \in Seq(SshPackets) : d.out = c.out \o ms /\ SshSent(c, d, ms)
  BY <1>3 DEF SshSends
<1>5. d \in SshChannels
  BY <1>3 DEF SshSends
<1>6. d.st = c.st /\ d.waits = c.waits + Channel!Count(ms, {"request"})
  BY <1>4 DEF SshSent
<1>7. /\ e \in SshChannels /\ e.out = d.out /\ e.left = d.left /\ e.local = d.local
      /\ e.lc = d.lc /\ e.rc = TRUE /\ e.st = d.st /\ e.waits = d.waits
  BY <1>5 DEF SshChannels
<1> HIDE DEF e
<1>8. /\ f \in SshChannels /\ f.out = d.out /\ f.local = d.local
      /\ f.lc = TRUE /\ f.rc = TRUE /\ f.st = "closed" /\ f.waits = 0
  BY <1>7 DEF SshChannels, SshStates
<1> HIDE DEF f
<1>9. SshSent(b, e, ms)
  BY <1>2, <1>4, <1>6, <1>7 DEF SshSent
<1>10. ASSUME e.lc, e.st = "open" PROVE SshSent(b, f, ms)
  <2>1. b.st = "open" /\ f.lc /\ f.rc /\ f.rc = b.rc
    BY <1>2, <1>6, <1>7, <1>8, <1>10
  <2> QED BY <1>2, <1>4, <1>8, <2>1 DEF SshSent
<1>11. Channel!CloseReceived(c) = e \/ (Channel!CloseReceived(c) = f /\ e.lc /\ e.st = "open")
  BY <1>1
<1> QED BY <1>2, <1>4, <1>7, <1>8, <1>9, <1>10, <1>11 DEF SshSends, b

LEMMA SshRequest ==
    ASSUME NEW c \in SshChannels, ~c.lc, NEW d,
           d = Channel!Send([c EXCEPT !.waits = @ + 1], <<Channel!Msg("request", 0)>>)
    PROVE  SshSends(c, d) /\ d.local = c.local
<1> DEFINE m == Channel!Msg("request", 0)
<1>1. m \in SshPackets /\ m.t = "request" /\ m.t \in Channel!InTable
  BY SshMsg, SshLimits DEF SshKinds, Channel!InTable
<1>2. d = [c EXCEPT !.waits = @ + 1, !.out = @ \o <<m>>]
  BY DEF Channel!Send, SshChannels
<1> HIDE DEF m
<1>3. /\ <<m>> \in Seq(SshPackets) /\ SshOrder(<<m>>) /\ SshSmall(<<m>>)
      /\ \A i \in 1..Len(<<m>>) : <<m>>[i].t \in Channel!InTable
      /\ Channel!Of(<<m>>, {"close"}) = {}
      /\ Channel!Count(<<m>>, {"request"}) = 1 /\ Channel!Bytes(<<m>>, {"adjust"}) = 0
      /\ Channel!Bytes(<<m>>, {"data", "ext"}) = 0
  BY <1>1, SshSingle
<1>4. c.out \o <<m>> \in Seq(SshPackets)
  BY <1>3, SshConcat DEF SshChannels
<1>5. /\ d \in SshChannels /\ d.out = c.out \o <<m>> /\ d.left = c.left
      /\ d.local = c.local /\ c.left \in Nat /\ c.local \in Nat
      /\ d.lc = c.lc /\ d.rc = c.rc /\ d.st = c.st /\ d.waits = c.waits + 1
  <2>1. PICK o \in Seq(SshPackets) : o = c.out \o <<m>>
    BY <1>4
  <2>2. PICK w \in Nat : w = c.waits + 1
    BY DEF SshChannels
  <2>3. d = [c EXCEPT !.waits = w, !.out = o]
    BY <1>2, <2>1, <2>2
  <2> QED BY <2>1, <2>2, <2>3 DEF SshChannels
<1>6. SshSent(c, d, <<m>>)
  BY <1>3, <1>5 DEF SshSent
<1> QED BY <1>3, <1>5, <1>6 DEF SshSends

-------------------------------------------------------------------------------
(***************************************************************************)
(* One direction of the channel: c is the channel at one end, d that at    *)
(* the other, s is on its way to d, t to c, and u requests have not been   *)
(* answered by d.                                                          *)
(***************************************************************************)
SshDir(c, d, s, t, u) ==
    /\ ~c.lc => Channel!Of(s, {"close"}) = {}
    /\ d.rc => c.lc /\ Channel!Of(s, Channel!InTable) = {}
    /\ SshOrder(s) /\ SshSmall(s)
    /\ d.st = "closed" => d.lc /\ d.rc /\ d.waits = 0
    /\ (c.st = "open" /\ ~c.lc) =>
          d.local = c.left + Channel!Bytes(s, {"data", "ext"}) + Channel!Bytes(t, {"adjust"})
    /\ (c.st # "closed" /\ d.st # "closed") =>
          c.waits = Channel!Count(s, {"request"}) + u + Channel!Count(t, {"reply"})

LEMMA SshOrdered ==
    ASSUME NEW s \in Seq(SshPackets), NEW t \in Seq(SshPackets),
           SshOrder(s), SshOrder(t), SshSmall(s), SshSmall(t),
           Channel!Of(s, {"close"}) = {} \/ Channel!Of(t, Channel!InTable) = {}
    PROVE  SshOrder(s \o t) /\ SshSmall(s \o t)
<1> DEFINE u == s \o t
<1>1. /\ Len(u) = Len(s) + Len(t) /\ Len(s) \in Nat /\ Len(t) \in Nat
      /\ \A i \in 1..Len(s) : u[i] = s[i]
      /\ \A i \in 1..Len(t) : u[i + Len(s)] = t[i]
      /\ \A j \in 1..Len(u) : j \in 1..Len(s) \/ \E i \in 1..Len(t) : j = i + Len(s)
  BY SshConcat, SshPacket
<1> HIDE DEF u
<1>2. SshSmall(u)
  <2> SUFFICES ASSUME NEW j \in 1..Len(u)
               PROVE  u[j].t \in {"data", "ext"} => u[j].n <= MaxPacket
    BY DEF SshSmall
  <2>1. CASE j \in 1..Len(s)
    BY <1>1, <2>1 DEF SshSmall
  <2>2. ASSUME NEW i \in 1..Len(t), j = i + Len(s)
        PROVE  u[j].t \in {"data", "ext"} => u[j].n <= MaxPacket
    <3>1. u[j] = t[i]
      BY <1>1, <2>2
    <3> QED BY <3>1 DEF SshSmall
  <2> QED BY <1>1, <2>1, <2>2
<1>3. ASSUME NEW i \in 1..Len(u), NEW j \in 1..Len(u), i < j, u[i].t = "close"
      PROVE  u[j].t \notin Channel!InTable
  <2>1. CASE j \in 1..Len(s)
    <3>1. i \in 1..Len(s)
      BY <1>1, <1>3, <2>1
    <3> QED BY <1>1, <1>3, <2>1, <3>1 DEF SshOrder
  <2>2. ASSUME NEW y \in 1..Len(t), j = y + Len(s) PROVE u[j].t \notin Channel!InTable
    <3>1. u[j] = t[y]
      BY <1>1, <2>2
    <3>2. CASE i \in 1..Len(s)
      <4>1. i \in Channel!Of(s, {"close"})
        BY <1>1, <1>3, <3>2 DEF Channel!Of
      <4>2. y \notin Channel!Of(t, Channel!InTable)
        BY <4>1
      <4> QED BY <3>1, <4>2 DEF Channel!Of
    <3>3. ASSUME NEW x \in 1..Len(t), i = x + Len(s) PROVE u[j].t \notin Channel!InTable
      <4>1. x < y /\ u[i] = t[x]
        BY <1>1, <1>3, <2>2, <3>3
      <4> QED BY <1>3, <3>1, <4>1 DEF SshOrder
    <3> QED BY <1>1, <3>2, <3>3
  <2> QED BY <1>1, <2>1, <2>2
<1> QED BY <1>2, <1>3 DEF SshOrder, u

\* What an end sends keeps both directions as they have to be.
LEMMA SshDirSends ==
    ASSUME NEW c \in SshChannels, NEW d \in SshChannels, NEW e \in SshChannels,
           NEW s \in Seq(SshPackets), NEW t \in Seq(SshPackets), NEW ms \in Seq(SshPackets),
           NEW u \in Nat, NEW v \in Nat, SshSent(c, e, ms),
           SshDir(c, d, s, t, u), SshDir(d, c, t, s, v)
    PROVE  SshDir(e, d, s \o ms, t, u) /\ SshDir(d, e, t, s \o ms, v)
<1>1. PICK r \in Seq(SshPackets) : r = s \o ms
  BY SshConcat
<1>2. \A T : /\ Channel!Count(r, T) = Channel!Count(s, T) + Channel!Count(ms, T)
             /\ Channel!Bytes(r, T) = Channel!Bytes(s, T) + Channel!Bytes(ms, T)
             /\ Channel!Count(s, T) \in Nat /\ Channel!Count(ms, T) \in Nat
             /\ Channel!Bytes(s, T) \in Nat /\ Channel!Bytes(ms, T) \in Nat
             /\ Channel!Count(t, T) \in Nat /\ Channel!Bytes(t, T) \in Nat
  BY <1>1, SshSum, SshFinite
<1>3. \A T : (Channel!Of(s, T) = {} /\ Channel!Of(ms, T) = {}) => Channel!Of(r, T) = {}
  BY <1>1, SshOfConcat
<1>4. ms = <<>> => r = s /\ \A T : Channel!Of(ms, T) = {}
  BY <1>1, SshEmpty
<1>5. SshOrder(r) /\ SshSmall(r)
  <2>1. Channel!Of(s, {"close"}) = {} \/ Channel!Of(ms, Channel!InTable) = {}
    BY <1>4 DEF SshDir, SshSent
  <2> QED BY <1>1, <2>1, SshOrdered DEF SshDir, SshSent
<1>6. Channel!Count(ms, {"reply"}) = 0
  <2>1. Channel!Of(ms, {"reply"}) = {}
    BY DEF SshSent, Channel!Of, Channel!InTable
  <2> QED BY <2>1, SshNone
<1>7. /\ c.left \in Nat /\ c.local \in Nat /\ c.waits \in Nat /\ d.left \in Nat /\ d.local \in Nat
      /\ d.waits \in Nat /\ e.left \in Nat /\ e.local \in Nat /\ e.waits \in Nat
  BY DEF SshChannels
<1>8. SshDir(e, d, r, t, u)
  <2>1. ~e.lc => Channel!Of(r, {"close"}) = {}
    BY <1>3 DEF SshDir, SshSent
  <2>2. d.rc => e.lc /\ Channel!Of(r, Channel!InTable) = {}
    BY <1>4 DEF SshDir, SshSent
  <2>3. d.st = "closed" => d.lc /\ d.rc /\ d.waits = 0
    BY DEF SshDir
  <2>4. ASSUME e.st = "open", ~e.lc
        PROVE  d.local = e.left + Channel!Bytes(r, {"data", "ext"}) + Channel!Bytes(t, {"adjust"})
    <3>1. c.st = "open" /\ ~c.lc /\ c.left = e.left + Channel!Bytes(ms, {"data", "ext"})
      BY <2>4 DEF SshSent
    <3>2. d.local = c.left + Channel!Bytes(s, {"data", "ext"}) + Channel!Bytes(t, {"adjust"})
      BY <3>1 DEF SshDir
    <3>3. PICK x \in Nat : x = Channel!Bytes(s, {"data", "ext"})
      BY <1>2
    <3>4. PICK y \in Nat : y = Channel!Bytes(ms, {"data", "ext"})
      BY <1>2
    <3>5. PICK z \in Nat : z = Channel!Bytes(t, {"adjust"})
      BY <1>2
    <3>6. Channel!Bytes(r, {"data", "ext"}) = x + y
      BY <1>2, <3>3, <3>4
    <3>7. c.left = e.left + y /\ d.local = c.left + x + z
      BY <3>1, <3>2, <3>3, <3>4, <3>5
    <3>8. d.local = e.left + (x + y) + z
      BY <1>7, <3>7
    <3> QED BY <3>5, <3>6, <3>8
  <2>5. ASSUME e.st # "closed", d.st # "closed"
        PROVE  e.waits = Channel!Count(r, {"request"}) + u + Channel!Count(t, {"reply"})
    <3>1. e.st = c.st /\ e.waits = c.waits + Channel!Count(ms, {"request"})
      BY <2>5 DEF SshSent
    <3>2. c.waits = Channel!Count(s, {"request"}) + u + Channel!Count(t, {"reply"})
      BY <2>5, <3>1 DEF SshDir
    <3>3. PICK x \in Nat : x = Channel!Count(s, {"request"})
      BY <1>2
    <3>4. PICK y \in Nat : y = Channel!Count(ms, {"request"})
      BY <1>2
    <3>5. PICK z \in Nat : z = Channel!Count(t, {"reply"})
      BY <1>2
    <3>6. Channel!Count(r, {"request"}) = x + y
      BY <1>2, <3>3, <3>4
    <3>7. e.waits = c.waits + y /\ c.waits = x + u + z
      BY <3>1, <3>2, <3>3, <3>4, <3>5
    <3>8. e.waits = (x + y) + u + z
      BY <1>7, <3>7
    <3> QED BY <3>5, <3>6, <3>8
  <2> QED BY <1>5, <2>1, <2>2, <2>3, <2>4, <2>5 DEF SshDir
<1>9. SshDir(d, e, t, r, v)
  <2>1. ~d.lc => Channel!Of(t, {"close"}) = {}
    BY DEF SshDir
  <2>2. e.rc => d.lc /\ Channel!Of(t, Channel!InTable) = {}
    BY DEF SshDir, SshSent
  <2>3. e.st = "closed" => e.lc /\ e.rc /\ e.waits = 0
    <3>1. CASE e.st = c.st /\ c.st = "closed"
      <4>1. c.lc /\ c.rc /\ c.waits = 0
        BY <3>1 DEF SshDir
      <4>2. e.lc /\ ms = <<>> /\ e.rc = c.rc
        BY <4>1 DEF SshSent
      <4>3. e.waits = c.waits + Channel!Count(ms, {"request"}) \/ e.waits = 0
        BY DEF SshSent
      <4>4. Channel!Count(ms, {"request"}) = 0
        BY <4>2, SshEmpty
      <4> QED BY <4>1, <4>2, <4>3, <4>4
    <3> QED BY <3>1 DEF SshSent
  <2>4. ASSUME d.st = "open", ~d.lc
        PROVE  e.local = d.left + Channel!Bytes(t, {"data", "ext"}) + Channel!Bytes(r, {"adjust"})
    <3>1. e.local = c.local + Channel!Bytes(ms, {"adjust"})
      BY DEF SshSent
    <3>2. c.local = d.left + Channel!Bytes(t, {"data", "ext"}) + Channel!Bytes(s, {"adjust"})
      BY <2>4 DEF SshDir
    <3>3. PICK x \in Nat : x = Channel!Bytes(s, {"adjust"})
      BY <1>2
    <3>4. PICK y \in Nat : y = Channel!Bytes(ms, {"adjust"})
      BY <1>2
    <3>5. PICK z \in Nat : z = Channel!Bytes(t, {"data", "ext"})
      BY <1>2
    <3>6. Channel!Bytes(r, {"adjust"}) = x + y
      BY <1>2, <3>3, <3>4
    <3>7. e.local = c.local + y /\ c.local = d.left + z + x
      BY <3>1, <3>2, <3>3, <3>4, <3>5
    <3>8. PICK g \in Nat : g = d.left
      BY <1>7
    <3>9. PICK l \in Nat : l = c.local
      BY <1>7
    <3>10. e.local = l + y /\ l = g + z + x
      BY <3>7, <3>8, <3>9
    <3>11. l + y = g + z + (x + y)
      BY <3>10
    <3> QED BY <3>5, <3>6, <3>8, <3>10, <3>11
  <2>5. ASSUME d.st # "closed", e.st # "closed"
        PROVE  d.waits = Channel!Count(t, {"request"}) + v + Channel!Count(r, {"reply"})
    <3>1. c.st # "closed"
      BY <2>5 DEF SshSent
    <3>2. d.waits = Channel!Count(t, {"request"}) + v + Channel!Count(s, {"reply"})
      BY <2>5, <3>1 DEF SshDir
    <3> QED BY <1>2, <1>6, <1>7, <3>2
  <2>6. SshOrder(t) /\ SshSmall(t)
    BY DEF SshDir
  <2> QED BY <2>1, <2>2, <2>3, <2>4, <2>5, <2>6 DEF SshDir
<1> QED BY <1>1, <1>8, <1>9

\* So does the receipt of a packet, if it changes the record as it has to.
LEMMA SshTake ==
    ASSUME NEW c \in SshChannels, NEW d \in SshChannels, NEW s \in Seq(SshPackets),
           NEW t \in Seq(SshPackets), t # <<>>, NEW v \in Nat, SshDir(d, c, t, s, v)
    PROVE  /\ SshOrder(Tail(t)) /\ SshSmall(Tail(t))
           /\ \A T : Channel!Of(t, T) = {} => Channel!Of(Tail(t), T) = {}
           /\ Head(t).t \in Channel!InTable => ~c.rc /\ c.st # "closed"
           /\ Head(t).t = "close" => d.lc /\ Channel!Of(Tail(t), Channel!InTable) = {}
           /\ Head(t).t \in {"data", "ext"} => Head(t).n <= MaxPacket
<1>1. /\ Len(Tail(t)) = Len(t) - 1 /\ Len(t) \in Nat /\ Len(t) >= 1 /\ Head(t) = t[1]
      /\ \A i \in 1..Len(Tail(t)) : Tail(t)[i] = t[i + 1] /\ i + 1 \in 1..Len(t) /\ 1 < i + 1
  OBVIOUS
<1>2. \A T : Channel!Of(t, T) = {} => Channel!Of(Tail(t), T) = {}
  BY SshSplit
<1>3. SshSmall(Tail(t))
  BY <1>1 DEF SshDir, SshSmall
<1>4. SshOrder(Tail(t))
  <2> SUFFICES ASSUME NEW i \in 1..Len(Tail(t)), NEW j \in 1..Len(Tail(t)), i < j,
                      Tail(t)[i].t = "close"
               PROVE  Tail(t)[j].t \notin Channel!InTable
    BY DEF SshOrder
  <2>1. i + 1 < j + 1 /\ i + 1 \in 1..Len(t) /\ j + 1 \in 1..Len(t)
        /\ Tail(t)[i] = t[i + 1] /\ Tail(t)[j] = t[j + 1]
    BY <1>1
  <2> QED BY <2>1 DEF SshDir, SshOrder
<1>5. 1 \in 1..Len(t)
  BY <1>1
<1>6. ASSUME Head(t).t = "close" PROVE d.lc /\ Channel!Of(Tail(t), Channel!InTable) = {}
  <2>1. 1 \in Channel!Of(t, {"close"})
    BY <1>1, <1>5, <1>6 DEF Channel!Of
  <2>2. \A i \in 1..Len(Tail(t)) : Tail(t)[i].t \notin Channel!InTable
    BY <1>1, <1>5, <1>6 DEF SshDir, SshOrder
  <2> QED BY <2>1, <2>2 DEF SshDir, Channel!Of
<1>7. ASSUME Head(t).t \in Channel!InTable PROVE ~c.rc /\ c.st # "closed"
  <2>1. 1 \in Channel!Of(t, Channel!InTable)
    BY <1>1, <1>5, <1>7 DEF Channel!Of
  <2> QED BY <2>1 DEF SshDir
<1>8. Head(t).t \in {"data", "ext"} => Head(t).n <= MaxPacket
  BY <1>1, <1>5 DEF SshDir, SshSmall
<1> QED BY <1>2, <1>3, <1>4, <1>6, <1>7, <1>8

SshReceipt(c, d, m, b, s, t, u, v, w) ==
    /\ c \in SshChannels /\ d \in SshChannels /\ b \in SshChannels
    /\ s \in Seq(SshPackets) /\ t \in Seq(SshPackets) /\ t # <<>> /\ m = Head(t)
    /\ u \in Nat /\ v \in Nat /\ w \in Nat /\ w = v + (IF m.t = "request" THEN 1 ELSE 0)
    /\ SshDir(c, d, s, t, u) /\ SshDir(d, c, t, s, v)
    /\ b.lc = c.lc /\ (c.rc => b.rc) /\ (b.rc => c.rc \/ m.t = "close")
    /\ b.st = "closed" <=> c.st = "closed"
    /\ c.st = "closed" => b.waits = 0
    /\ (b.st = "open" /\ ~b.lc) =>
          \/ c.st = "open" /\ b.left = c.left + (IF m.t = "adjust" THEN m.n ELSE 0)
          \/ d.local = b.left + Channel!Bytes(s, {"data", "ext"}) + Channel!Bytes(Tail(t), {"adjust"})
    /\ (d.st = "open" /\ ~d.lc) => c.local = b.local + (IF m.t \in {"data", "ext"} THEN m.n ELSE 0)
    /\ (c.st # "closed" /\ d.st # "closed") => c.waits = b.waits + (IF m.t = "reply" THEN 1 ELSE 0)

LEMMA SshReceived ==
    ASSUME NEW c, NEW d, NEW m, NEW b, NEW s, NEW t, NEW u, NEW v, NEW w,
           SshReceipt(c, d, m, b, s, t, u, v, w)
    PROVE  SshDir(b, d, s, Tail(t), u) /\ SshDir(d, b, Tail(t), s, w)
<1>0. /\ c \in SshChannels /\ d \in SshChannels /\ b \in SshChannels
      /\ s \in Seq(SshPackets) /\ t \in Seq(SshPackets) /\ t # <<>> /\ m = Head(t)
      /\ u \in Nat /\ v \in Nat /\ w \in Nat /\ w = v + (IF m.t = "request" THEN 1 ELSE 0)
      /\ SshDir(c, d, s, t, u) /\ SshDir(d, c, t, s, v)
      /\ b.lc = c.lc /\ (c.rc => b.rc) /\ (b.rc => c.rc \/ m.t = "close")
      /\ b.st = "closed" <=> c.st = "closed"
      /\ c.st = "closed" => b.waits = 0
      /\ (b.st = "open" /\ ~b.lc) =>
            \/ c.st = "open" /\ b.left = c.left + (IF m.t = "adjust" THEN m.n ELSE 0)
            \/ d.local = b.left + Channel!Bytes(s, {"data", "ext"}) + Channel!Bytes(Tail(t), {"adjust"})
      /\ (d.st = "open" /\ ~d.lc) => c.local = b.local + (IF m.t \in {"data", "ext"} THEN m.n ELSE 0)
      /\ (c.st # "closed" /\ d.st # "closed") => c.waits = b.waits + (IF m.t = "reply" THEN 1 ELSE 0)
  BY DEF SshReceipt
<1> USE <1>0
<1>1. PICK r \in Seq(SshPackets) : r = Tail(t)
  BY SshSplit
<1>2. m \in SshPackets /\ m.n \in Nat
  <2>1. m \in SshPackets
    BY SshSplit
  <2>2. m.n \in 0..SshLimit /\ SshLimit \in Nat
    BY <2>1, SshLimits DEF SshPackets
  <2> QED BY <2>1, <2>2
<1>3. \A T : /\ Channel!Count(t, T) = Channel!Count(r, T) + (IF m.t \in T THEN 1 ELSE 0)
             /\ Channel!Bytes(t, T) = Channel!Bytes(r, T) + (IF m.t \in T THEN m.n ELSE 0)
             /\ Channel!Count(s, T) \in Nat /\ Channel!Count(r, T) \in Nat
             /\ Channel!Bytes(s, T) \in Nat /\ Channel!Bytes(r, T) \in Nat
  <2> TAKE T
  <2>1. /\ Channel!Count(t, T) = Channel!Count(r, T) + (IF m.t \in T THEN 1 ELSE 0)
        /\ Channel!Bytes(t, T) = Channel!Bytes(r, T) + (IF m.t \in T THEN m.n ELSE 0)
    BY <1>1, SshSplit
  <2> QED BY <2>1, SshFinite
<1>4. /\ SshOrder(r) /\ SshSmall(r)
      /\ \A T : Channel!Of(t, T) = {} => Channel!Of(r, T) = {}
      /\ m.t = "close" => d.lc /\ Channel!Of(r, Channel!InTable) = {}
  BY <1>1, SshTake
<1>5. /\ c.left \in Nat /\ c.local \in Nat /\ c.waits \in Nat /\ d.left \in Nat /\ d.local \in Nat
      /\ d.waits \in Nat /\ b.left \in Nat /\ b.local \in Nat /\ b.waits \in Nat
  BY DEF SshChannels
<1>6. SshDir(b, d, s, r, u)
  <2>1. ASSUME b.st = "open", ~b.lc
        PROVE  d.local = b.left + Channel!Bytes(s, {"data", "ext"}) + Channel!Bytes(r, {"adjust"})
    <3>1. CASE c.st = "open" /\ b.left = c.left + (IF m.t = "adjust" THEN m.n ELSE 0)
      <4>1. d.local = c.left + Channel!Bytes(s, {"data", "ext"}) + Channel!Bytes(t, {"adjust"})
        BY <2>1, <3>1 DEF SshDir
      <4>2. PICK x \in Nat : x = Channel!Bytes(r, {"adjust"})
        BY <1>3
      <4>3. PICK y \in Nat : y = IF m.t = "adjust" THEN m.n ELSE 0
        BY <1>2
      <4>4. PICK z \in Nat : z = Channel!Bytes(s, {"data", "ext"})
        BY <1>3
      <4>5. Channel!Bytes(t, {"adjust"}) = x + y
        BY <1>3, <4>2, <4>3
      <4>6. d.local = c.left + z + (x + y) /\ b.left = c.left + y
        BY <3>1, <4>1, <4>3, <4>4, <4>5
      <4>7. PICK g \in Nat : g = c.left
        BY <1>5
      <4>8. d.local = g + z + (x + y) /\ b.left = g + y
        BY <4>6, <4>7
      <4>9. g + z + (x + y) = (g + y) + z + x
        OBVIOUS
      <4> QED BY <4>2, <4>4, <4>8, <4>9
    <3> QED BY <1>1, <2>1, <3>1
  <2>2. ASSUME b.st # "closed", d.st # "closed"
        PROVE  b.waits = Channel!Count(s, {"request"}) + u + Channel!Count(r, {"reply"})
    <3>1. c.waits = Channel!Count(s, {"request"}) + u + Channel!Count(t, {"reply"})
      BY <2>2 DEF SshDir
    <3>2. PICK x \in Nat : x = Channel!Count(r, {"reply"})
      BY <1>3
    <3>3. PICK y \in Nat : y = IF m.t = "reply" THEN 1 ELSE 0
      OBVIOUS
    <3>4. PICK z \in Nat : z = Channel!Count(s, {"request"})
      BY <1>3
    <3>5. Channel!Count(t, {"reply"}) = x + y
      BY <1>3, <3>2, <3>3
    <3>6. c.waits = b.waits + y
      BY <2>2, <3>3
    <3>7. c.waits = z + u + (x + y)
      BY <3>1, <3>4, <3>5
    <3>8. PICK g \in Nat : g = b.waits
      BY <1>5
    <3>9. g + y = z + u + (x + y) /\ u \in Nat
      BY <3>6, <3>7, <3>8
    <3>10. g = z + u + x
      <4>1. u \in Nat
        BY <3>9
      <4>2. PICK h \in Nat : h = z + u + x
        BY <4>1
      <4>3. g + y = h + y
        BY <3>9, <4>1, <4>2
      <4>4. g = h
        BY <4>3
      <4> QED BY <4>2, <4>4
    <3> QED BY <3>2, <3>4, <3>8, <3>10
  <2>3. /\ ~b.lc => Channel!Of(s, {"close"}) = {}
        /\ d.rc => b.lc /\ Channel!Of(s, Channel!InTable) = {}
        /\ SshOrder(s) /\ SshSmall(s)
        /\ d.st = "closed" => d.lc /\ d.rc /\ d.waits = 0
    BY DEF SshDir
  <2> QED BY <2>1, <2>2, <2>3 DEF SshDir
<1>7. SshDir(d, b, r, s, w)
  <2>1. ASSUME d.st = "open", ~d.lc
        PROVE  b.local = d.left + Channel!Bytes(r, {"data", "ext"}) + Channel!Bytes(s, {"adjust"})
    <3>1. c.local = d.left + Channel!Bytes(t, {"data", "ext"}) + Channel!Bytes(s, {"adjust"})
      BY <2>1 DEF SshDir
    <3>2. PICK x \in Nat : x = Channel!Bytes(r, {"data", "ext"})
      BY <1>3
    <3>3. PICK y \in Nat : y = IF m.t \in {"data", "ext"} THEN m.n ELSE 0
      BY <1>2
    <3>4. PICK z \in Nat : z = Channel!Bytes(s, {"adjust"})
      BY <1>3
    <3>5. Channel!Bytes(t, {"data", "ext"}) = x + y
      BY <1>3, <3>2, <3>3
    <3>6. c.local = b.local + y
      BY <2>1, <3>3
    <3>7. c.local = d.left + (x + y) + z
      BY <3>1, <3>4, <3>5
    <3>8. PICK l \in Nat : l = b.local
      BY <1>5
    <3>9. PICK g \in Nat : g = d.left
      BY <1>5
    <3>10. l + y = g + (x + y) + z
      BY <3>6, <3>7, <3>8, <3>9
    <3>11. l = g + x + z
      BY <3>10
    <3> QED BY <3>2, <3>4, <3>8, <3>9, <3>11
  <2>2. ASSUME d.st # "closed", b.st # "closed"
        PROVE  d.waits = Channel!Count(r, {"request"}) + w + Channel!Count(s, {"reply"})
    <3>1. d.waits = Channel!Count(t, {"request"}) + v + Channel!Count(s, {"reply"})
      BY <2>2 DEF SshDir
    <3>2. PICK x \in Nat : x = Channel!Count(r, {"request"})
      BY <1>3
    <3>3. PICK y \in Nat : y = IF m.t = "request" THEN 1 ELSE 0
      OBVIOUS
    <3>4. PICK z \in Nat : z = Channel!Count(s, {"reply"})
      BY <1>3
    <3>5. Channel!Count(t, {"request"}) = x + y
      BY <1>3, <3>2, <3>3
    <3>6. d.waits = (x + y) + v + z
      BY <3>1, <3>4, <3>5
    <3>7. w = v + y
      BY <3>3
    <3>8. d.waits = x + w + z
      BY <1>5, <3>6, <3>7
    <3> QED BY <3>2, <3>4, <3>8
  <2>3. ~d.lc => Channel!Of(r, {"close"}) = {}
    BY <1>4 DEF SshDir
  <2>4. b.rc => d.lc /\ Channel!Of(r, Channel!InTable) = {}
    BY <1>4 DEF SshDir
  <2>5. b.st = "closed" => b.lc /\ b.rc /\ b.waits = 0
    BY DEF SshDir
  <2> QED BY <1>4, <2>1, <2>2, <2>3, <2>4, <2>5 DEF SshDir
<1> QED BY <1>1, <1>6, <1>7

\* A reply is sent.
LEMMA SshReplies ==
    ASSUME NEW c \in SshChannels, NEW d \in SshChannels, NEW s \in Seq(SshPackets),
           NEW t \in Seq(SshPackets), NEW u \in Nat, NEW v \in Nat, v > 0,
           SshDir(c, d, s, t, u), SshDir(d, c, t, s, v), NEW m \in SshPackets, m.t = "reply"
    PROVE  SshDir(c, d, s \o <<m>>, t, u) /\ SshDir(d, c, t, s \o <<m>>, v - 1)
<1>1. /\ <<m>> \in Seq(SshPackets)
      /\ \A T : /\ Channel!Count(<<m>>, T) = IF m.t \in T THEN 1 ELSE 0
                /\ Channel!Bytes(<<m>>, T) = IF m.t \in T THEN m.n ELSE 0
  BY SshOne
<1>2. PICK r \in Seq(SshPackets) : r = s \o <<m>>
  BY <1>1, SshConcat
<1>3. \A T : /\ Channel!Count(r, T) = Channel!Count(s, T) + Channel!Count(<<m>>, T)
             /\ Channel!Bytes(r, T) = Channel!Bytes(s, T) + Channel!Bytes(<<m>>, T)
             /\ Channel!Count(s, T) \in Nat /\ Channel!Bytes(s, T) \in Nat
             /\ Channel!Count(t, T) \in Nat /\ Channel!Bytes(t, T) \in Nat
  <2> TAKE T
  <2>1. PICK n \in Seq(SshPackets) : n = <<m>>
    BY <1>1
  <2>2. /\ Channel!Count(s \o n, T) = Channel!Count(s, T) + Channel!Count(n, T)
        /\ Channel!Bytes(s \o n, T) = Channel!Bytes(s, T) + Channel!Bytes(n, T)
    BY SshSum
  <2> QED BY <1>2, <2>1, <2>2, SshFinite
<1>4. Len(<<m>>) = 1 /\ <<m>>[1] = m /\ 1..1 = {1}
  OBVIOUS
<1>5. /\ Channel!Of(<<m>>, {"close"}) = {} /\ Channel!Of(<<m>>, Channel!InTable) = {}
      /\ SshOrder(<<m>>) /\ SshSmall(<<m>>)
  BY <1>4 DEF Channel!Of, Channel!InTable, SshOrder, SshSmall
<1>6. \A T : (Channel!Of(s, T) = {} /\ Channel!Of(<<m>>, T) = {}) => Channel!Of(r, T) = {}
  BY <1>1, <1>2, SshOfConcat
<1>7. SshOrder(r) /\ SshSmall(r)
  BY <1>1, <1>2, <1>5, SshOrdered DEF SshDir
<1>8. /\ Channel!Count(r, {"request"}) = Channel!Count(s, {"request"})
      /\ Channel!Count(r, {"reply"}) = Channel!Count(s, {"reply"}) + 1
      /\ Channel!Bytes(r, {"data", "ext"}) = Channel!Bytes(s, {"data", "ext"})
      /\ Channel!Bytes(r, {"adjust"}) = Channel!Bytes(s, {"adjust"})
  <2>1. /\ Channel!Count(<<m>>, {"request"}) = 0 /\ Channel!Count(<<m>>, {"reply"}) = 1
        /\ Channel!Bytes(<<m>>, {"data", "ext"}) = 0 /\ Channel!Bytes(<<m>>, {"adjust"}) = 0
    BY <1>1
  <2>2. Channel!Count(r, {"request"}) = Channel!Count(s, {"request"})
    BY <1>3, <2>1
  <2>3. Channel!Count(r, {"reply"}) = Channel!Count(s, {"reply"}) + 1
    BY <1>3, <2>1
  <2>4. Channel!Bytes(r, {"data", "ext"}) = Channel!Bytes(s, {"data", "ext"})
    <3>1. PICK x \in Nat : x = Channel!Bytes(s, {"data", "ext"})
      BY <1>3
    <3>2. Channel!Bytes(r, {"data", "ext"}) = x + 0
      BY <1>3, <2>1, <3>1
    <3> QED BY <3>1, <3>2
  <2>5. Channel!Bytes(r, {"adjust"}) = Channel!Bytes(s, {"adjust"})
    <3>1. PICK x \in Nat : x = Channel!Bytes(s, {"adjust"})
      BY <1>3
    <3>2. Channel!Bytes(r, {"adjust"}) = x + 0
      BY <1>3, <2>1, <3>1
    <3> QED BY <3>1, <3>2
  <2> QED BY <2>2, <2>3, <2>4, <2>5
<1>9. SshDir(c, d, r, t, u)
  BY <1>5, <1>6, <1>7, <1>8 DEF SshDir
<1>10. SshDir(d, c, t, r, v - 1)
  <2>1. ASSUME d.st # "closed", c.st # "closed"
        PROVE  d.waits = Channel!Count(t, {"request"}) + (v - 1) + Channel!Count(r, {"reply"})
    <3>1. d.waits = Channel!Count(t, {"request"}) + v + Channel!Count(s, {"reply"})
      BY <2>1 DEF SshDir
    <3>2. PICK x \in Nat : x = Channel!Count(s, {"reply"})
      BY <1>3
    <3>3. PICK y \in Nat : y = Channel!Count(t, {"request"})
      BY <1>3
    <3>4. d.waits = y + v + x /\ Channel!Count(r, {"reply"}) = x + 1
      BY <1>8, <3>1, <3>2, <3>3
    <3>5. d.waits = y + (v - 1) + (x + 1)
      BY <3>4
    <3> QED BY <3>3, <3>4, <3>5
  <2> QED BY <1>8, <2>1 DEF SshDir
<1> QED BY <1>2, <1>9, <1>10
-------------------------------------------------------------------------------
(***************************************************************************)
(* The invariant: before the handshake nothing of the channel is there,    *)
(* between its two halves only "b" can use the channel, and from then on   *)
(* both directions are as SshDir says.                                     *)
(***************************************************************************)
SshHandshake == {"open", "confirm", "openfail"}

SshTypes ==
    /\ ch \in [Channel!Peers -> SshChannels] /\ net \in [Channel!Peers -> Seq(SshPackets)]
    /\ unanswered \in [Channel!Peers -> Nat] /\ up \in BOOLEAN
    /\ \A p \in Channel!Peers : ch[p].out = <<>>

SshFresh(c) == ~c.lc /\ ~c.rc /\ c.local = Window /\ c.waits = 0

SshBoth ==
    /\ SshDir(ch["a"], ch["b"], net["b"], net["a"], unanswered["b"])
    /\ SshDir(ch["b"], ch["a"], net["a"], net["b"], unanswered["a"])

SshEarly ==
    /\ ch["b"].st = "none" /\ SshFresh(ch["a"]) /\ SshFresh(ch["b"])
    /\ unanswered["a"] = 0 /\ unanswered["b"] = 0
    /\ \/ ch["a"].st \in {"none", "failed"} /\ net["a"] = <<>> /\ net["b"] = <<>>
       \/ /\ ch["a"].st = "opening" /\ net["a"] = <<>>
          /\ net["b"] = <<Channel!Msg("open", Window)>>
       \/ /\ ch["a"].st = "opening" /\ net["a"] = <<Channel!Msg("openfail", 0)>>
          /\ net["b"] = <<>>

SshHalf ==
    /\ ch["a"].st = "opening" /\ SshFresh(ch["a"]) /\ ch["b"].st = "open" /\ ch["b"].local = Window
    /\ unanswered["a"] = 0 /\ unanswered["b"] = 0
    /\ net["b"] = <<>> /\ net["a"] # <<>> /\ Head(net["a"]) = Channel!Msg("confirm", Window)
    /\ Channel!Bytes(net["a"], {"adjust"}) = 0
    /\ Channel!Of(Tail(net["a"]), SshHandshake) = {}
    /\ SshBoth

SshShaken ==
    /\ \A p \in Channel!Peers :
          ch[p].st \in {"open", "closed"} /\ Channel!Of(net[p], SshHandshake) = {}
    /\ SshBoth

SshDown ==
    \A p \in Channel!Peers :
        /\ ch[p].st \in {"none", "closed", "failed"} /\ net[p] = <<>>
        /\ ch[p].st = "closed" => ch[p].waits = 0

SshInvariant ==
    /\ SshTypes
    /\ up => SshEarly \/ SshHalf \/ SshShaken
    /\ ~up => SshDown

LEMMA SshPeers ==
    /\ Channel!Peers = {"a", "b"} /\ "a" # "b"
    /\ Channel!Other("a") = "b" /\ Channel!Other("b") = "a"
BY DEF Channel!Peers, Channel!Other

LEMMA SshSame ==
    ASSUME NEW c, NEW d, NEW e, NEW f, NEW s, NEW t, NEW u, SshDir(c, d, s, t, u),
           e.st = c.st, e.lc = c.lc, e.rc = c.rc, e.left = c.left, e.local = c.local,
           e.waits = c.waits, f.st = d.st, f.lc = d.lc, f.rc = d.rc, f.left = d.left,
           f.local = d.local, f.waits = d.waits
    PROVE  SshDir(e, f, s, t, u)
BY DEF SshDir

\* What Becomes(p, e, in) sets.
SshBecomes(p, e, in) ==
    /\ SshTypes'
    /\ ch'[p].st = e.st /\ ch'[p].lc = e.lc /\ ch'[p].rc = e.rc /\ ch'[p].left = e.left
    /\ ch'[p].local = e.local /\ ch'[p].waits = e.waits
    /\ ch'[Channel!Other(p)] = ch[Channel!Other(p)] /\ net'[p] = in
    /\ net'[Channel!Other(p)] = net[Channel!Other(p)] \o e.out

LEMMA SshBecame ==
    ASSUME SshTypes, NEW p \in Channel!Peers, NEW e \in SshChannels, NEW in \in Seq(SshPackets),
           Channel!Becomes(p, e, in), unanswered' \in [Channel!Peers -> Nat], up' \in BOOLEAN
    PROVE  SshBecomes(p, e, in)
<1>1. PICK q \in Channel!Peers : q = Channel!Other(p) /\ q # p /\ Channel!Peers = {p, q}
  BY SshPeers
<1>2. PICK f : f = [e EXCEPT !.out = <<>>]
  OBVIOUS
<1>3. /\ f \in SshChannels /\ f.st = e.st /\ f.lc = e.lc /\ f.rc = e.rc /\ f.left = e.left
      /\ f.local = e.local /\ f.waits = e.waits /\ f.out = <<>>
  BY <1>2, SshEmpty DEF SshChannels
<1>4. ch' = [ch EXCEPT ![p] = f]
  BY <1>2 DEF Channel!Becomes
<1>5. ch' \in [Channel!Peers -> SshChannels] /\ ch'[p] = f /\ ch'[q] = ch[q]
  BY <1>1, <1>3, <1>4 DEF SshTypes
<1>6. PICK o \in Seq(SshPackets) : o = net[q] \o e.out
  <2>1. net[q] \in Seq(SshPackets) /\ e.out \in Seq(SshPackets)
    BY DEF SshTypes, SshChannels
  <2> QED BY <2>1, SshConcat
<1>7. net' = [net EXCEPT ![p] = in, ![q] = o]
  BY <1>1, <1>6 DEF Channel!Becomes, SshTypes
<1>8. net' \in [Channel!Peers -> Seq(SshPackets)] /\ net'[p] = in /\ net'[q] = o
  BY <1>1, <1>7 DEF SshTypes
<1>9. \A r \in Channel!Peers : ch'[r].out = <<>>
  BY <1>1, <1>3, <1>5 DEF SshTypes
<1>10. SshTypes'
  BY <1>5, <1>8, <1>9 DEF SshTypes
<1> QED BY <1>1, <1>3, <1>5, <1>6, <1>8, <1>10 DEF SshBecomes

\* A step of p: it has taken a packet, or none, which makes its channel b and
\* leaves `in' for it to receive and w requests to answer; then it sends.
SshMoves(p, q, b, e, in, w) ==
    /\ p \in Channel!Peers /\ q = Channel!Other(p) /\ up /\ up' = up
    /\ b \in SshChannels /\ in \in Seq(SshPackets) /\ w \in Nat
    /\ b.out = <<>> /\ SshSends(b, e)
    /\ Channel!Becomes(p, e, in) /\ unanswered' = [unanswered EXCEPT ![p] = w]
    /\ SshDir(b, ch[q], net[q], in, unanswered[q]) /\ SshDir(ch[q], b, in, net[q], w)

\* What has happened then.
SshMoved(p, q, b, e, in, w) ==
    /\ SshTypes' /\ SshBoth' /\ ch'[q] = ch[q] /\ net'[p] = in
    /\ ch'[p].st = e.st /\ ch'[p].local = e.local
    /\ unanswered'[p] = w /\ unanswered'[q] = unanswered[q]
    /\ e.st = b.st \/ (b.st = "open" /\ e.st = "closed")
    /\ \E ms \in Seq(SshPackets) :
          /\ net'[q] = net[q] \o ms /\ \A i \in 1..Len(ms) : ms[i].t \in Channel!InTable
          /\ e.local = b.local + Channel!Bytes(ms, {"adjust"})

LEMMA SshStep ==
    ASSUME SshTypes, NEW p, NEW q, NEW b, NEW e, NEW in, NEW w, SshMoves(p, q, b, e, in, w)
    PROVE  SshMoved(p, q, b, e, in, w)
<1>0. /\ p \in Channel!Peers /\ q = Channel!Other(p) /\ up' \in BOOLEAN
      /\ b \in SshChannels /\ in \in Seq(SshPackets) /\ w \in Nat
      /\ b.out = <<>> /\ SshSends(b, e)
      /\ Channel!Becomes(p, e, in) /\ unanswered' = [unanswered EXCEPT ![p] = w]
      /\ SshDir(b, ch[q], net[q], in, unanswered[q]) /\ SshDir(ch[q], b, in, net[q], w)
  BY DEF SshMoves, SshTypes
<1> USE <1>0
<1>1. q \in Channel!Peers /\ q # p /\ Channel!Peers = {p, q} /\ Channel!Other(q) = p
  BY SshPeers
<1>2. PICK ms \in Seq(SshPackets) : e.out = b.out \o ms /\ SshSent(b, e, ms)
  BY DEF SshSends
<1>3. e \in SshChannels /\ e.out = ms
  BY <1>2 DEF SshSends
<1>4. unanswered' \in [Channel!Peers -> Nat] /\ unanswered'[p] = w /\ unanswered'[q] = unanswered[q]
  BY <1>1 DEF SshTypes
<1>5. /\ SshTypes' /\ ch'[p].st = e.st /\ ch'[p].lc = e.lc /\ ch'[p].rc = e.rc
      /\ ch'[p].left = e.left /\ ch'[p].local = e.local /\ ch'[p].waits = e.waits
      /\ ch'[q] = ch[q] /\ net'[p] = in /\ net'[q] = net[q] \o ms
  <2>1. SshBecomes(p, e, in)
    BY <1>3, <1>4, SshBecame
  <2> QED BY <1>3, <2>1 DEF SshBecomes
<1>6. ch[q] \in SshChannels /\ net[q] \in Seq(SshPackets) /\ unanswered[q] \in Nat
  BY <1>1 DEF SshTypes
<1>7. /\ SshDir(e, ch[q], net[q] \o ms, in, unanswered[q])
      /\ SshDir(ch[q], e, in, net[q] \o ms, w)
  BY <1>2, <1>3, <1>6, SshDirSends
<1>8. SshDir(ch'[p], ch'[q], net'[q], net'[p], unanswered'[q])
  <2>1. SshDir(ch'[p], ch'[q], net[q] \o ms, in, unanswered[q])
    BY <1>5, <1>7, SshSame
  <2> QED BY <1>4, <1>5, <2>1
<1>9. SshDir(ch'[q], ch'[p], net'[p], net'[q], unanswered'[p])
  <2>1. SshDir(ch'[q], ch'[p], in, net[q] \o ms, w)
    BY <1>5, <1>7, SshSame
  <2> QED BY <1>4, <1>5, <2>1
<1>10. SshBoth'
  <2>1. (p = "a" /\ q = "b") \/ (p = "b" /\ q = "a")
    BY SshPeers
  <2> QED BY <1>8, <1>9, <2>1 DEF SshBoth
<1>11. /\ e.st = b.st \/ (b.st = "open" /\ e.st = "closed")
       /\ \A i \in 1..Len(ms) : ms[i].t \in Channel!InTable
       /\ e.local = b.local + Channel!Bytes(ms, {"adjust"})
  BY <1>2 DEF SshSent
<1> QED BY <1>4, <1>5, <1>10, <1>11 DEF SshMoved

LEMMA SshTail ==
    ASSUME NEW s \in Seq(SshPackets), NEW t \in Seq(SshPackets), s # <<>>
    PROVE  s \o t # <<>> /\ Head(s \o t) = Head(s) /\ Tail(s \o t) = Tail(s) \o t
<1>1. PICK u \in Seq(SshPackets) : u = s \o t
  BY SshConcat
<1>2. PICK n \in Nat \ {0} : n = Len(s)
  OBVIOUS
<1>3. PICK m \in Nat : m = Len(t)
  OBVIOUS
<1>4. /\ Len(u) = n + m
      /\ \A i \in 1..(n + m) : u[i] = IF i <= n THEN s[i] ELSE t[i - n]
  BY <1>1, <1>2, <1>3, ConcatProperties
<1>5. u # <<>> /\ Head(u) = Head(s)
  BY <1>2, <1>3, <1>4
<1>6. PICK r \in Seq(SshPackets) : r = Tail(s) /\ Len(r) = n - 1 /\ \A i \in 1..(n - 1) : r[i] = s[i + 1]
  <2>1. Tail(s) \in Seq(SshPackets) /\ Len(Tail(s)) = Len(s) - 1
        /\ \A i \in 1..Len(Tail(s)) : Tail(s)[i] = s[i + 1]
    BY HeadTailProperties
  <2> QED BY <1>2, <2>1
<1>7. PICK v \in Seq(SshPackets) : /\ v = Tail(u) /\ Len(v) = n + m - 1
                                  /\ \A i \in 1..(n + m - 1) : v[i] = u[i + 1]
  <2>1. Tail(u) \in Seq(SshPackets) /\ Len(Tail(u)) = Len(u) - 1
        /\ \A i \in 1..Len(Tail(u)) : Tail(u)[i] = u[i + 1]
    BY <1>5, HeadTailProperties
  <2>2. Len(Tail(u)) = n + m - 1
    BY <1>4, <2>1
  <2> QED BY <2>1, <2>2
<1>8. PICK x \in Seq(SshPackets) : /\ x = r \o t /\ Len(x) = n - 1 + m
         /\ \A i \in 1..(n - 1 + m) : x[i] = IF i <= n - 1 THEN r[i] ELSE t[i - (n - 1)]
  <2>1. r \o t \in Seq(SshPackets) /\ Len(r \o t) = Len(r) + Len(t)
        /\ \A i \in 1..(Len(r) + Len(t)) : (r \o t)[i] = IF i <= Len(r) THEN r[i] ELSE t[i - Len(r)]
    BY ConcatProperties
  <2>2. Len(r \o t) = n - 1 + m
    BY <1>3, <1>6, <2>1
  <2>3. \A i \in 1..(n - 1 + m) : (r \o t)[i] = IF i <= n - 1 THEN r[i] ELSE t[i - (n - 1)]
    BY <1>3, <1>6, <2>1
  <2> QED BY <2>1, <2>2, <2>3
<1>9. ASSUME NEW i \in 1..(n + m - 1) PROVE v[i] = x[i]
  <2>1. v[i] = u[i + 1] /\ i + 1 \in 1..(n + m)
    BY <1>2, <1>3, <1>7
  <2>2. CASE i <= n - 1
    <3>1. u[i + 1] = s[i + 1] /\ x[i] = r[i] /\ r[i] = s[i + 1]
      BY <1>2, <1>3, <1>4, <1>6, <1>8, <2>1, <2>2
    <3> QED BY <2>1, <3>1
  <2>3. CASE ~(i <= n - 1)
    <3>1. u[i + 1] = t[i + 1 - n] /\ x[i] = t[i - (n - 1)] /\ i + 1 - n = i - (n - 1)
      BY <1>2, <1>3, <1>4, <1>8, <2>1, <2>3
    <3> QED BY <2>1, <3>1
  <2> QED BY <2>2, <2>3
<1>10. v = x
  <2>1. Len(v) = Len(x) /\ Len(v) = n + m - 1
    BY <1>2, <1>3, <1>7, <1>8
  <2> QED BY <1>9, <2>1, SeqEqual
<1> QED BY <1>1, <1>5, <1>6, <1>7, <1>8, <1>10

LEMMA SshNoHandshake ==
    ASSUME NEW s \in Seq(SshPackets), NEW ms \in Seq(SshPackets),
           Channel!Of(s, SshHandshake) = {}, \A i \in 1..Len(ms) : ms[i].t \in Channel!InTable
    PROVE  Channel!Of(s \o ms, SshHandshake) = {}
<1>1. Channel!Of(ms, SshHandshake) = {}
  BY DEF Channel!Of, SshHandshake, Channel!InTable
<1> QED BY <1>1, SshOfConcat

LEMMA SshShakenStep ==
    ASSUME SshInvariant, NEW p, NEW q, NEW b, NEW e, NEW in, NEW w, SshMoves(p, q, b, e, in, w),
           b.st \in {"open", "closed"}, Channel!Of(in, SshHandshake) = {},
           ch[q].st \in {"open", "closed"}, Channel!Of(net[q], SshHandshake) = {}
    PROVE  SshInvariant'
<1>0. SshTypes /\ up /\ up' = up
  BY DEF SshInvariant, SshMoves
<1>1. /\ SshTypes' /\ SshBoth' /\ ch'[q] = ch[q] /\ net'[p] = in /\ ch'[p].st = e.st
      /\ e.st = b.st \/ (b.st = "open" /\ e.st = "closed")
      /\ \E ms \in Seq(SshPackets) :
            /\ net'[q] = net[q] \o ms /\ \A i \in 1..Len(ms) : ms[i].t \in Channel!InTable
            /\ e.local = b.local + Channel!Bytes(ms, {"adjust"})
  <2>1. SshMoved(p, q, b, e, in, w)
    BY <1>0, SshStep
  <2> QED BY <2>1 DEF SshMoved
<1>2. q \in Channel!Peers /\ p \in Channel!Peers /\ Channel!Peers = {p, q}
  BY SshPeers DEF SshMoves
<1>3. ch'[p].st \in {"open", "closed"} /\ ch'[q].st \in {"open", "closed"}
  BY <1>1, <1>2
<1>4. Channel!Of(net'[q], SshHandshake) = {}
  <2>1. net[q] \in Seq(SshPackets) /\ Channel!Of(net[q], SshHandshake) = {}
    BY <1>0, <1>2 DEF SshTypes
  <2> QED BY <1>1, <2>1, SshNoHandshake
<1>5. SshShaken'
  BY <1>1, <1>2, <1>3, <1>4 DEF SshShaken
<1> QED BY <1>0, <1>1, <1>5 DEF SshInvariant

\* Between the two halves of the handshake only "b" moves.
LEMMA SshHalfStep ==
    ASSUME SshInvariant, SshHalf, NEW p, NEW q, NEW b, NEW e, NEW in, NEW w,
           SshMoves(p, q, b, e, in, w), p = "b", q = "a", in = net["b"], w = unanswered["b"],
           b.st = "open", b.local = Window, e.local = Window
    PROVE  SshInvariant'
<1>0. SshTypes /\ up /\ up' = up /\ net["a"] \in Seq(SshPackets)
  BY SshPeers DEF SshInvariant, SshMoves, SshTypes
<1>a. /\ SshTypes' /\ SshBoth' /\ ch'[q] = ch[q] /\ net'[p] = in /\ ch'[p].st = e.st
      /\ ch'[p].local = e.local
      /\ unanswered'[p] = w /\ unanswered'[q] = unanswered[q]
      /\ e.st = b.st \/ (b.st = "open" /\ e.st = "closed")
      /\ \E ms \in Seq(SshPackets) :
            /\ net'[q] = net[q] \o ms /\ \A i \in 1..Len(ms) : ms[i].t \in Channel!InTable
            /\ e.local = b.local + Channel!Bytes(ms, {"adjust"})
  <2>1. SshMoved(p, q, b, e, in, w)
    BY <1>0, SshStep
  <2> QED BY <2>1 DEF SshMoved
<1>1. /\ SshTypes' /\ SshBoth' /\ ch'["a"] = ch["a"] /\ net'["b"] = in /\ ch'["b"].st = e.st
      /\ ch'["b"].local = e.local
      /\ unanswered'["b"] = w /\ unanswered'["a"] = unanswered["a"]
      /\ e.st = b.st \/ (b.st = "open" /\ e.st = "closed")
      /\ \E ms \in Seq(SshPackets) :
            /\ net'["a"] = net["a"] \o ms /\ \A i \in 1..Len(ms) : ms[i].t \in Channel!InTable
            /\ e.local = b.local + Channel!Bytes(ms, {"adjust"})
  BY <1>a
<1>2. PICK ms \in Seq(SshPackets) :
         /\ net'["a"] = net["a"] \o ms /\ \A i \in 1..Len(ms) : ms[i].t \in Channel!InTable
         /\ e.local = b.local + Channel!Bytes(ms, {"adjust"})
  BY <1>1
<1>3. ch'["b"].st = "open"
  BY <1>1 DEF SshBoth, SshDir, SshHalf, SshFresh
<1>4. Channel!Bytes(net'["a"], {"adjust"}) = 0
  <2>1. Channel!Bytes(ms, {"adjust"}) \in Nat /\ Window \in Nat
    BY SshFinite, SshLimits
  <2>2. Channel!Bytes(ms, {"adjust"}) = 0
    BY <1>2, <2>1
  <2> QED BY <1>0, <1>2, <2>2, SshSum DEF SshHalf
<1>5. net'["a"] # <<>> /\ Head(net'["a"]) = Head(net["a"]) /\ Tail(net'["a"]) = Tail(net["a"]) \o ms
  <2>1. PICK s \in Seq(SshPackets) : s = net["a"] /\ s # <<>>
    BY <1>0 DEF SshHalf
  <2>2. s \o ms # <<>> /\ Head(s \o ms) = Head(s) /\ Tail(s \o ms) = Tail(s) \o ms
    BY <2>1, SshTail
  <2> QED BY <1>2, <2>1, <2>2
<1>6. Channel!Of(Tail(net'["a"]), SshHandshake) = {}
  <2>1. Tail(net["a"]) \in Seq(SshPackets) /\ Channel!Of(Tail(net["a"]), SshHandshake) = {}
    BY <1>0, SshSplit DEF SshHalf
  <2> QED BY <1>2, <1>5, <2>1, SshNoHandshake
<1>7. SshHalf'
  BY <1>1, <1>3, <1>4, <1>5, <1>6 DEF SshHalf, SshFresh
<1> QED BY <1>0, <1>1, <1>7 DEF SshInvariant
\* A step in which p receives nothing.
LEMMA SshOwn ==
    ASSUME SshInvariant, up, NEW p \in Channel!Peers, ch[p].st = "open", NEW e,
           SshSends(ch[p], e), e.local = ch[p].local, Channel!Becomes(p, e, net[p]),
           UNCHANGED <<unanswered, up>>
    PROVE  SshInvariant'
<1>1. PICK q \in Channel!Peers : q = Channel!Other(p) /\ q # p /\ Channel!Peers = {p, q}
  BY SshPeers
<1>2. SshTypes
  BY DEF SshInvariant
<1>3. PICK b \in SshChannels : b = ch[p] /\ b.out = <<>>
  BY <1>2 DEF SshTypes
<1>4. PICK in \in Seq(SshPackets) : in = net[p]
  BY <1>2 DEF SshTypes
<1>5. PICK w \in Nat : w = unanswered[p]
  BY <1>2 DEF SshTypes
<1>6. unanswered' = [unanswered EXCEPT ![p] = w]
  BY <1>2, <1>5 DEF SshTypes
<1>7. ASSUME SshBoth PROVE SshMoves(p, q, b, e, in, w)
  <2>1. SshDir(ch[p], ch[q], net[q], net[p], unanswered[q]) /\ SshDir(ch[q], ch[p], net[p], net[q], unanswered[p])
    BY <1>1, <1>7, SshPeers DEF SshBoth
  <2>2. SshDir(b, ch[q], net[q], in, unanswered[q]) /\ SshDir(ch[q], b, in, net[q], w)
    BY <1>3, <1>4, <1>5, <2>1
  <2>3. SshSends(b, e) /\ Channel!Becomes(p, e, in)
    BY <1>3, <1>4
  <2> QED BY <1>1, <1>3, <1>6, <2>2, <2>3 DEF SshMoves
<1>8. CASE SshShaken
  <2>1. SshMoves(p, q, b, e, in, w)
    BY <1>7, <1>8 DEF SshShaken
  <2>2. /\ b.st \in {"open", "closed"} /\ Channel!Of(in, SshHandshake) = {}
        /\ ch[q].st \in {"open", "closed"} /\ Channel!Of(net[q], SshHandshake) = {}
    BY <1>1, <1>3, <1>4, <1>8 DEF SshShaken
  <2> QED BY <2>1, <2>2, SshShakenStep
<1>9. CASE SshHalf
  <2>1. SshMoves(p, q, b, e, in, w)
    BY <1>7, <1>9 DEF SshHalf
  <2>2. p = "b" /\ q = "a"
    BY <1>1, <1>9, SshPeers DEF SshHalf
  <2>3. in = net["b"] /\ w = unanswered["b"] /\ b.st = "open" /\ b.local = Window /\ e.local = Window
    BY <1>3, <1>4, <1>5, <1>9, <2>2 DEF SshHalf
  <2> QED BY <1>9, <2>1, <2>2, <2>3, SshHalfStep
<1>10. ~SshEarly
  BY SshPeers DEF SshEarly
<1> QED BY <1>8, <1>9, <1>10 DEF SshInvariant

LEMMA SshAppSteps ==
    ASSUME SshInvariant, NEW p \in Channel!Peers,
           \/ Channel!AppCloses(p) \/ Channel!SendRequest(p)
           \/ \E n \in 1..MaxChannelBytes, extended \in BOOLEAN : Channel!AppWrites(p, n, extended)
    PROVE  SshInvariant'
<1>1. PICK c \in SshChannels : c = ch[p]
  BY DEF SshInvariant, SshTypes
<1>2. CASE Channel!AppCloses(p)
  <2>1. up /\ c.st = "open" /\ Channel!Becomes(p, Channel!LoseConnection(c), net[p]) /\ UNCHANGED <<unanswered, up>>
    BY <1>1, <1>2 DEF Channel!AppCloses, Channel!IsOpen
  <2>2. PICK e : e = Channel!LoseConnection(c) /\ SshSends(c, e) /\ e.local = c.local
    BY SshLose
  <2> QED BY <1>1, <2>1, <2>2, SshOwn
<1>3. CASE Channel!SendRequest(p)
  <2>1. PICK e : e = Channel!Send([c EXCEPT !.waits = @ + 1], <<Channel!Msg("request", 0)>>)
    OBVIOUS
  <2>2. /\ up /\ c.st = "open" /\ ~c.lc /\ Channel!Becomes(p, e, net[p])
        /\ UNCHANGED <<unanswered, up>>
    BY <1>1, <1>3, <2>1 DEF Channel!SendRequest, Channel!IsOpen
  <2>3. SshSends(c, e) /\ e.local = c.local
    BY <2>1, <2>2, SshRequest
  <2> QED BY <1>1, <2>2, <2>3, SshOwn
<1>4. ASSUME NEW n \in 1..MaxChannelBytes, NEW extended \in BOOLEAN, Channel!AppWrites(p, n, extended)
      PROVE  SshInvariant'
  <2>1. n \in Nat
    OBVIOUS
  <2>2. PICK e : /\ e = IF extended THEN Channel!WriteExtended(c, n) ELSE Channel!Write(c, n)
                 /\ SshSends(c, e) /\ e.local = c.local
    BY <2>1, SshWrite, SshWriteExtended
  <2>3. up /\ c.st = "open" /\ Channel!Becomes(p, e, net[p]) /\ UNCHANGED <<unanswered, up>>
    BY <1>1, <1>4, <2>2 DEF Channel!AppWrites, Channel!IsOpen
  <2> QED BY <1>1, <2>2, <2>3, SshOwn
<1> QED BY <1>2, <1>3, <1>4

\* A request is answered.
LEMMA SshAnswers ==
    ASSUME SshInvariant, NEW p \in Channel!Peers, Channel!AnswerRequest(p)
    PROVE  SshInvariant'
<1>1. PICK q \in Channel!Peers : q = Channel!Other(p) /\ q # p /\ Channel!Peers = {p, q}
  BY SshPeers
<1>2. SshTypes /\ up /\ up' = up /\ unanswered[p] > 0 /\ unanswered' = [unanswered EXCEPT ![p] = @ - 1]
  BY DEF SshInvariant, Channel!AnswerRequest
<1>3. SshShaken
  BY <1>2, SshPeers DEF SshInvariant, SshEarly, SshHalf
<1>4. PICK c \in SshChannels : c = ch[p] /\ c.out = <<>>
  BY <1>2 DEF SshTypes
<1>5. PICK d \in SshChannels : d = ch[q]
  BY <1>2 DEF SshTypes
<1>6. PICK s \in Seq(SshPackets) : s = net[q]
  BY <1>2 DEF SshTypes
<1>7. PICK t \in Seq(SshPackets) : t = net[p]
  BY <1>2 DEF SshTypes
<1>8. PICK u \in Nat : u = unanswered[q]
  BY <1>2 DEF SshTypes
<1>9. PICK v \in Nat : v = unanswered[p] /\ v > 0
  BY <1>2 DEF SshTypes
<1>10. SshDir(c, d, s, t, u) /\ SshDir(d, c, t, s, v)
  <2>1. /\ SshDir(ch[p], ch[q], net[q], net[p], unanswered[q])
        /\ SshDir(ch[q], ch[p], net[p], net[q], unanswered[p])
    BY <1>1, <1>3, SshPeers DEF SshShaken, SshBoth
  <2> QED BY <1>4, <1>5, <1>6, <1>7, <1>8, <1>9, <2>1
<1>11. unanswered' \in [Channel!Peers -> Nat] /\ unanswered'[p] = v - 1 /\ unanswered'[q] = u
  <2>1. PICK n \in Nat : n = v - 1
    BY <1>9
  <2>2. unanswered' = [unanswered EXCEPT ![p] = n]
    BY <1>2, <1>9, <2>1 DEF SshTypes
  <2> QED BY <1>1, <1>2, <1>8, <2>1, <2>2 DEF SshTypes
<1>12. ASSUME NEW e \in SshChannels, Channel!Becomes(p, e, t), e.st = c.st, e.lc = c.lc, e.rc = c.rc,
              e.left = c.left, e.local = c.local, e.waits = c.waits, e.out \in Seq(SshPackets),
              SshDir(c, d, s \o e.out, t, u), SshDir(d, c, t, s \o e.out, v - 1),
              Channel!Of(s \o e.out, SshHandshake) = {}
       PROVE  SshInvariant'
  <2>1. up' \in BOOLEAN
    BY <1>2 DEF SshTypes
  <2>2. /\ SshTypes' /\ ch'[p].st = e.st /\ ch'[p].lc = e.lc /\ ch'[p].rc = e.rc
        /\ ch'[p].left = e.left /\ ch'[p].local = e.local /\ ch'[p].waits = e.waits
        /\ ch'[q] = ch[q] /\ net'[p] = t /\ net'[q] = net[q] \o e.out
    <3>1. SshBecomes(p, e, t)
      BY <1>2, <1>11, <1>12, <2>1, SshBecame
    <3> QED BY <1>1, <3>1 DEF SshBecomes
  <2>3. SshDir(ch'[p], ch'[q], s \o e.out, t, u)
    BY <1>5, <1>12, <2>2, SshSame
  <2>4. SshDir(ch'[q], ch'[p], t, s \o e.out, v - 1)
    BY <1>5, <1>12, <2>2, SshSame
  <2>5. /\ SshDir(ch'[p], ch'[q], net'[q], net'[p], unanswered'[q])
        /\ SshDir(ch'[q], ch'[p], net'[p], net'[q], unanswered'[p])
    BY <1>6, <1>11, <2>2, <2>3, <2>4
  <2>6. SshBoth'
    <3>1. (p = "a" /\ q = "b") \/ (p = "b" /\ q = "a")
      BY <1>1, SshPeers
    <3> QED BY <2>5, <3>1 DEF SshBoth
  <2>7. /\ ch'[p].st \in {"open", "closed"} /\ ch'[q].st \in {"open", "closed"}
        /\ Channel!Of(net'[p], SshHandshake) = {} /\ Channel!Of(net'[q], SshHandshake) = {}
    BY <1>1, <1>3, <1>4, <1>6, <1>7, <1>12, <2>2 DEF SshShaken
  <2> QED BY <1>1, <1>2, <2>2, <2>6, <2>7 DEF SshInvariant, SshShaken
<1>13. Channel!Of(s, SshHandshake) = {}
  BY <1>1, <1>3, <1>6 DEF SshShaken
<1>14. CASE c.st = "open"
  <2>1. PICK m \in SshPackets : m = Channel!Msg("reply", 0) /\ m.t = "reply"
    BY SshMsg, SshLimits DEF SshKinds
  <2>2. <<m>> \in Seq(SshPackets)
    BY <2>1
  <2>3. PICK e : e = [c EXCEPT !.out = <<m>>]
    OBVIOUS
  <2>4. /\ e \in SshChannels /\ e.st = c.st /\ e.lc = c.lc /\ e.rc = c.rc /\ e.left = c.left
        /\ e.local = c.local /\ e.waits = c.waits /\ e.out = <<m>>
    BY <2>2, <2>3 DEF SshChannels
  <2>5. Channel!Becomes(p, e, t)
    BY <1>4, <1>7, <1>14, <2>1, <2>3 DEF Channel!AnswerRequest
  <2>6. SshDir(c, d, s \o <<m>>, t, u) /\ SshDir(d, c, t, s \o <<m>>, v - 1)
    BY <1>9, <1>10, <2>1, SshReplies
  <2>7. Channel!Of(s \o <<m>>, SshHandshake) = {}
    <3>1. Channel!Of(<<m>>, SshHandshake) = {}
      BY <2>1 DEF Channel!Of, SshHandshake
    <3>2. PICK n \in Seq(SshPackets) : n = <<m>>
      BY <2>2
    <3>3. \A j : j \in Channel!Of(s \o n, SshHandshake) <=>
             j \in Channel!Of(s, SshHandshake) \/ \E i \in Channel!Of(n, SshHandshake) : j = i + Len(s)
      BY SshOfConcat
    <3> QED BY <1>13, <3>1, <3>2, <3>3
  <2> QED BY <1>12, <2>2, <2>4, <2>5, <2>6, <2>7
<1>15. CASE c.st # "open"
  <2>1. Channel!Becomes(p, c, t)
    BY <1>4, <1>7, <1>15 DEF Channel!AnswerRequest
  <2>2. c.st = "closed"
    BY <1>3, <1>4, <1>15 DEF SshShaken
  <2>3. s \o c.out = s
    BY <1>4
  <2>4. SshDir(d, c, t, s, v - 1)
    BY <1>10, <2>2 DEF SshDir
  <2>5. c.out \in Seq(SshPackets)
    BY <1>4, SshEmpty
  <2> QED BY <1>10, <1>12, <1>13, <2>1, <2>3, <2>4, <2>5
<1> QED BY <1>14, <1>15

\* A packet that made the channel c into b, and what is sent because of it.
SshTakes(p, c, m, b, e, w) ==
    /\ p \in Channel!Peers /\ up /\ up' = up /\ net[p] # <<>> /\ c = ch[p] /\ m = Head(net[p])
    /\ b \in SshChannels /\ b.out = <<>> /\ SshSends(b, e)
    /\ Channel!Becomes(p, e, Tail(net[p])) /\ unanswered' = [unanswered EXCEPT ![p] = w]
    /\ w = unanswered[p] + (IF m.t = "request" THEN 1 ELSE 0)
    /\ b.lc = c.lc /\ (c.rc => b.rc) /\ (b.rc => c.rc \/ m.t = "close")
    /\ b.st = "closed" <=> c.st = "closed"
    /\ c.st = "closed" => b.waits = 0

SshWaits(c, d, m, b) ==
    (c.st # "closed" /\ d.st # "closed") => c.waits = b.waits + (IF m.t = "reply" THEN 1 ELSE 0)

SshLocal(c, d, m, b) ==
    (d.st = "open" /\ ~d.lc) => c.local = b.local + (IF m.t \in {"data", "ext"} THEN m.n ELSE 0)

SshLeft(c, m, b) ==
    (b.st = "open" /\ ~b.lc) => c.st = "open" /\ b.left = c.left + (IF m.t = "adjust" THEN m.n ELSE 0)

SshOpened(d, b, s, t) ==
    d.local = b.left + Channel!Bytes(s, {"data", "ext"}) + Channel!Bytes(Tail(t), {"adjust"})

LEMMA SshTaken ==
    ASSUME SshInvariant, SshBoth, NEW p, NEW q \in Channel!Peers, q = Channel!Other(p),
           NEW c, NEW d, d = ch[q], NEW m, NEW b, NEW e, NEW w, SshTakes(p, c, m, b, e, w),
           SshWaits(c, d, m, b), SshLocal(c, d, m, b),
           SshLeft(c, m, b) \/ SshOpened(d, b, net[q], net[p]),
           b.st \in {"open", "closed"}, d.st \in {"open", "closed"},
           Channel!Of(Tail(net[p]), SshHandshake) = {}, Channel!Of(net[q], SshHandshake) = {}
    PROVE  SshInvariant'
<1>1. /\ p \in Channel!Peers /\ up /\ up' = up /\ net[p] # <<>> /\ c = ch[p] /\ m = Head(net[p])
      /\ b \in SshChannels /\ b.out = <<>> /\ SshSends(b, e)
      /\ Channel!Becomes(p, e, Tail(net[p])) /\ unanswered' = [unanswered EXCEPT ![p] = w]
      /\ w = unanswered[p] + (IF m.t = "request" THEN 1 ELSE 0)
      /\ b.lc = c.lc /\ (c.rc => b.rc) /\ (b.rc => c.rc \/ m.t = "close")
      /\ b.st = "closed" <=> c.st = "closed"
      /\ c.st = "closed" => b.waits = 0
  BY DEF SshTakes
<1>2. SshTypes
  BY DEF SshInvariant
<1>3. c \in SshChannels /\ d \in SshChannels
  BY <1>1, <1>2 DEF SshTypes
<1>4. PICK s \in Seq(SshPackets) : s = net[q]
  BY <1>2 DEF SshTypes
<1>5. PICK t \in Seq(SshPackets) : t = net[p] /\ t # <<>>
  BY <1>1, <1>2 DEF SshTypes
<1>6. PICK u \in Nat : u = unanswered[q]
  BY <1>2 DEF SshTypes
<1>7. PICK v \in Nat : v = unanswered[p]
  BY <1>1, <1>2 DEF SshTypes
<1>8. PICK in \in Seq(SshPackets) : in = Tail(t)
  BY <1>5, SshSplit
<1>9. w \in Nat /\ w = v + (IF m.t = "request" THEN 1 ELSE 0)
  BY <1>1, <1>7
<1>10. SshDir(c, d, s, t, u) /\ SshDir(d, c, t, s, v)
  <2>1. /\ SshDir(ch[p], ch[q], net[q], net[p], unanswered[q])
        /\ SshDir(ch[q], ch[p], net[p], net[q], unanswered[p])
    BY <1>1, SshPeers DEF SshBoth
  <2> QED BY <1>1, <1>4, <1>5, <1>6, <1>7, <2>1
<1>11. (c.st # "closed" /\ d.st # "closed") => c.waits = b.waits + (IF m.t = "reply" THEN 1 ELSE 0)
  BY DEF SshWaits
<1>12. (d.st = "open" /\ ~d.lc) => c.local = b.local + (IF m.t \in {"data", "ext"} THEN m.n ELSE 0)
  BY DEF SshLocal
<1>13. (b.st = "open" /\ ~b.lc) =>
         \/ c.st = "open" /\ b.left = c.left + (IF m.t = "adjust" THEN m.n ELSE 0)
         \/ d.local = b.left + Channel!Bytes(s, {"data", "ext"}) + Channel!Bytes(Tail(t), {"adjust"})
  BY <1>4, <1>5 DEF SshLeft, SshOpened
<1>14. m = Head(t)
  BY <1>1, <1>5
<1>15. SshDir(b, d, s, in, u) /\ SshDir(d, b, in, s, w)
  <2>1. SshReceipt(c, d, m, b, s, t, u, v, w)
    BY <1>1, <1>3, <1>5, <1>9, <1>10, <1>11, <1>12, <1>13, <1>14 DEF SshReceipt
  <2> QED BY <1>8, <2>1, SshReceived
<1>16. SshMoves(p, q, b, e, in, w)
  <2>1. SshDir(b, ch[q], net[q], in, unanswered[q]) /\ SshDir(ch[q], b, in, net[q], w)
    BY <1>4, <1>6, <1>15
  <2>2. Channel!Becomes(p, e, in)
    BY <1>1, <1>5, <1>8
  <2> QED BY <1>1, <1>9, <2>1, <2>2 DEF SshMoves
<1>17. /\ b.st \in {"open", "closed"} /\ Channel!Of(in, SshHandshake) = {}
       /\ ch[q].st \in {"open", "closed"} /\ Channel!Of(net[q], SshHandshake) = {}
  BY <1>5, <1>8
<1> QED BY <1>16, <1>17, SshShakenStep

\* What p receives when the handshake is over.
LEMMA SshReceives ==
    ASSUME SshInvariant, SshShaken, NEW p \in Channel!Peers, Channel!Receive(p)
    PROVE  SshInvariant'
<1>1. PICK q \in Channel!Peers : q = Channel!Other(p) /\ q # p /\ Channel!Peers = {p, q}
  BY SshPeers
<1>2. SshTypes /\ up /\ up' = up /\ net[p] # <<>> /\ SshBoth
  BY DEF SshInvariant, Channel!Receive, SshShaken
<1>3. PICK c \in SshChannels : c = ch[p] /\ c.out = <<>>
  BY <1>2 DEF SshTypes
<1>4. PICK d \in SshChannels : d = ch[q]
  BY <1>2 DEF SshTypes
<1>5. PICK s \in Seq(SshPackets) : s = net[q]
  BY <1>2 DEF SshTypes
<1>6. PICK t \in Seq(SshPackets) : t = net[p] /\ t # <<>>
  BY <1>2 DEF SshTypes
<1>7. PICK m \in SshPackets : m = Head(t)
  BY <1>6, SshSplit
<1>8. m.t \in SshKinds /\ m.n \in Nat
  BY SshLimits DEF SshPackets
<1>9. PICK v \in Nat : v = unanswered[p]
  BY <1>2 DEF SshTypes
<1>10. SshDir(c, d, s, t, unanswered[q]) /\ SshDir(d, c, t, s, v)
  <2>1. /\ SshDir(ch[p], ch[q], net[q], net[p], unanswered[q])
        /\ SshDir(ch[q], ch[p], net[p], net[q], unanswered[p])
    BY <1>1, <1>2, SshPeers DEF SshBoth
  <2> QED BY <1>3, <1>4, <1>5, <1>6, <1>9, <2>1
<1>11. /\ c.st \in {"open", "closed"} /\ d.st \in {"open", "closed"}
       /\ Channel!Of(t, SshHandshake) = {} /\ Channel!Of(s, SshHandshake) = {}
  BY <1>1, <1>3, <1>4, <1>5, <1>6 DEF SshShaken
<1>12. /\ \A T : Channel!Of(t, T) = {} => Channel!Of(Tail(t), T) = {}
       /\ m.t \in Channel!InTable => ~c.rc /\ c.st # "closed"
       /\ m.t \in {"data", "ext"} => m.n <= MaxPacket
  BY <1>6, <1>7, <1>10, SshTake
<1>13. Channel!Of(Tail(t), SshHandshake) = {} /\ m.t \notin SshHandshake
  BY <1>6, <1>7, <1>11, <1>12, SshSplit
<1>14. c.st = "closed" => c.lc /\ c.rc /\ c.waits = 0
  BY <1>10 DEF SshDir
<1>15. PICK w \in Nat : w = v + (IF m.t = "request" THEN 1 ELSE 0)
  OBVIOUS
<1>16. unanswered' = [unanswered EXCEPT ![p] = w]
  <2>1. m.t = "request" => c.st = "open"
    BY <1>11, <1>12 DEF Channel!InTable
  <2> QED BY <1>2, <1>3, <1>6, <1>7, <1>9, <1>15, <2>1 DEF Channel!Receive, SshTypes
<1>17. ASSUME NEW b \in SshChannels, NEW e, SshSends(b, e), Channel!Becomes(p, e, Tail(net[p])),
              b.out = <<>>, b.lc = c.lc, b.st = c.st, c.rc => b.rc, b.rc => c.rc \/ m.t = "close",
              c.st = "closed" => b.waits = 0,
              SshWaits(c, d, m, b), SshLocal(c, d, m, b), SshLeft(c, m, b)
       PROVE  SshInvariant'
  <2>1. SshTakes(p, c, m, b, e, w)
    BY <1>2, <1>3, <1>6, <1>7, <1>9, <1>15, <1>16, <1>17 DEF SshTakes
  <2>2. /\ b.st \in {"open", "closed"} /\ Channel!Of(Tail(net[p]), SshHandshake) = {}
        /\ Channel!Of(net[q], SshHandshake) = {}
    BY <1>5, <1>6, <1>11, <1>13, <1>17
  <2> QED BY <1>1, <1>2, <1>4, <1>11, <1>17, <2>1, <2>2, SshTaken
<1>18. c.left \in Nat /\ c.local \in Nat /\ c.waits \in Nat /\ c.lc \in BOOLEAN /\ c.rc \in BOOLEAN
  BY DEF SshChannels
<1>19. CASE m.t \in {"data", "ext"}
  <2>1. c.st = "open" /\ ~c.rc /\ m.n <= MaxPacket
    BY <1>11, <1>12, <1>19 DEF Channel!InTable
  <2>2. Channel!Becomes(p, Channel!DataReceived(c, m.n), Tail(net[p]))
    BY <1>3, <1>6, <1>7, <1>19, <2>1 DEF Channel!Receive
  <2>3. CASE m.n > c.local
    <3>1. Channel!DataReceived(c, m.n) = Channel!SendClose(c)
      BY <2>3 DEF Channel!DataReceived
    <3>2. SshSends(c, Channel!SendClose(c))
      BY SshSendClose
    <3>3. ~(d.st = "open" /\ ~d.lc)
      <4> SUFFICES ASSUME d.st = "open", ~d.lc PROVE FALSE
        OBVIOUS
      <4>1. c.local = d.left + Channel!Bytes(t, {"data", "ext"}) + Channel!Bytes(s, {"adjust"})
        BY <1>10 DEF SshDir
      <4>2. PICK x \in Nat : x = Channel!Bytes(Tail(t), {"data", "ext"})
        BY <1>6, SshSplit, SshFinite
      <4>3. PICK y \in Nat : y = Channel!Bytes(s, {"adjust"})
        BY SshFinite
      <4>4. Channel!Bytes(t, {"data", "ext"}) = x + m.n
        BY <1>6, <1>7, <1>19, <4>2, SshSplit
      <4>5. PICK g \in Nat : g = d.left
        BY DEF SshChannels
      <4>6. PICK n \in Nat : n = m.n
        BY <1>8
      <4>7. c.local = g + (x + n) + y
        BY <4>1, <4>3, <4>4, <4>5, <4>6
      <4> QED BY <2>3, <4>6, <4>7
    <3>4. SshWaits(c, d, m, c) /\ SshLocal(c, d, m, c) /\ SshLeft(c, m, c)
      BY <1>18, <1>19, <2>1, <3>3 DEF SshWaits, SshLocal, SshLeft
    <3> QED BY <1>3, <1>14, <1>17, <2>2, <3>1, <3>2, <3>4
  <2>4. CASE ~(m.n > c.local)
    <3>1. PICK l \in Nat : l = c.local - m.n /\ c.local = l + m.n
      BY <1>8, <1>18, <2>4
    <3>2. PICK b : b = [c EXCEPT !.local = l]
      OBVIOUS
    <3>3. /\ b \in SshChannels /\ b.out = <<>> /\ b.lc = c.lc /\ b.rc = c.rc /\ b.st = c.st
          /\ b.waits = c.waits /\ b.left = c.left /\ b.local = l
      BY <1>3, <3>2 DEF SshChannels
    <3>4. b = [c EXCEPT !.local = @ - m.n]
      BY <3>1, <3>2 DEF SshChannels
    <3>5. ~(m.n > MaxPacket)
      BY <1>8, <2>1, ChannelParameters DEF Channel!SSHChannelAssumption
    <3>6. Channel!DataReceived(c, m.n) =
             IF b.local < Window \div 2 THEN Channel!AdjustWindow(b, Window - b.local) ELSE b
      BY <2>4, <3>4, <3>5 DEF Channel!DataReceived
    <3>7. SshSends(b, b)
      BY <3>3, SshQuiet
    <3>8. b.local < Window \div 2 => SshSends(b, Channel!AdjustWindow(b, Window - b.local))
      BY <3>3, SshAdjust
    <3>9. SshSends(b, Channel!DataReceived(c, m.n))
      BY <3>6, <3>7, <3>8
    <3>10. SshWaits(c, d, m, b) /\ SshLocal(c, d, m, b) /\ SshLeft(c, m, b)
      BY <1>18, <1>19, <2>1, <3>1, <3>3 DEF SshWaits, SshLocal, SshLeft
    <3> QED BY <1>14, <1>17, <2>2, <3>3, <3>9, <3>10
  <2> QED BY <2>3, <2>4
<1>20. CASE m.t = "adjust"
  <2>1. c.st = "open" /\ ~c.rc
    BY <1>11, <1>12, <1>20 DEF Channel!InTable
  <2>2. Channel!Becomes(p, Channel!AddWindowBytes(c, m.n), Tail(net[p]))
    BY <1>3, <1>6, <1>7, <1>20, <2>1 DEF Channel!Receive
  <2>3. PICK l \in Nat : l = c.left + m.n
    BY <1>8, <1>18
  <2>4. PICK b : b = [c EXCEPT !.left = l]
    OBVIOUS
  <2>5. /\ b \in SshChannels /\ b.out = <<>> /\ b.lc = c.lc /\ b.rc = c.rc /\ b.st = c.st
        /\ b.waits = c.waits /\ b.left = l /\ b.local = c.local
    BY <1>3, <2>4 DEF SshChannels
  <2>6. b = [c EXCEPT !.left = @ + m.n]
    BY <2>3, <2>4 DEF SshChannels
  <2>7. SshSends(b, Channel!AddWindowBytes(c, m.n))
    BY <1>8, <2>6, SshAddWindow
  <2>8. SshWaits(c, d, m, b) /\ SshLocal(c, d, m, b) /\ SshLeft(c, m, b)
    BY <1>18, <1>20, <2>1, <2>3, <2>5 DEF SshWaits, SshLocal, SshLeft
  <2> QED BY <1>14, <1>17, <2>2, <2>5, <2>7, <2>8
<1>21. CASE m.t = "close"
  <2>1. c.st = "open" /\ ~c.rc
    BY <1>11, <1>12, <1>21 DEF Channel!InTable
  <2>2. Channel!Becomes(p, Channel!CloseReceived(c), Tail(net[p]))
    BY <1>3, <1>6, <1>7, <1>21, <2>1 DEF Channel!Receive
  <2>3. PICK b : b = [c EXCEPT !.rc = TRUE]
    OBVIOUS
  <2>4. /\ b \in SshChannels /\ b.out = <<>> /\ b.lc = c.lc /\ b.rc = TRUE /\ b.st = c.st
        /\ b.waits = c.waits /\ b.left = c.left /\ b.local = c.local
    BY <1>3, <2>3 DEF SshChannels
  <2>5. SshSends(b, Channel!CloseReceived(c))
    BY <2>1, <2>3, SshCloseReceived
  <2>6. SshWaits(c, d, m, b) /\ SshLocal(c, d, m, b) /\ SshLeft(c, m, b)
    BY <1>18, <1>21, <2>1, <2>4 DEF SshWaits, SshLocal, SshLeft
  <2> QED BY <1>14, <1>17, <1>21, <2>2, <2>4, <2>5, <2>6
<1>22. CASE m.t = "reply"
  <2>1. PICK l \in Nat : l = IF c.waits = 0 THEN 0 ELSE c.waits - 1
    BY <1>18
  <2>2. PICK b : b = [c EXCEPT !.waits = l]
    OBVIOUS
  <2>3. /\ b \in SshChannels /\ b.out = <<>> /\ b.lc = c.lc /\ b.rc = c.rc /\ b.st = c.st
        /\ b.waits = l /\ b.left = c.left /\ b.local = c.local
    BY <1>3, <2>2 DEF SshChannels
  <2>4. b = [c EXCEPT !.waits = IF @ = 0 THEN 0 ELSE @ - 1]
    BY <2>1, <2>2 DEF SshChannels
  <2>5. Channel!Becomes(p, b, Tail(net[p]))
    BY <1>3, <1>6, <1>7, <1>22, <2>4 DEF Channel!Receive
  <2>6. SshSends(b, b)
    BY <2>3, SshQuiet
  <2>7. ASSUME c.st # "closed", d.st # "closed" PROVE c.waits > 0
    <3>1. c.waits = Channel!Count(s, {"request"}) + unanswered[q] + Channel!Count(t, {"reply"})
      BY <1>10, <2>7 DEF SshDir
    <3>2. PICK x \in Nat : x = Channel!Count(Tail(t), {"reply"})
      BY <1>6, SshSplit, SshFinite
    <3>3. Channel!Count(t, {"reply"}) = x + 1
      BY <1>6, <1>7, <1>22, <3>2, SshSplit
    <3>4. PICK y \in Nat : y = Channel!Count(s, {"request"})
      BY SshFinite
    <3>5. PICK z \in Nat : z = unanswered[q]
      BY <1>2 DEF SshTypes
    <3>6. c.waits = y + z + (x + 1)
      BY <3>1, <3>3, <3>4, <3>5
    <3> QED BY <3>6
  <2>8. SshWaits(c, d, m, b)
    BY <1>18, <1>22, <2>1, <2>3, <2>7 DEF SshWaits
  <2>9. SshLocal(c, d, m, b) /\ SshLeft(c, m, b)
    BY <1>18, <1>22, <2>3 DEF SshLocal, SshLeft
  <2>10. c.st = "closed" => b.waits = 0
    BY <1>14, <2>1, <2>3
  <2> QED BY <1>17, <2>3, <2>5, <2>6, <2>8, <2>9, <2>10
<1>23. CASE m.t = "request"
  <2>1. Channel!Becomes(p, c, Tail(net[p]))
    BY <1>3, <1>6, <1>7, <1>23 DEF Channel!Receive
  <2>2. SshSends(c, c)
    BY SshQuiet
  <2>3. SshWaits(c, d, m, c) /\ SshLocal(c, d, m, c) /\ SshLeft(c, m, c)
    BY <1>18, <1>23 DEF SshWaits, SshLocal, SshLeft
  <2> QED BY <1>3, <1>14, <1>17, <2>1, <2>2, <2>3
<1> QED BY <1>8, <1>13, <1>19, <1>20, <1>21, <1>22, <1>23 DEF SshKinds, SshHandshake

(***************************************************************************)
(* The handshake.                                                          *)
(***************************************************************************)
LEMMA SshStart ==
    ASSUME SshInvariant, Channel!OpenChannel PROVE SshInvariant'
<1>1. SshTypes /\ up /\ up' = up /\ ch["a"].st = "none" /\ UNCHANGED unanswered
  BY DEF SshInvariant, Channel!OpenChannel
<1>2. SshEarly /\ net["a"] = <<>> /\ net["b"] = <<>>
  BY <1>1, SshPeers DEF SshInvariant, SshEarly, SshHalf, SshShaken
<1>3. PICK c \in SshChannels : c = ch["a"] /\ c.out = <<>>
  BY <1>1, SshPeers DEF SshTypes
<1>4. PICK m \in SshPackets : m = Channel!Msg("open", Window)
  BY SshMsg, SshLimits DEF SshKinds
<1>5. <<m>> \in Seq(SshPackets)
  BY <1>4
<1>6. PICK e : e = [c EXCEPT !.st = "opening", !.out = <<m>>]
  OBVIOUS
<1>7. /\ e \in SshChannels /\ e.st = "opening" /\ e.lc = c.lc /\ e.rc = c.rc /\ e.left = c.left
      /\ e.local = c.local /\ e.waits = c.waits /\ e.out = <<m>>
  BY <1>5, <1>6 DEF SshChannels, SshStates
<1>8. e = Channel!Send([c EXCEPT !.st = "opening"], <<m>>)
  <2>1. PICK f : f = [c EXCEPT !.st = "opening"]
    OBVIOUS
  <2>2. ~f.lc /\ f.out = <<>> /\ <<>> \o <<m>> = <<m>>
    BY <1>2, <1>3, <1>5, <2>1 DEF SshEarly, SshFresh, SshChannels
  <2>3. Channel!Send(f, <<m>>) = [f EXCEPT !.out = <<m>>]
    BY <2>1, <2>2 DEF Channel!Send, SshChannels
  <2>4. [f EXCEPT !.out = <<m>>] = e
    BY <1>6, <2>1 DEF SshChannels
  <2> QED BY <2>1, <2>3, <2>4
<1>9. Channel!Becomes("a", e, net["a"])
  BY <1>3, <1>4, <1>8 DEF Channel!OpenChannel
<1>10. /\ SshTypes' /\ ch'["a"].st = "opening" /\ SshFresh(ch'["a"]) /\ ch'["b"] = ch["b"]
       /\ net'["a"] = net["a"] /\ net'["b"] = net["b"] \o <<m>>
  <2>1. PICK p \in Channel!Peers : p = "a" /\ Channel!Other(p) = "b"
    BY SshPeers
  <2>2. PICK in \in Seq(SshPackets) : in = net["a"]
    BY <1>1, SshPeers DEF SshTypes
  <2>3. unanswered' \in [Channel!Peers -> Nat] /\ up' \in BOOLEAN /\ Channel!Becomes(p, e, in)
    BY <1>1, <1>9, <2>1, <2>2 DEF SshTypes
  <2>4. SshBecomes(p, e, in)
    BY <1>1, <1>7, <2>3, SshBecame
  <2> QED BY <1>2, <1>3, <1>7, <2>1, <2>2, <2>4 DEF SshEarly, SshFresh, SshBecomes
<1>11. net'["b"] = <<m>>
  BY <1>2, <1>5, <1>10
<1>12. SshEarly'
  BY <1>1, <1>2, <1>4, <1>10, <1>11 DEF SshEarly
<1> QED BY <1>1, <1>10, <1>12 DEF SshInvariant

LEMMA SshRefused ==
    ASSUME SshInvariant, Channel!Refuse PROVE SshInvariant'
<1>1. /\ SshTypes /\ up /\ up' = up /\ net["b"] # <<>> /\ Head(net["b"]).t = "open"
      /\ UNCHANGED unanswered
  BY DEF SshInvariant, Channel!Refuse
<1>2. SshEarly /\ ch["a"].st = "opening" /\ net["a"] = <<>> /\ net["b"] = <<Channel!Msg("open", Window)>>
  <2>1. ~SshShaken
    <3>1. PICK t \in Seq(SshPackets) : t = net["b"] /\ t # <<>>
      BY <1>1, SshPeers DEF SshTypes
    <3>2. Head(t).t \in SshHandshake
      BY <1>1, <3>1 DEF SshHandshake
    <3>3. 1 \in Channel!Of(t, SshHandshake)
      BY <3>1, <3>2, SshSplit
    <3> QED BY <3>1, <3>3, SshPeers DEF SshShaken
  <2>2. ~SshHalf
    BY <1>1 DEF SshHalf
  <2> QED BY <1>1, <2>1, <2>2 DEF SshInvariant, SshEarly
<1>3. PICK c \in SshChannels : c = ch["b"] /\ c.out = <<>>
  BY <1>1, SshPeers DEF SshTypes
<1>4. PICK m \in SshPackets : m = Channel!Msg("openfail", 0)
  BY SshMsg, SshLimits DEF SshKinds
<1>5. <<m>> \in Seq(SshPackets)
  BY <1>4
<1>6. PICK e : e = [c EXCEPT !.out = <<m>>]
  OBVIOUS
<1>7. /\ e \in SshChannels /\ e.st = c.st /\ e.lc = c.lc /\ e.rc = c.rc /\ e.left = c.left
      /\ e.local = c.local /\ e.waits = c.waits /\ e.out = <<m>>
  BY <1>5, <1>6 DEF SshChannels
<1>8. PICK in \in Seq(SshPackets) : in = Tail(net["b"]) /\ in = <<>>
  <2>1. PICK x : x = Channel!Msg("open", Window)
    OBVIOUS
  <2>2. Tail(<<x>>) = <<>>
    OBVIOUS
  <2> QED BY <1>2, <2>1, <2>2, SshEmpty
<1>9. Channel!Becomes("b", e, in)
  BY <1>3, <1>4, <1>6, <1>8 DEF Channel!Refuse
<1>10. /\ SshTypes' /\ ch'["b"].st = "none" /\ SshFresh(ch'["b"]) /\ ch'["a"] = ch["a"]
       /\ net'["b"] = <<>> /\ net'["a"] = net["a"] \o <<m>>
  <2>1. PICK p \in Channel!Peers : p = "b" /\ Channel!Other(p) = "a"
    BY SshPeers
  <2>2. unanswered' \in [Channel!Peers -> Nat] /\ up' \in BOOLEAN /\ Channel!Becomes(p, e, in)
    BY <1>1, <1>9, <2>1 DEF SshTypes
  <2>3. SshBecomes(p, e, in)
    BY <1>1, <1>7, <2>2, SshBecame
  <2> QED BY <1>2, <1>3, <1>7, <1>8, <2>1, <2>3 DEF SshEarly, SshFresh, SshBecomes
<1>11. net'["a"] = <<m>>
  BY <1>2, <1>5, <1>10
<1>12. SshEarly'
  BY <1>1, <1>2, <1>4, <1>10, <1>11 DEF SshEarly
<1> QED BY <1>1, <1>10, <1>12 DEF SshInvariant

\* The first half of the handshake, or its end.
LEMMA SshReceivesEarly ==
    ASSUME SshInvariant, SshEarly, NEW p \in Channel!Peers, Channel!Receive(p)
    PROVE  SshInvariant'
<1>1. SshTypes /\ up /\ up' = up /\ net[p] # <<>>
  BY DEF SshInvariant, Channel!Receive
<1>2. PICK c \in SshChannels : c = ch[p] /\ c.out = <<>> /\ SshFresh(c)
  BY <1>1, SshPeers DEF SshTypes, SshEarly
<1>3. \/ p = "b" /\ net[p] = <<Channel!Msg("open", Window)>> /\ ch["a"].st = "opening" /\ net["a"] = <<>>
      \/ p = "a" /\ net[p] = <<Channel!Msg("openfail", 0)>> /\ net["b"] = <<>>
  BY <1>1, SshPeers DEF SshEarly
<1>4. unanswered' = [unanswered EXCEPT ![p] = 0]
  <2>1. Head(net[p]).t # "request"
    BY <1>3 DEF Channel!Msg
  <2>2. unanswered[p] = 0
    BY SshPeers DEF SshEarly
  <2> QED BY <1>1, <2>1, <2>2 DEF Channel!Receive, SshTypes
<1>5. unanswered' \in [Channel!Peers -> Nat] /\ unanswered'["a"] = 0 /\ unanswered'["b"] = 0 /\ up' \in BOOLEAN
  BY <1>1, <1>4, SshPeers DEF SshTypes, SshEarly
<1>6. PICK in \in Seq(SshPackets) : in = Tail(net[p]) /\ in = <<>>
  <2>1. PICK x : net[p] = <<x>>
    BY <1>3
  <2>2. Tail(<<x>>) = <<>>
    OBVIOUS
  <2> QED BY <2>1, <2>2, SshEmpty
<1>7. ASSUME NEW e \in SshChannels, Channel!Becomes(p, e, in)
      PROVE  SshBecomes(p, e, in)
  BY <1>1, <1>5, <1>7, SshBecame
<1>8. CASE p = "a"
  <2>1. Channel!Becomes(p, [c EXCEPT !.st = "failed"], in)
    BY <1>2, <1>3, <1>6, <1>8 DEF Channel!Receive, Channel!Msg
  <2>2. PICK e : e = [c EXCEPT !.st = "failed"]
    OBVIOUS
  <2>3. /\ e \in SshChannels /\ e.st = "failed" /\ e.lc = c.lc /\ e.rc = c.rc
        /\ e.local = c.local /\ e.waits = c.waits /\ e.out = <<>>
    BY <1>2, <2>2 DEF SshChannels, SshStates
  <2>4. /\ SshTypes' /\ ch'["a"].st = "failed" /\ SshFresh(ch'["a"]) /\ ch'["b"] = ch["b"]
        /\ net'["a"] = <<>> /\ net'["b"] = <<>> \o <<>>
    <3>1. /\ SshTypes' /\ ch'[p].st = e.st /\ ch'[p].lc = e.lc /\ ch'[p].rc = e.rc
          /\ ch'[p].left = e.left /\ ch'[p].local = e.local /\ ch'[p].waits = e.waits
          /\ ch'[Channel!Other(p)] = ch[Channel!Other(p)] /\ net'[p] = in
          /\ net'[Channel!Other(p)] = net[Channel!Other(p)] \o e.out
      <4>1. SshBecomes(p, e, in)
        BY <1>7, <2>1, <2>2, <2>3
      <4> QED BY <4>1 DEF SshBecomes
    <3>2. Channel!Other(p) = "b" /\ net["b"] = <<>>
      BY <1>3, <1>8, SshPeers
    <3>3. SshFresh(ch'[p])
      BY <1>2, <2>3, <3>1 DEF SshFresh
    <3> QED BY <1>6, <1>8, <2>3, <3>1, <3>2, <3>3
  <2>5. <<>> \o <<>> = <<>>
    BY SshEmpty
  <2>6. SshEarly'
    BY <1>5, <2>4, <2>5 DEF SshEarly
  <2> QED BY <1>1, <2>4, <2>6 DEF SshInvariant
<1>9. CASE p = "b"
  <2>1. PICK m \in SshPackets : m = Channel!Msg("confirm", Window) /\ m.t = "confirm"
    BY SshMsg, SshLimits DEF SshKinds
  <2>2. <<m>> \in Seq(SshPackets) /\ <<>> \o <<m>> = <<m>>
    BY <2>1
  <2>3. PICK f : f = [c EXCEPT !.st = "open", !.left = Window]
    OBVIOUS
  <2>4. PICK e : e = [f EXCEPT !.out = <<m>>]
    OBVIOUS
  <2>5. /\ e \in SshChannels /\ e.st = "open" /\ e.lc = c.lc /\ e.rc = c.rc /\ e.left = Window
        /\ e.local = c.local /\ e.waits = c.waits /\ e.out = <<m>>
    BY <2>2, <2>3, <2>4, SshLimits DEF SshChannels, SshStates
  <2>6. e = Channel!Send(f, <<m>>)
    <3>1. ~f.lc /\ f.out = <<>>
      BY <1>2, <2>3 DEF SshFresh, SshChannels
    <3> QED BY <2>2, <2>3, <2>4, <3>1 DEF Channel!Send, SshChannels
  <2>7. Channel!Becomes(p, e, in)
    <3>1. Head(net[p]).t = "open" /\ Head(net[p]).n = Window
      BY <1>3, <1>9 DEF Channel!Msg
    <3> QED BY <1>2, <1>6, <2>1, <2>3, <2>6, <3>1 DEF Channel!Receive
  <2>8. /\ SshTypes' /\ ch'["b"].st = "open" /\ ~ch'["b"].lc /\ ~ch'["b"].rc /\ ch'["b"].waits = 0
        /\ ch'["b"].local = Window /\ ch'["b"].left = Window /\ ch'["a"] = ch["a"]
        /\ net'["b"] = <<>> /\ net'["a"] = <<m>>
    <3>1. /\ SshTypes' /\ ch'[p].st = e.st /\ ch'[p].lc = e.lc /\ ch'[p].rc = e.rc
          /\ ch'[p].left = e.left /\ ch'[p].local = e.local /\ ch'[p].waits = e.waits
          /\ ch'[Channel!Other(p)] = ch[Channel!Other(p)] /\ net'[p] = in
          /\ net'[Channel!Other(p)] = net[Channel!Other(p)] \o e.out
      <4>1. SshBecomes(p, e, in)
        BY <1>7, <2>5, <2>7
      <4> QED BY <4>1 DEF SshBecomes
    <3>2. Channel!Other(p) = "a" /\ net["a"] = <<>>
      BY <1>3, <1>9, SshPeers
    <3>3. SshFresh(ch'[p])
      BY <1>2, <2>5, <3>1 DEF SshFresh
    <3>4. net'["a"] = <<m>>
      BY <2>2, <2>5, <3>1, <3>2
    <3> QED BY <1>6, <1>9, <2>5, <3>1, <3>2, <3>3, <3>4 DEF SshFresh
  <2>9. \A T : /\ Channel!Count(<<m>>, T) = IF m.t \in T THEN 1 ELSE 0
               /\ Channel!Bytes(<<m>>, T) = IF m.t \in T THEN m.n ELSE 0
    BY SshOne
  <2>10. /\ Channel!Count(<<m>>, {"reply"}) = 0 /\ Channel!Count(<<m>>, {"request"}) = 0
         /\ Channel!Bytes(<<m>>, {"data", "ext"}) = 0 /\ Channel!Bytes(<<m>>, {"adjust"}) = 0
    BY <2>1, <2>9
  <2>11. Len(<<m>>) = 1 /\ <<m>>[1] = m /\ 1..1 = {1}
    OBVIOUS
  <2>12. Channel!Of(<<m>>, {"close"}) = {} /\ SshOrder(<<m>>) /\ SshSmall(<<m>>)
    BY <2>1, <2>11 DEF Channel!Of, SshOrder, SshSmall
  <2>13. ch["a"].st = "opening" /\ SshFresh(ch["a"])
    BY <1>3, <1>9 DEF SshEarly
  <2>14. SshDir(ch'["a"], ch'["b"], <<>>, <<m>>, 0)
    BY <2>8, <2>10, <2>13, SshEmpty DEF SshDir, SshFresh
  <2>15. SshDir(ch'["b"], ch'["a"], <<m>>, <<>>, 0)
    BY <2>8, <2>10, <2>12, <2>13, SshEmpty, SshLimits DEF SshDir, SshFresh
  <2>16. SshBoth'
    BY <1>5, <2>8, <2>14, <2>15 DEF SshBoth
  <2>17. <<m>> # <<>> /\ Head(<<m>>) = m /\ Tail(<<m>>) = <<>>
    OBVIOUS
  <2>18. SshHalf'
    BY <1>5, <2>1, <2>8, <2>10, <2>13, <2>16, <2>17, SshEmpty DEF SshHalf
  <2> QED BY <1>1, <2>8, <2>18 DEF SshInvariant
<1> QED BY <1>8, <1>9, SshPeers

\* The second half.
LEMMA SshReceivesHalf ==
    ASSUME SshInvariant, SshHalf, NEW p \in Channel!Peers, Channel!Receive(p)
    PROVE  SshInvariant'
<1>1. SshTypes /\ up /\ up' = up /\ net[p] # <<>> /\ SshBoth
  BY DEF SshInvariant, Channel!Receive, SshHalf
<1>2. p = "a"
  BY <1>1, SshPeers DEF SshHalf
<1>3. PICK q \in Channel!Peers : q = Channel!Other(p) /\ q = "b"
  BY <1>2, SshPeers
<1>4. PICK c \in SshChannels : c = ch[p] /\ c.out = <<>> /\ SshFresh(c) /\ c.st = "opening"
  BY <1>1, <1>2 DEF SshTypes, SshHalf
<1>5. PICK d \in SshChannels : d = ch[q] /\ d.st = "open" /\ d.local = Window
  BY <1>1, <1>3 DEF SshTypes, SshHalf
<1>6. PICK t \in Seq(SshPackets) : t = net[p] /\ t # <<>>
  BY <1>1 DEF SshTypes
<1>7. PICK m \in SshPackets : m = Head(t) /\ m.t = "confirm" /\ m.n = Window
  <2>1. Head(t) \in SshPackets /\ Head(t) = Channel!Msg("confirm", Window)
    BY <1>2, <1>6, SshSplit DEF SshHalf
  <2> QED BY <2>1 DEF Channel!Msg
<1>8. PICK w \in Nat : w = 0
  OBVIOUS
<1>9. unanswered[p] = 0 /\ unanswered' = [unanswered EXCEPT ![p] = w]
  <2>1. unanswered[p] = 0
    BY <1>2 DEF SshHalf
  <2>2. Head(net[p]).t # "request"
    BY <1>6, <1>7
  <2>3. unanswered' = [unanswered EXCEPT ![p] = 0]
    BY <1>1, <2>1, <2>2 DEF Channel!Receive, SshTypes
  <2> QED BY <1>8, <2>1, <2>3
<1>10. PICK b : b = [c EXCEPT !.st = "open", !.left = Window]
  OBVIOUS
<1>11. /\ b \in SshChannels /\ b.out = <<>> /\ b.lc = c.lc /\ b.rc = c.rc /\ b.st = "open"
       /\ b.waits = c.waits /\ b.left = Window /\ b.local = c.local
  BY <1>4, <1>10, SshLimits DEF SshChannels, SshStates
<1>12. Channel!Becomes(p, b, Tail(net[p]))
  BY <1>4, <1>6, <1>7, <1>10 DEF Channel!Receive
<1>13. SshSends(b, b)
  BY <1>11, SshQuiet
<1>14. SshTakes(p, c, m, b, b, w)
  BY <1>1, <1>4, <1>6, <1>7, <1>8, <1>9, <1>11, <1>12, <1>13 DEF SshTakes
<1>15. c.waits \in Nat /\ c.local \in Nat
  BY DEF SshChannels
<1>16. SshWaits(c, d, m, b) /\ SshLocal(c, d, m, b)
  BY <1>7, <1>11, <1>15 DEF SshWaits, SshLocal
<1>17. SshOpened(d, b, net[q], net[p])
  <2>1. net[q] = <<>> /\ Channel!Bytes(t, {"adjust"}) = 0
    BY <1>2, <1>3, <1>6 DEF SshHalf
  <2>2. Channel!Bytes(net[q], {"data", "ext"}) = 0
    BY <2>1, SshEmpty
  <2>3. PICK x \in Nat : x = Channel!Bytes(Tail(t), {"adjust"})
    BY <1>6, SshSplit, SshFinite
  <2>4. Channel!Bytes(t, {"adjust"}) = x + 0
    BY <1>6, <1>7, <2>3, SshSplit
  <2>5. Channel!Bytes(Tail(net[p]), {"adjust"}) = 0
    BY <1>6, <2>1, <2>3, <2>4
  <2> QED BY <1>5, <1>11, <2>2, <2>5, SshLimits DEF SshOpened
<1>18. Channel!Of(Tail(net[p]), SshHandshake) = {} /\ Channel!Of(net[q], SshHandshake) = {}
  BY <1>2, <1>3, SshEmpty DEF SshHalf
<1> QED BY <1>1, <1>3, <1>5, <1>11, <1>14, <1>16, <1>17, <1>18, SshTaken

-------------------------------------------------------------------------------
LEMMA SshInit == Channel!Init => SshInvariant
<1> SUFFICES ASSUME Channel!Init PROVE SshInvariant
  OBVIOUS
<1>1. PICK c : c = Channel!New
  OBVIOUS
<1>2. /\ c \in SshChannels /\ c.out = <<>> /\ c.st = "none" /\ SshFresh(c)
  BY <1>1, SshEmpty, SshLimits DEF Channel!New, SshChannels, SshStates, SshFresh
<1>3. /\ ch = [p \in Channel!Peers |-> c] /\ net = [p \in Channel!Peers |-> <<>>]
      /\ unanswered = [p \in Channel!Peers |-> 0] /\ up = TRUE
  BY <1>1 DEF Channel!Init
<1>4. SshTypes
  BY <1>2, <1>3, SshEmpty DEF SshTypes
<1>5. SshEarly
  BY <1>2, <1>3, SshPeers DEF SshEarly
<1> QED BY <1>3, <1>4, <1>5 DEF SshInvariant

LEMMA SshStops ==
    ASSUME SshInvariant, Channel!ServiceStopped PROVE SshInvariant'
<1>1. /\ SshTypes /\ up /\ up' = FALSE /\ net' = [p \in Channel!Peers |-> <<>>]
      /\ UNCHANGED unanswered
      /\ ch' = [p \in Channel!Peers |-> IF ch[p].st = "opening" THEN [ch[p] EXCEPT !.st = "failed"]
                                        ELSE Channel!ChannelClosed(ch[p])]
  BY DEF SshInvariant, Channel!ServiceStopped
<1>2. ASSUME NEW p \in Channel!Peers
      PROVE  /\ ch'[p] \in SshChannels /\ ch'[p].out = <<>>
             /\ ch'[p].st \in {"none", "closed", "failed"}
             /\ ch'[p].st = "closed" => ch'[p].waits = 0
  <2>1. PICK c \in SshChannels : c = ch[p] /\ c.out = <<>>
    BY <1>1 DEF SshTypes
  <2>2. ch'[p] = IF c.st = "opening" THEN [c EXCEPT !.st = "failed"]
                 ELSE IF c.st = "open"
                      THEN [c EXCEPT !.st = "closed", !.lc = TRUE, !.rc = TRUE, !.waits = 0]
                      ELSE c
    BY <1>1, <2>1 DEF Channel!ChannelClosed
  <2>3. c.st = "closed" => c.waits = 0
    <3>1. SshEarly => c.st # "closed"
      BY <2>1, SshPeers DEF SshEarly
    <3>2. SshBoth => (c.st = "closed" => c.waits = 0)
      BY <2>1, SshPeers DEF SshBoth, SshDir
    <3> QED BY <1>1, <3>1, <3>2 DEF SshInvariant, SshHalf, SshShaken
  <2>4. CASE c.st = "opening"
    BY <2>1, <2>2, <2>4 DEF SshChannels, SshStates
  <2>5. CASE c.st = "open"
    <3>1. PICK d : d = [c EXCEPT !.st = "closed", !.lc = TRUE, !.rc = TRUE, !.waits = 0]
      OBVIOUS
    <3>2. d \in SshChannels /\ d.out = c.out /\ d.st = "closed" /\ d.waits = 0
      BY <3>1 DEF SshChannels, SshStates
    <3> QED BY <2>1, <2>2, <2>5, <3>1, <3>2
  <2>6. CASE c.st \notin {"opening", "open"}
    BY <2>1, <2>2, <2>3, <2>6 DEF SshChannels, SshStates
  <2> QED BY <2>4, <2>5, <2>6
<1>3. ch' \in [Channel!Peers -> SshChannels]
  BY <1>1, <1>2
<1>4. net' \in [Channel!Peers -> Seq(SshPackets)] /\ \A p \in Channel!Peers : net'[p] = <<>>
  BY <1>1, SshEmpty
<1>5. SshTypes'
  BY <1>1, <1>2, <1>3, <1>4 DEF SshTypes
<1>6. SshDown'
  BY <1>2, <1>4 DEF SshDown
<1> QED BY <1>1, <1>5, <1>6 DEF SshInvariant

LEMMA SshNext == SshInvariant /\ [Channel!Next]_(Channel!sshVars) => SshInvariant'
<1> SUFFICES ASSUME SshInvariant, [Channel!Next]_(Channel!sshVars) PROVE SshInvariant'
  OBVIOUS
<1>1. CASE Channel!OpenChannel
  BY <1>1, SshStart
<1>2. CASE Channel!Refuse
  BY <1>2, SshRefused
<1>3. CASE Channel!ServiceStopped
  BY <1>3, SshStops
<1>4. ASSUME NEW p \in Channel!Peers,
             \/ Channel!AppCloses(p) \/ Channel!SendRequest(p)
             \/ \E n \in 1..MaxChannelBytes, extended \in BOOLEAN : Channel!AppWrites(p, n, extended)
      PROVE  SshInvariant'
  BY <1>4, SshAppSteps
<1>5. ASSUME NEW p \in Channel!Peers, Channel!AnswerRequest(p) PROVE SshInvariant'
  BY <1>5, SshAnswers
<1>6. ASSUME NEW p \in Channel!Peers, Channel!Receive(p) PROVE SshInvariant'
  <2>1. SshEarly \/ SshHalf \/ SshShaken
    BY <1>6 DEF Channel!Receive, SshInvariant
  <2> QED BY <1>6, <2>1, SshReceivesEarly, SshReceivesHalf, SshReceives
<1>7. CASE UNCHANGED Channel!sshVars
  <2>1. UNCHANGED <<ch, net, unanswered, up>>
    BY <1>7 DEF Channel!sshVars
  <2> QED BY <2>1 DEF SshInvariant, SshTypes, SshEarly, SshHalf, SshShaken, SshBoth, SshDown
<1> QED BY <1>1, <1>2, <1>3, <1>4, <1>5, <1>6, <1>7 DEF Channel!Next

LEMMA SshSound == SshInvariant => ChannelIsSound
<1> SUFFICES ASSUME SshInvariant, NEW p \in Channel!Peers, NEW q \in Channel!Peers, q = Channel!Other(p)
             PROVE  /\ Channel!WindowsAgree(p, q) /\ Channel!RepliesMatch(p, q)
                    /\ Channel!Of(net[p], Channel!InTable) # {} => ch[p].st \in {"opening", "open"}
                    /\ ch[p].st = "closed" => ch[p].waits = 0 /\ (up => ch[q].lc)
                    /\ ~up => ch[p].st \in {"none", "closed", "failed"}
  BY SshPeers DEF ChannelIsSound, Channel!ChannelIsSound
<1>1. CASE ~up
  <2>1. /\ ch[p].st \in {"none", "closed", "failed"} /\ net[p] = <<>>
        /\ ch[p].st = "closed" => ch[p].waits = 0
    BY <1>1 DEF SshInvariant, SshDown
  <2>2. Channel!Of(net[p], Channel!InTable) = {}
    BY <2>1, SshEmpty
  <2> QED BY <1>1, <2>1, <2>2 DEF Channel!WindowsAgree, Channel!RepliesMatch
<1>2. CASE up /\ SshEarly
  <2>1. ch[p].st \in {"none", "failed", "opening"}
    BY <1>2, SshPeers DEF SshEarly
  <2>2. Channel!Of(net[p], Channel!InTable) = {}
    <3>1. net[p] = <<>> \/ \E x : net[p] = <<x>> /\ x.t \in {"open", "openfail"}
      BY <1>2, SshPeers DEF SshEarly, Channel!Msg
    <3>2. ASSUME NEW x, x.t \in {"open", "openfail"} PROVE Channel!Of(<<x>>, Channel!InTable) = {}
      BY <3>2 DEF Channel!Of, Channel!InTable
    <3> QED BY <3>1, <3>2, SshEmpty
  <2> QED BY <1>2, <2>1, <2>2 DEF Channel!WindowsAgree, Channel!RepliesMatch
<1>3. CASE up /\ (SshHalf \/ SshShaken)
  <2>1. /\ SshDir(ch[p], ch[q], net[q], net[p], unanswered[q])
        /\ SshDir(ch[q], ch[p], net[p], net[q], unanswered[p])
    BY <1>3, SshPeers DEF SshHalf, SshShaken, SshBoth
  <2>2. ch[p].st \in {"opening", "open", "closed"}
    BY <1>3, SshPeers DEF SshHalf, SshShaken
  <2>3. Channel!WindowsAgree(p, q) /\ Channel!RepliesMatch(p, q)
    BY <2>1 DEF SshDir, Channel!WindowsAgree, Channel!RepliesMatch
  <2>4. ch[p].st = "closed" => /\ ch[p].waits = 0 /\ ch[q].lc
                              /\ Channel!Of(net[p], Channel!InTable) = {}
    BY <2>1 DEF SshDir
  <2> QED BY <1>3, <2>2, <2>3, <2>4
<1> QED BY <1>1, <1>2, <1>3 DEF SshInvariant

(***************************************************************************)
(* Whatever the two applications write, ask and close, and whenever the    *)
(* connection is lost: SSHConnection's windows agree with what is under    *)
(* way, every reply finds the Deferred of its request and every packet its *)
(* channel, and no Deferred outlives its channel.  For every window and    *)
(* every size of packets.                                                  *)
(***************************************************************************)
THEOREM ChannelIsAlwaysSound == Channel!Spec => []ChannelIsSound
<1>1. Channel!Spec => []SshInvariant
  BY SshInit, SshNext, PTL DEF Channel!Spec
<1> QED BY <1>1, SshSound, PTL
===============================================================================
