# TLA+ models of Twisted's core

This directory holds TLA+ modules that model the core of Twisted (`src/src/twisted`), the TLC
configurations that check them on small instances, and TLAPS proofs of theorems that hold for every
instance. File names below are relative to `src/src/twisted`.

1. [The system and its parts](#1-the-system-and-its-parts)
2. [How the modules correspond to the code](#2-how-the-modules-correspond-to-the-code)
3. [What the runs check and show](#3-what-the-runs-check-and-show)
4. [Bounds](#4-bounds)
5. [Fairness](#5-fairness)
6. [What is proved](#6-what-is-proved)
7. [Only model-checked](#7-only-model-checked)
8. [Where code and documentation disagree](#8-where-code-and-documentation-disagree)
9. [Not modelled](#9-not-modelled)
10. [Plan](#10-plan)

## 1. The system and its parts

Twisted runs an application in one thread, the reactor's. The reactor waits for descriptors and for
time, and calls the application back; results that are not there yet are `Deferred`s, to which
callbacks are added. Work that blocks goes to a pool of threads, whose results come back to the
reactor's thread. Everything else in the repository (transports, protocols, services) is built from
these parts.

| Part | State | Operations | Talks to | What is hard | What makes it correct |
|---|---|---|---|---|---|
| **Deferred** (`internet/defer.py`) | `called`, `result`, `paused`, `callbacks`, `_chainedTo`, `_suppressAlreadyCalled`, `_runningCallbacks`, the recorded Failure | addCallbacks and relatives, chainDeferred, callback, errback, pause, unpause, cancel | every other part; calls application code in the middle of its loop | re-entrancy; chains that wait for each other; cancellation racing a late result | no waiter is lost or resumed twice; pauses balance; callbacks do not nest; a late result is swallowed once; the recorded Failure is the one at hand |
| **DeferredSemaphore, DeferredLock, DeferredQueue** (`internet/defer.py`) | tokens / locked, waiting, pending | acquire, release, put, get, cancellers | Deferred | cancelled waiters; callbacks that re-enter | tokens are conserved, first come first served, nobody waits in vain |
| **DelayedCall and the reactor's timers** (`internet/base.py`) | `_newTimedCalls`, the heap, `_cancellations`; per call time, delayed_time, cancelled, called | callLater, cancel, reset, delay, runUntilCurrent, timeout | the main loop | calls change their key while in the heap; lazy deletion; how long to sleep | the heap is one; no call lost, early or slept over |
| **callFromThread** (`internet/base.py`, `internet/posixbase.py`) | `threadCallQueue`, the waker's pipe | callFromThread, wakeUp, doRead, runUntilCurrent | threads, the pool, signal handlers | an unlocked list that grows while it is iterated; lost wakeups; a full pipe | nothing lost, repeated or reordered; the reactor wakes |
| **Reactor lifecycle** (`internet/base.py`) | `_started`, `_stopped`, `_justStopped`, `_startedBefore`, `running`; the triggers and state of each event | run, stop, crash, callWhenRunning, add/removeSystemEventTrigger | Deferred (DeferredList), all services | events suspended by Deferreds, triggers changed meanwhile, stop and crash from anywhere | shutdown happens once and completely; phases wait; run() returns |
| **LockWorker, ThreadWorker** (`_threads/_threadworker.py`) | quit flag, lock, thread-local list; queue | do, quit | Team | threads between a check and its use; re-entrant do | exclusive, once, and only if accepted |
| **Team, ThreadPool** (`_threads/_team.py`, `_pool.py`, `python/threadpool.py`) | `_idle`, `_busyCount`, `_pending`, `_toShrink`, `_shouldQuitCoordinator`; min, max, threads | callInThread, start, stop, adjustPoolsize, startAWorker, stopAWorker | the workers; callFromThread for results | quit racing work in flight; shrinking; counters read without a lock | bookkeeping true, tasks run once, stop() leaves nothing |
| **LoopingCall** (`internet/task.py`) | `running`, `call`, `_runAtStart`, `_realLastTime`, the Deferred of start() | start, stop, reset, the call and its Deferred | delayed calls, Deferred | stop and restart while a call or its Deferred is under way | a loop that has not ended is carried on by exactly one thing: a delayed call, a running call or a Deferred |
| **Cooperator** (`internet/task.py`) | `_tasks`, `_metarator`, `_delayedCall`, `_stopped`; per task pause count, completion state, whenDone Deferreds | cooperate, pause, resume, stop, start, `_tick` | delayed calls, Deferred | iterators that add, pause and stop tasks while the list is being iterated | every runnable task gets its turn; the next tick is scheduled |
| **FilesystemLock, DeferredFilesystemLock** (`python/lockfile.py`, `internet/defer.py`) | a symbolic link; `locked`, `_tryLockCall`, `_timeoutCall`, `_deferred` | lock, unlock; deferUntilLocked | the file system; delayed calls | dead owners, races between system calls, timeouts | who holds the lock owns the link; an attempt is driven until it ends |
| **DirDBM** (`persisted/dirdbm.py`) | files, `.new` and `.rpl` files | assignment, deletion, recovery | the file system | a crash between two system calls | an atomic map |
| **FileDescriptor, Connection** (`internet/abstract.py`, `internet/tcp.py`) | the two buffers, producer and its flags, `disconnecting`, `_writeDisconnecting`, `connected` | write, loseConnection, loseWriteConnection, abortConnection, (un)registerProducer, pause, resume, doWrite, doRead | the reactor's reader and writer sets | closing, producers and the last bytes in any order | whatever is due is registered with the reactor; loseConnection closes |
| **Connector, ReconnectingClientFactory** (`internet/base.py`, `internet/protocol.py`) | `state`, `timeoutID`, `transport`, `factoryStarted`; `retries`, `_callID`, `continueTrying` | connect, stopConnecting, disconnect, the outcomes of an attempt, retry, stopTrying, resetDelay | transports, delayed calls | the factory connects again from inside its own notification | state, transport, timers and the factory's start count agree |
| **ClientService** (`application/internet.py`) | the machine's state, `_currentConnection`, `_awaitingConnected`, `_stopWaiters`, the retry call | startService, stopService, whenConnected, outcomes of attempts and of prepareConnection | endpoints, delayed calls | every input in every state | always on its way to a connection or to being stopped |
| **HTTP client** (`web/client.py`, `web/_newclient.py`) | the pool's `_connections` and `_timeouts`; the protocol's state, parser and Deferreds | request, response, body, loss, abort, timeouts, retries | transports, delayed calls, Deferred | a cached connection's timeout against its reuse and loss | an idle connection is cached exactly once; each request gets an answer |
| **SSH channels** (`conch/ssh/channel.py`, `conch/ssh/connection.py`) | windows, buffers, `closing`, `localClosed`, `remoteClosed`, waiting request Deferreds | open, write, requests, loseConnection, close, loss | the transport | both ends close, write and adjust at the same time | the ends agree on windows and bytes; a close completes |
| **DNS resolver client** (`names/client.py`) | `_waiting`, `connections`, `pending`, `index` | look-ups, UDP queries and reissues, TCP after truncation, cancellation | UDP and TCP transports, delayed calls | shared queries, timeouts against late answers, a lost TCP connection | every look-up that waits waits for a query that is under way |
| **HTTP server** (`web/http.py`, with LineReceiver of `protocols/basic.py` and TimeoutMixin of `protocols/policies.py`) | the line buffer and mode, `requests`, `_handlingRequest`, `_dataBuffer`, `persistent`, `_waitingForTransport`, `_savedTimeOut`, `_abortingCall`, the response's producer | dataReceived and its loop, write, finish, (un)registerProducer, loseConnection, pause, resume, timeouts, loss | a TCP transport, delayed calls, the application's `process` | pipelined requests in pieces of any size, answered inside or after `process`; reading is paused for two reasons and resumed by two events | requests one at a time; reading, producers and timers always wait for something that will come |
| **TLS** (`protocols/tls.py`) | `_handshakeDone`, `_appSendBuffer`, `_lostTLSConnection`, `_aborted`, `disconnecting`, `_producer` and its membrane | write, loseConnection, abortConnection, (un)registerProducer, dataReceived, loss | OpenSSL, a TCP transport, `_PullToPush` | writes and closes before, inside and after handshakes, also those in mid-connection | what is buffered, paused or closing waits for something that will come; bytes in order |

The other components of the repository are listed in `PROJECT.json` with what is planned for them or
why they are left out; see also sections 9 and 10. `PROJECT.json` also lists the hazards, each with its
line and the properties that would notice.

## 2. How the modules correspond to the code

`PROJECT.json` maps every definition to its lines. Comments in the modules explain the choices.

### Deferred.tla

The class is single-threaded but re-entrant: a callback is application code and may call any method of
any Deferred, the one that is running it included, before it returns. The module therefore models the
Python call stack: a frame is an activation of `_runCallbacks`, with its local `chain`, or of `cancel`,
and every loop iteration, every call out to the application and every return is a step of its own.

| Model | Code |
|---|---|
| `Call` | `callback`, `errback`, `_startRunCallbacks` |
| `AddCallbacks`, `ChainDeferred` | `addCallbacks`, `chainDeferred` |
| `Pause`, `Unpause` | `pause`, `unpause` |
| `Cancel`, `CancelWithoutCanceller`, `CallCanceller`, `CancellerReturns`, `CancellerRaises`, `ForwardCancel` | `cancel` |
| `OuterLoop`, `Finished`, `HandOver`, `CallUser`, `UserReturns...`, `CallChained`, `ChainedReturns` | `_runCallbacks` |

Results are abstracted to "a value", "a Failure" or "the Deferred d"; what a callback computes is a
nondeterministic choice among them.

### DeferredSemaphore.tla, DeferredLock.tla, DeferredQueue.tla

Each operation is one action: the classes settle their own state before they call a Deferred back, so
a re-entrant call sees what a later call would see. `DeferredLock` instantiates `DeferredSemaphore` with
one token and is shown to implement it. `run()` is an acquire whose release is attached with addBoth.

### TimedCalls.tla

One thread goes round runUntilCurrent, timeout and the poll; the application has control in the event
handlers and inside each call. `heap` is the list itself, with the parent moves of
`_moveCallLaterSooner` and `heappush` (`WayUp` has the places the loop may come to, `Resting` the one where it ends);
of `heappop` and `heapify` only what heapq promises is used: some
heap of the right elements. The clock does not go backwards.

### ThreadCalls.tla

Threads append and then write a byte (two steps); the reactor polls, reads, and goes through the list
one call at a time while threads append. A full pipe swallows the byte. A poll may also end for another
reason, or be interrupted although the pipe is readable.

### ReactorLifecycle.tla

The flags, the loop, and a stack of the activations of `fireEvent` and `_continueFiring`. `waits` holds
the DeferredLists of suspended firings; the last Deferred to fire resumes the event inside whoever fired
it. The reactor's own triggers (`_reallyStartRunning`, `crash`, `disconnectAll`) are in the same lists
as the application's.

### ExclusiveWorker.tla, LockWorker.tla, ThreadWorker.tla

`ExclusiveWorker` is the abstract specification of `IExclusiveWorker` (`_threads/_ithreads.py`): work is
accepted, begun and ended, one at a time, each once, and none is accepted after quit. LockWorker and
ThreadWorker are cut at every point where another thread can intervene, and each implements it
(`Implements`).

### ThreadPool.tla

Composes the pool, the Team, the coordinator (a LockWorker) and the workers (ThreadWorkers). What runs
under the coordinator's lock is one step where no other thread can tell; the unlocked reads of
`ThreadPool.workers` and of the Team's statistics are steps of their own, and so are a worker's return
from a task and its report to the coordinator.

### LoopingCall.tla, Cooperator.tla

Both are single-threaded and re-entrant. LoopingCall keeps integer time and the arithmetic of
`_scheduleFrom` and `withCount`; the function it calls returns, raises, or returns a Deferred, and may
stop, reset or restart the loop from inside. Cooperator models a `_tick` as a sequence of steps, so that the
iterator that is being advanced can add, pause, resume and stop tasks, itself included; `ready` is
the list that the metarator walks through while it changes.

### FilesystemLock.tla, DeferredFilesystemLock.tla, DirDBM.tla, AtomicMap.tla

Cut at every system call. Processes die anywhere and their ids are used again. `AtomicMap` is the abstract
specification of DirDBM: only the assignment that is going on gives a key a value, in one step, and has done so when it
is over; only a deletion takes an entry away; a crash and the recovery change nothing. DirDBM implements it under the
mapping that gives for each key the contents of its file if the directory is open, and otherwise, or while the key is being
set, what whoever opens the directory would find (`Found`). So a recovery that removed a .rpl file that stands alone,
or overlooked it, would be a step that the map does not allow. Every system call may also fail. An error of
`os.remove` or `os.rename` inside `__setitem__` leaves files behind in a process that goes on; nothing is claimed of that
key (`torn`) until the directory is opened again (section 8.1).

### FileDescriptor.tla, Connector.tla, ClientService.tla

FileDescriptor is one TCP connection: bytes are counted, not named; the two buffers, the flags and the
reader and writer sets of the reactor are kept. Connector is `BaseConnector` with a plain factory, a factory that
connects again when told of a failure or loss, or a `ReconnectingClientFactory`. ClientService is the
state machine of `_ClientMachine` with one action per input and state; endpoints, protocols and
`prepareConnection` answer whenever they like.

### HTTPClient.tla, SSHChannel.tla, DNSResolver.tla

HTTPClient follows requests through the pool, the retrying wrapper, `HTTP11ClientProtocol`, its parser and the
response's body. Its transport is TCP: one that is paused reads nothing and so does not notice its loss (unless it writes),
and one that is being closed delivers no more data; over TLS it might, which is left out. SSHChannel is one channel with its two ends and the messages between them, in order,
and the connection may be lost. DNSResolver has look-ups of names by callers that share queries, UDP attempts at
a list of servers, and the one TCP connection that truncated answers go to.

### HTTPServer.tla, TLSProtocol.tla

HTTPServer is one `HTTPChannel` with its `Request`s. What the client sends is a sequence of parts (a request line,
the end of headers with or without a body, a body) that arrives in pieces of any size; each iteration of
LineReceiver's loop is a step, and `process` of the application is a point of the loop (`inApp`) at which every
call of a Request may be made, so that responses are finished inside `process` or later. The TCP transport is abstract:
a write may find its buffer too full, and then it empties at some time. `status` follows each request to its end;
`mixed` and `doubled` are history. `mixed` says that something was behind the headers of a request in the piece that
was being parsed, or behind a body whose request was answered inside `process` (section 8 and 8.1); what is behind a
body otherwise is put aside, and is not excepted.

TLSProtocol is `TLSMemoryBIOProtocol`. OpenSSL is external: a handshake that takes any number of rounds and may fail,
a shutdown that sends an alert and tells whether the peer's has come, records that hold data, a close alert, a
renegotiation or something wrong. Each return of application code (`handshakeCompleted`, `dataReceived`) is a
step, so that it can write, close or abort in the middle of the protocol's own loops. Writes are numbered, to tell their order. The history `overtaken` says that
`handshakeCompleted` has written while older writes were kept; no other overtaking is excepted.

### How the models are put together

ThreadPool uses the two workers' behaviour that LockWorker and ThreadWorker establish. The other components
meet at interfaces that the models keep abstract: a delayed call is due at some time, a Deferred fires
at some time, a transport reports its end at some time.

`MCThreads`, `MCHandlers`, `MCReactor`, `MCProgress` and `MCBookkeeping` put components side by side that do not interact: a
variable `kind` of the initial state chooses one of them, and the others rest. `MCDeferred` keeps to
two Deferreds, or to three that are not paused and have at most one added pair each (`Bounded`).

## 3. What the runs check and show

| Run | Properties | Shows |
|---|---|---|
| `deferred` | ChainIntegrity, PauseBalance, NoNestedCallbacks, SingleCallAccepted, FailuresAccountedFor, NoResultWithheld | Application code re-enters Deferreds from callbacks and cancellers; chains, pause counts and failure records stay consistent, and no fired, unpaused Deferred holds a result that its own callbacks still wait for when control is back in the reactor. |
| `deferred_stuck` | Drained | Violated, see section 8. |
| `handlers` | TimersAreSound, CallsOnTime; ServerIsSound; TLSIsDriven | Handlers that the application re-enters. All sequences of operations on delayed calls up to the bound, in and out of calls: the heap is one, no call is lost, early or slept over. An HTTP channel is always read again, its producers are resumed, its requests are handled in turn (if they do not arrive in one piece, see section 8) and told of the end. What TLS has buffered, paused or promised to close is waiting for an event that will come. |
| `threads` | NoLostWakeup, MadeInOrder, QueuedAreMade; WorkersImplement, WorkersFinish; PoolIsSound, PoolFinishes | callFromThread with a pipe that fills up; both workers are exclusive, do what they accepted and end; the pool's threads in every interleaving with its calls: statistics true, tasks run once, stop() leaves nothing and returns. |
| `reactor` | LifecycleIsSound, StopEndsRun; EveryCallEnds; LoopIsCarriedOn | Shutdown is complete and happens once, phases wait, run() returns after stop(); every delayed call is made or cancelled if only the clock wakes the reactor; a LoopingCall is carried on by one thing. |
| `reactor_running` | RunningOnlyWhileStarted | Violated, see section 8. |
| `progress` | TokensAreUsed, NoOvertaking, WaitersAreServed, IsSemaphore, QueueIsSound; TransportIsDriven, ClosesInTheEnd; ServiceIsDriven, StopIsAnswered; ChannelIsSound, CloseCompletes | Nobody waits in vain for a token, an object, a close or a stop; a lock is a semaphore of one token; the two ends of an SSH channel agree. |
| `bookkeeping` | CooperatorNeverStalls, EveryTaskGetsATurn; HolderOwnsTheLink, AttemptIsDriven; ImplementsMap; HTTPClientIsSound; ConnectorIsSound; LookupsAreDriven | Records that have to be true, and what depends on them. |
| `filesystem_lock` | MutualExclusion | Violated, see section 8. |
| `client_service` | ConnectedIsAlive | Violated, see section 8. |
| `http_client` | NoRequestOutlivesItsConnection | Violated, see section 8. |
| `http_server` | OneAtATime | Violated, see section 8. |

Where the code has a known gap (sections 8 and 8.1), the invariants of the passing runs say exactly when
it is excused: a history variable or a named predicate (`raced`, `reused`, `Starved`, `stray`, ...) marks the
behaviours in which it has happened, and everything else is still checked.

`PROJECT.json` names, for every property of a passing run, a mutation of the code (`mutants`) under which
TLC finds the property violated. The mutated forms are defined in the modules next to the definition
they replace, just before it, and nothing else uses them: `HasSomeResult` for `HasResult`, `Stay` for
`MoveCallLaterSooner`, and so on.

`CHECK_DEADLOCK FALSE` is set where the modelled system may stop for good: the application has used up
its calls, a worker has quit, the pool has stopped, a connection is closed, or the reactor has been run
and cannot be restarted. The runs `deferred`, `deferred_stuck` and `handlers` are checked for deadlock; in the
last, a connection that is over stays so (`Over`), and nothing else may stop.

## 4. Bounds

All bounds are constants; the runs' values are in the `.cfg` files and the MC modules.

* Deferred: `MaxCalls`, `MaxAdds`, `MaxPauses` bound the calls on each Deferred, `MaxDepth` how deep
  application code nests. Two Deferreds and depth two give a callback that re-enters the Deferred that
  runs it, a chain, a canceller that fires its own Deferred, and a late result; three give a chain
  whose middle is resumed while its end waits.
* Semaphore, lock, queue: five users and two tokens; four objects and four gets with both limits at two, so
  that lists fill up and a cancelled waiter can be first, middle or last.
* TimedCalls: five operations (`MaxOps`) on four calls, the smallest heap in which a call moves up two
  levels; four operations on two calls for liveness, where symmetry cannot be used. `Threshold` (50 in the
  code) and `Longest` (2147483) are small so that compaction and clipping happen.
* ThreadCalls: four calls, one of which queues another, two threads, and a pipe of two bytes that is
  emptied one byte at a time (the code's pipe holds at least 4096, `doRead` takes 8192).
* ReactorLifecycle: `MaxCrashes` = 1 and three application triggers, enough for a trigger in each
  phase or two Deferreds that one event waits for; nesting is bounded by the triggers.
* Workers and pool: two calling threads, three pieces of work of which one may raise and any may
  call `do` itself; three workers and two tasks, so that one waits in the backlog; three adjusting calls
  (`MaxCalls`) let the pool grow, shrink and stop in one behaviour.
* LoopingCall: intervals 0 and 2 up to time 5 (`MaxTime`), so that calls are on time, late and skipped; two
  starts (`MaxStarts`). Cooperator: three tasks, one of which can be removed before or after the one
  being advanced; pauses nest once beyond the Cooperator's own (`MaxPause`).
* FilesystemLock: three processes, which the race of section 8 needs (one dead owner, two breakers).
  DeferredFilesystemLock: four attempts (`MaxAttempts`). DirDBM: two keys and two values.
* FileDescriptor: four bytes with a buffer size and a send limit of two, so that data is moved between the
  two buffers and sent in parts. ClientService: three connections, two waiters and stoppers, two failures.
* HTTPClient: two connections and two requests with room for one idle connection, so that the pool
  overflows. Connector: five transports, two retries. SSHChannel: windows and packets of two
  with three bytes each way, so that windows close and are adjusted. DNSResolver: two names, three callers (two share a
  query), two servers, two rounds of timeouts and two TCP connections.
* HTTPServer: three requests (`MaxParsed`) in pieces of up to three parts (`MaxChunk`), so that a piece ends
  anywhere and holds the end of one request and the beginning of the next; two parts may be put aside before reading
  is paused (`EagerSize`, 0x4000 bytes in the code); one write besides those of finish() (`MaxWrites`).
  TLSProtocol: three writes, three records of the peer and two registrations of a producer
  (`MaxWritten`, `MaxReceived`, `MaxRegistered`), enough for a write before the handshake, one inside
  `handshakeCompleted` and one held back by a renegotiation.

Every action fires in some passing run.

## 5. Fairness

* The reactor's thread goes on (`WF` on its steps). A callback returns: Twisted requires it of
  applications. Which step it takes is never assumed: application choices have no fairness.
* ThreadCalls: a thread that has appended writes its byte (threads are scheduled). Nothing but the waker
  is assumed to end a poll: `PollElse` has no fairness.
* TimedCalls: time passes (`WF` on `Tick`); no event is assumed to end the poll.
* ReactorLifecycle: `FairSpec` adds that the Deferreds that `before` triggers returned fire, one after another
  (strong fairness, because the application has control again and again, not all the time). Only
  `StopEndsRun` needs it; for a Deferred that never fires the documented answer is `crash()`.
* Semaphore: a holder releases in the end; `run()` guarantees it for functions whose Deferred fires.
* LockWorker, ThreadWorker, ThreadPool: threads are scheduled, a mutex that is free infinitely often is
  obtained, work returns or raises. `WorkersFinish` makes an exception for work that raises, which ends
  the loop of `LockWorker.do` and drops its re-entrant additions.
* Cooperator: the delayed tick is made, an iterator's step returns, and a tick ends; the Deferreds that
  iterators yield have no fairness.
* FileDescriptor: a descriptor that the reactor has registered for writing is written to, and the
  delayed end of an aborted connection is called. The peer need not read faster than one byte at a time, and
  never needs to send or close.
* ClientService: `loseConnection` ends a connection in the end (`ClosingEnds`), which is what FileDescriptor's
  `ClosesInTheEnd` establishes. Attempts and retries have no fairness.
* SSHChannel: messages arrive. Applications need not do anything.

## 6. What is proved

Each proof is for every value of the constants that satisfies the module's ASSUME, so for any number of
Deferreds, threads, calls, users or objects, and without the bounds' help.

**DeferredProofs.tla**: `TypeCorrect` and `SingleCall`. A Deferred without a canceller that is fired once
never answers with AlreadyCalledError, whatever is cancelled before. The invariant says when
`_suppressAlreadyCalled` is set and that it is not set again once the late answer has been swallowed.

`Types`, `Pauses`, `NoNesting` and `Chains` follow from `InductiveInvariant`. None of
the properties is inductive alone: that a Deferred waits in exactly one callback list depends on the
pause count, which depends on who is waiting, and both on what the frames of the call stack are in the
middle of. The invariant therefore ties the frames to the state: which Deferred each `chain` is
processing, that `_runningCallbacks` is set exactly for those whose callback is on the stack, and that a
frame's local reference is still valid when control comes back to it. One lemma per action.
`FailuresReported` (FailuresAccountedFor) and `ResultsDelivered` (NoResultWithheld) follow from a second
invariant on top of it, `SettledInv`: both properties hold of every single Deferred at every moment, except of
those inside a callback and of the one that the innermost `_runCallbacks` has in hand, and a Deferred is taken in hand with
nothing recorded in `_debugInfo` but its own Failure. Those further up a local `chain` are settled
already, which is why dropping the chain at a paused Deferred loses no result.

**ThreadCallsProofs.tla**: `Wakes` (NoLostWakeup) and `InOrder` (MadeInOrder). The invariant relates the
history to the list (`queued` is `made` followed by what is still in the list, shifted by `count` while
the loop runs), and says that at every point where the reactor may still decide to sleep, a call that
the current pass will not run has a byte in the pipe or a thread about to write it. The assumption that
the pipe holds at least one byte is used for the full pipe.

**DeferredSemaphoreProofs.tla**: `TokensInUse` (TokensAreUsed, from `Tokens` and `IdleTokens`) and `Turns`. The invariant adds that the waiting list
has no duplicates and no holder in it, which cancellation needs; `Users` finite is needed for counting.

**ProgressProofs.tla**. `LockIsSemaphore` (IsSemaphore) is a step simulation under the mapping
`tokens <- IF locked THEN 0 ELSE 1`, with the invariant that a lock with waiters is locked.
`QueueIsAlwaysSound`, `QueueLimits` and `QueueTurns` hold for every size and backlog (a number or no limit:
`QueueAssumption`); the invariant is types, order, "one of the two lists is empty" and the limits, and turns
need that a get that takes a pending object finds nobody waiting. `ServiceIsAlwaysDriven`: the property is inductive
with one addition, that a connection in the hands of prepareConnection is open and is not a stale
`_currentConnection`. `TransportIsAlwaysDriven`: the addition is that the offset stays within the buffer and that a
connection that was closed because everything was sent is closed. `ChannelIsAlwaysSound` (ChannelIsSound), from
`SSHChannelAssumption` (a window, and packets that may hold a byte): the bytes under way are counted as a set of places, so
that lemmas about cardinalities replace an induction over the packets, among them that `Packets` cuts n bytes into
packets of n bytes together. Each method of a channel is then described once by what it sends (`SshSends`: nothing after our close,
nothing of the window without its bytes), these descriptions compose, and the invariant is one relation between two ends
and the two queues between them (`SshDir`) that sending and receiving keep. Three additions are needed: nothing that needs
the channel follows a close (so a channel that is forgotten misses no packet), nothing is longer than a packet may be, and
the handshake has a phase in which only the side that was asked may already use the channel, because `confirm` is
the first packet of those under way.

**WorkersProofs.tla**. `WorkersAreExclusive` (WorkersImplement): the two workers implement ExclusiveWorker. For
ThreadWorker the invariant says that accepted work is in one place (a caller's hands, the queue, the
thread, the ended ones); for LockWorker that a thread that runs work, or is about to, holds the mutex, that it has a list of work
exactly while it holds the mutex or waits for it, and that a piece of work is in one list only; `LockIsAlwaysThere` rests on the order of the two reads in do() and the two writes
in quit(). `PoolIsAlwaysSound` (PoolIsSound): StatisticsAreTrue and BacklogIsServed are false inside the
coordinator's critical sections, so `PoolInvariant` is stated over where each worker's thread is: that
tells what is in its queue (nothing, one task, or the stop marker), whether it is idle, busy or quit and
who holds the lock; `_busyCount` is the number of the busy ones; a backlog means that nobody is idle and
that somebody is on his way back to it, or that no worker exists and start() has still to come to it; and
a task that has not ended is in one place only. Workers and tasks may be infinite sets: only the idle
and the busy workers are counted. From `ThreadPoolAssumption`.

**BookkeepingProofs.tla**. `LinkIsOwned` (HolderOwnsTheLink): the link that a process has read is there
until another one removes it, and a process that is about to break the lock knows that nobody has it.
`DirectoryIsAMap` (ImplementsMap): refinement of AtomicMap; the invariant says which files of the key exist at each step
of an assignment, and that no other key has a .rpl file once the directory is open, so that the file of a key is what a
process that opened the directory would find. A crash and each step of the recovery therefore leave the map as it is, and
the step that takes effect is the removal of the old file or the renaming. All of it leaves out the keys of `torn`. `AttemptIsAlwaysDriven`: at most one attempt waits, and not with a
`_timeoutCall` that is over. `ConnectorIsAlwaysSound`: at most one transport is connecting or connected and its state is
the connector's, and no retry is due while there is one. `LookupsAreAlwaysDriven`: who waits belongs to the query of one
name, which has a leader while the name is listed, and a query over UDP has asked a prefix of the servers in
this round, the rest of which is to come (`Names` finite is needed to count the queries that wait for a connection).
`CooperatorAlwaysGoesOn` (CooperatorNeverStalls): the list has no duplicates, a Cooperator that has not been
started remembers to schedule its first tick, and a task that waits for a Deferred is paused. As in the run, an
iterator that raises after its end and the tasks that Cooperator.stop() passes over are excluded by a premise
(`Orderly`). `HTTPClientIsAlwaysSound` (HTTPClientIsSound), from `HTTPClientAssumption` (a pool that holds at least one
connection: with `maxPersistentPerHost` 0 the code would take the first element of an empty list): the additions say what each state of
`HTTP11ClientProtocol` means for its parser and its transport, that a parser whose response Deferred is chained has
answered exactly when headers were seen, and that a request that waits without a parser is on a connection that is being closed and
is never used again.

**HandlersProofs.tla**. `TLSIsAlwaysDriven` (TLSIsDriven): said of the reactor's view in the property and of every stage
of dataReceived in the invariant. While the peer's data is handed out, writes are kept only if OpenSSL is
blocked, and a blocked OpenSSL has nothing left to read that would unblock it. A write outside `handshakeCompleted`
that OpenSSL takes therefore finds nothing kept, which is why the order holds with `overtaken` as the only exception.
`TimersAreAlwaysSound` (TimersAreSound) and `CallsAreOnTime` (CallsOnTime): first the loop of
`_moveCallLaterSooner` and `heappush` is shown to permute the list and to restore the heap's order from any heap in
which one element is early (`MovedUpPermutes`, `MovedUpOrders`). The places it may come to are defined as a least set, so
that facts about the path are proved by choosing that set, and facts about all places (the root is the earliest call)
by the least counterexample. The invariant says that the heap and the list of new calls have no call twice
or in common, that what is in them is made and not called, that every active call is in one of them, and that during
the poll there are no new calls and the deadline is at most the top's time. Any numbers of calls and
operations, any delays, shifts, threshold and longest sleep.
`ServerIsAlwaysSound` (ServerIsSound), for any number of requests and size of pieces (`HTTPServerAssumption`): the
property is about the times when control is in the reactor, the invariant about every iteration of LineReceiver's loop. Until two
requests were at hand at once it says which of the parser's stages go with which requests: `requests` has at most one element,
it is the last that was created, and it has been handed to the application exactly when `handlingRequest` is set, or the parser is
between its header and its body. Back-pressure: with a producer registered, `_waitingForTransport` is set
only while the transport is full. The proof showed that two arms of a CASE in `PausesAfter` overlapped, which TLC had resolved by
taking the first; the operator is now written without it.

**ReactorProofs.tla**. `LifecycleIsAlwaysSound` (LifecycleIsSound): the invariant counts firings. An event has at
most one of them under way, on the stack or suspended: `shutdown` because `stopped` is reset by run() only, which
refuses to run after a stop(), and `startup` as long as nobody calls crash(). Then a Deferred that has yet to fire is
one that this firing waits for, a trigger that is due is in the list of a phase that is still to come, and the main loop
can only have been ended by the trigger that stands in `during shutdown` (where the reactor's own triggers are is part of
the invariant). For callWhenRunning: a reactor that is running with callables left in the list has a startup on the
stack that is past its `before` phase. From `ReactorLifecycleAssumption`, used for the reactor's triggers being distinct from the
application's and from each other.
`LoopIsAlwaysCarriedOn` (LoopIsCarriedOn): for a start that was not overlapped the invariant lists the four
states a loop can be in (ended, delayed, inside the function, waiting for its Deferred) and says what was counted: with the
first start, `counted` is the interval of the last counted call, plus one if the first call was immediate.

## 7. Only model-checked

* Liveness (QueuedAreMade, EveryCallEnds, StopEndsRun, WaitersAreServed, WorkersFinish, PoolFinishes,
  ClosesInTheEnd, StopIsAnswered, CloseCompletes, EveryTaskGetsATurn): temporal reasoning with fairness is out of the
  prover's reach.
* What the runs expect to be violated (section 8).

Every invariant and every action property of the passing runs is a theorem as well.

## 8. Where code and documentation disagree

Six runs are expected to end in a violation; each shows a line of documentation that the code does not
keep.

* `deferred_stuck`: a Deferred whose result is taken by a paused Deferred stops processing its own
  callbacks until someone touches it, though a test's docstring says that earlier Deferreds continue
  (`internet/defer.py:632`, `test/test_defer.py:583`). pause() is not needed for it, which came out when a proof of
  Drained for applications without pause() failed: in a chain of three, a callback added to the middle one while
  the last one runs its own may return a Deferred to wait for; the loop then returns at the middle one and leaves the first
  one's callbacks. (TLC reaches it with three Deferreds, MaxAdds = 2, MaxPauses = 0 and MaxDepth = 2, beyond the bounds
  of the run `deferred`.) What holds in every case is NoResultWithheld: the callbacks left over belong to a Deferred that has
  given its result away.
* `reactor_running`: a `before startup` Deferred that fires after the reactor has stopped sets `running` for
  good (`internet/base.py:776`, `internet/interfaces.py:1404`).
* `filesystem_lock`: two processes that find the same dead owner can both get "a mutex"
  (`python/lockfile.py:190` and 122).
* `client_service`: a connection that is lost while `prepareConnection` works on it is given to the waiters,
  and the service waits for its loss for ever (`application/internet.py:958`).
* `http_client`: if the parser is thrown away before a request has been written out, the request's
  Deferred never fires (`web/_newclient.py:1663`).
* `http_server`: requests that arrive in one piece are handed to the application together, although the channel
  says that it does not relay a request before the previous one is answered (`web/http.py:2158` and 2038,
  `web/iweb.py:369`).

### 8.1 Smaller observations

These came up while modelling and have no run of their own. Those with a name in parentheses are
definitions that TLC finds violated when they are checked.

* `pause()` inside a callback does not stop the callbacks after it (`internet/defer.py:640`).
* `ThreadWorker.do` called by two threads can enqueue after `_stop` (`_threads/_threadworker.py:55` and the comment at
  63, `NothingAfterStop`). Inside the pool the coordinator's lock excludes it.
* `adjustPoolsize` counts a worker twice that moves from idle to busy between its two unlocked reads, so
  that it may leave the pool below its new minimum (`python/threadpool.py:306`).
* A pool whose maximum is 0 keeps its backlog when `adjustPoolsize` raises the maximum afterwards, until
  the next `callInThread` or `startAWorker`, and `stop()` drops it (`python/threadpool.py:300`; the premise
  `CanRunTasks` of BacklogIsServed and StopFinishesWork).
* `Cooperator.stop` removes tasks from the list it iterates and passes over every second one
  (`StopEndsAllTasks`); an exception that escapes `_tick` leaves no tick scheduled; a task that is stopped while its
  yielded Deferred is outstanding and then fails is completed twice.
* A LoopingCall that is restarted before the Deferred of its last call has fired forgets the new
  Deferred or the old one (`NoDeferredIsForgotten`).
* `DeferredFilesystemLock` keeps a stale `_timeoutCall` after a timeout (`internet/defer.py:1993`,
  `LockIsAnnounced`).
* A half-close that was asked for while a producer was registered is not brought about when the producer
  unregisters (`internet/abstract.py:115`, `internet/interfaces.py:2259`, `HalfCloseIsDriven`); `loseConnection` closes although an unpaused streaming producer is
  registered (`internet/abstract.py:394`, `internet/interfaces.py:2223`).
* `disconnect()` of a connector after its transport has gone (`internet/base.py:1142`, `CanDisconnect`); `resetDelay` or
  `connect` while a retry is due loses `_callID`.
* `stopService` during `prepareConnection`, and a connection that `prepareConnection` rejects, leave a connection open; the
  waiters of a service that was never started are not failed by `stopService`.
* `abort()` during a body of unknown length never ends the body's protocol.
* An SSH side with buffered data and no window never answers the peer's close (`Starved`).
* If making the protocol for a query raises, `_waiting` keeps an empty list for the name and later
  look-ups of it wait for ever (`WaitersHaveAQuery`); cancelling the first of several shared look-ups
  fails all of them.
* HTTP server: a request that was created while another one was at hand stays `queued`, and its finish() never calls
  requestDone (`web/http.py:2128`, 1103); what follows a body that is answered inside `process` is put aside after
  requestDone and stays there until the next request is done (2173); after a response that filled the
  transport the channel goes on reading (2386, against the docstring of pauseProducing, `NoReadingWhileFull`);
  the limit on what is put aside does not hold while the transport is full (2298). A pull producer is paused at every write
  to a full transport and resumed once, or is resumed without having been paused, which ends the connection
  (`ResumesOnlyPaused`).
* DirDBM: if `os.rename` fails in `__setitem__` the entry is gone from the live process, and comes back when the
  directory is opened again (`persisted/dirdbm.py:150`); if a .rpl file could not be removed or renamed and the key is
  then deleted, the next recovery makes an entry of what was left, be it half-written (145-150, 72).
* TLS: a write made in `handshakeCompleted` is encrypted before the writes that were kept during the handshake
  (`protocols/tls.py:242` comes before 323; `internet/interfaces.py:2196`, `WritesInSequence`: one write during the
  handshake and one in `handshakeCompleted` are enough); a close alert that
  OpenSSL refuses during a renegotiation is not tried again; a peer that never answers the close alert keeps
  the connection open; abortConnection and unregisterProducer after the loss meet a `_tlsConnection` that is None.

## 9. Not modelled

* `iterate()` and `run()` nested in a callback, and `fireSystemEvent` called by the application.
* Signal handlers: they call `stop` through `callFromThread`, which is modelled.
* What `_cancellations` counts: after a compaction it can drift below the truth (calls cancelled while they
  are new are not in the heap), which costs memory, not correctness.
* A `before shutdown` trigger added while the event is suspended is never called; the code promises
  nothing about it, and LifecycleIsSound does not count it.
* `callInThreadWithCallback`'s result callbacks, pickling of a pool, Team.shrink(None).
* Global requests and EOF messages of SSH, redirects, proxies and parsing of HTTP, transfer codings of the HTTP
  server, its deprecated queueing interface, HTTP/2, string receivers and the other policies, wire formats of DNS.
* Logging, formatting, parsing, encodings, cryptography, option handling, platform glue: no control state
  that a model would tell apart. Other reactors differ in the poll only.

The repository has some 180 000 lines, most of them text and packet protocols, their parsers, data
conversion, test support and command-line programs. The models cover the parts whose control is hard
to test; they are a small share of the lines.

## 10. Plan

Done: Deferred; semaphore, lock, queue; timers; calls from threads; lifecycle; workers; pool; LoopingCall and
Cooperator; lock files and DirDBM; transport, connector and retries; ClientService; HTTP client and server; TLS; SSH
channel; DNS resolver.

Next, in this order (modules and what they would state):

1. `DeferredList`, `inlineCallbacks` and `addTimeout`, on the interface of Deferred: one result, members
   cancelled, no lost wake-up of a generator, the timeout racing the result.
2. Process exit, HostnameEndpoint, ProcessMonitor, AMP's questions, HTTP/2 streams.
3. A composition of ThreadPool and ThreadCalls for `deferToThread`, and of HTTPServer over TLSProtocol over
   FileDescriptor.

Theorems: nothing is open among the safety properties of the modules above; each new module should come with the
proof of its invariant.
