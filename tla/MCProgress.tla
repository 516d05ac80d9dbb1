------------------------------ MODULE MCProgress ------------------------------
(***************************************************************************)
(* Components in which somebody waits for something that has to happen,    *)
(* for TLC: the event-driven synchronisation primitives of defer.py, the   *)
(* transport of a TCP connection, ClientService and an SSH channel.  They  *)
(* are checked side by side, without interaction: the initial state        *)
(* chooses the one that is used.                                           *)
(***************************************************************************)
EXTENDS DeferredSemaphore

CONSTANTS Objects, Gets, Size, Backlog, NoLimit,
          MaxBytes, BufferSize, SendLimit,
          Connections, Waiters, Stoppers, MaxFailures,
          Window, MaxPacket, MaxChannelBytes, MaxRequests

VARIABLES
    kind,
    locked, lockWaiting, lockHolders,
    queueWaiting, pending, queueAccepted, delivered, served,
    connected, disconnecting, writeDisconnecting, writeDisconnected, aborting, buffered,
    offset, tempLen, reading, writing, producer, producerPaused, told, halfClose, lost,
    accepted, sent,
    csState, running, attempt, prepared, current, open, made, retrying, awaiting,
    remaining, stopping, started, upset,
    ch, net, unanswered, written, asked, up

lockVars == <<locked, lockWaiting, lockHolders>>
queueVars == <<queueWaiting, pending, queueAccepted, delivered, served>>
fdVars == <<connected, disconnecting, writeDisconnecting, writeDisconnected, aborting,
            buffered, offset, tempLen, reading, writing, producer, producerPaused, told,
            halfClose, lost, accepted, sent>>
csVars == <<csState, running, attempt, prepared, current, open, made, retrying, awaiting,
            remaining, stopping, started, upset>>
sshVars == <<ch, net, unanswered, written, asked, up>>

Lock == INSTANCE DeferredLock WITH waiting <- lockWaiting, holders <- lockHolders

Queue == INSTANCE DeferredQueue WITH waiting <- queueWaiting, accepted <- queueAccepted

Transport == INSTANCE FileDescriptor

Service == INSTANCE ClientService

Channel == INSTANCE SSHChannel WITH MaxBytes <- MaxChannelBytes

ASSUME QueueParameters == Queue!QueueAssumption

ASSUME TransportParameters == Transport!FileDescriptorAssumption

ASSUME ChannelParameters == Channel!SSHChannelAssumption

-------------------------------------------------------------------------------
AnyInit ==
    /\ kind \in {"DeferredSemaphore", "DeferredLock", "DeferredQueue", "FileDescriptor",
                 "ClientService", "SSHChannel"}
    /\ Init /\ Lock!Init /\ Queue!Init /\ Transport!Init /\ Service!Init /\ Channel!Init
    /\ kind # "FileDescriptor" => ~halfClose

AnyNext ==
    \/ kind = "DeferredSemaphore" /\ Next
       /\ UNCHANGED <<kind, lockVars, queueVars, fdVars, csVars, sshVars>>
    \/ kind = "DeferredLock" /\ Lock!Next
       /\ UNCHANGED <<kind, vars, queueVars, fdVars, csVars, sshVars>>
    \/ kind = "DeferredQueue" /\ Queue!Next
       /\ UNCHANGED <<kind, vars, lockVars, fdVars, csVars, sshVars>>
    \/ kind = "FileDescriptor" /\ Transport!Next
       /\ UNCHANGED <<kind, vars, lockVars, queueVars, csVars, sshVars>>
    \/ kind = "ClientService" /\ Service!Next
       /\ UNCHANGED <<kind, vars, lockVars, queueVars, fdVars, sshVars>>
    \/ kind = "SSHChannel" /\ Channel!Next
       /\ UNCHANGED <<kind, vars, lockVars, queueVars, fdVars, csVars>>

\* What each component assumes of the others, for the one that is used.
AnySpec ==
    /\ AnyInit /\ [][AnyNext]_<<kind, vars, lockVars, queueVars, fdVars, csVars, sshVars>>
    /\ \A u \in Users : WF_vars(kind = "DeferredSemaphore" /\ Release(u))
    /\ WF_fdVars(kind = "FileDescriptor" /\ Transport!Progress)
    /\ WF_fdVars(kind = "FileDescriptor" /\ Transport!Aborted)
    /\ WF_csVars(kind = "ClientService" /\ Service!ClosingEnds)
    /\ \A p \in {"a", "b"} : WF_sshVars(kind = "SSHChannel" /\ Channel!Receive(p))

-------------------------------------------------------------------------------
(***************************************************************************)
(* The properties of the semaphore are those of DeferredSemaphore.  The    *)
(* others are stated in the modules of their components, with the code     *)
(* they are about; here they get the names that the configuration uses.    *)
(***************************************************************************)
\* DeferredLock does what a DeferredSemaphore(1) does.
IsSemaphore == Lock!IsSemaphore

\* DeferredQueue keeps the order, and nobody waits beside an object.
QueueIsSound == Queue!QueueIsSound

\* FileDescriptor: what has to be written, closed or resumed is registered with
\* the reactor, and no byte is lost.
TransportIsDriven == Transport!TransportIsDriven

\* FileDescriptor: loseConnection closes the connection.
ClosesInTheEnd == Transport!ClosesInTheEnd

\* ClientService: it is on its way to a connection, or stopped, and its waiters
\* will be answered.
ServiceIsDriven == Service!ServiceIsDriven

\* ClientService: the Deferred of stopService fires.
StopIsAnswered == Service!StopIsAnswered

\* SSHChannel: the two sides agree on windows, requests and the close.
ChannelIsSound == Channel!ChannelIsSound

\* SSHChannel: a close that one side begins is completed by both.
CloseCompletes == Channel!CloseCompletes
===============================================================================
