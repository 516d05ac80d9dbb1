------------------------------ MODULE MCHandlers ------------------------------
(***************************************************************************)
(* Event handlers that application code re-enters, for TLC: delayed calls, *)
(* and the two protocols between an application and its transport,         *)
(* HTTPChannel and TLSMemoryBIOProtocol.  They are checked side by side,   *)
(* without interaction: the initial state chooses the one that is used.    *)
(***************************************************************************)
EXTENDS TimedCalls, TLC

CONSTANTS MaxParsed, MaxChunk, EagerSize, MaxWrites,
          MaxWritten, MaxReceived, MaxRegistered

VARIABLES
    kind,
    net, netReading, netFull, netProducer, lastSent, lineBuffer, lineMode, busy,
    firstLine, inApp, extra, requests, handlingRequest, dataBuffer, persistent, dropping,
    waitingForTransport, timeOut, idleCall, savedTimeOut, abortingCall, abortCalls,
    status, queuedRequest, startedWriting, respProducer, respOwner, pauses, writes, mixed,
    doubled,
    handshake, blocked, sentClose, gotClose, incoming, at, tlsConnected, handshakeDone,
    lostTLS, aborted, tlsDisconnecting, appSendBuffer, encrypted, accepted, tlsProducer,
    membranePaused, lower, lowerFull, received, registrations, refused, overtaken

httpdVars == <<net, netReading, netFull, netProducer, lastSent, lineBuffer, lineMode,
               busy, firstLine, inApp, extra, requests, handlingRequest, dataBuffer,
               persistent, dropping, waitingForTransport, timeOut, idleCall,
               savedTimeOut, abortingCall, abortCalls, status, queuedRequest,
               startedWriting, respProducer, respOwner, pauses, writes, mixed, doubled>>
tlsVars == <<handshake, blocked, sentClose, gotClose, incoming, at, tlsConnected,
             handshakeDone, lostTLS, aborted, tlsDisconnecting, appSendBuffer, encrypted,
             accepted, tlsProducer, membranePaused, lower, lowerFull, received,
             registrations, refused, overtaken>>

Server == INSTANCE HTTPServer

Tls == INSTANCE TLSProtocol

ASSUME ServerAssumption == Server!HTTPServerAssumption

SomeShifts == {-2, 1}

Symmetry == Permutations(Calls)

-------------------------------------------------------------------------------
AnyInit ==
    /\ kind \in {"TimedCalls", "HTTPServer", "TLSProtocol"}
    /\ Init /\ Server!Init /\ Tls!Init

\* A connection that is over stays so.
Over ==
    /\ \/ kind = "HTTPServer" /\ net = "lost"
       \/ kind = "TLSProtocol" /\ lower = "lost"
    /\ UNCHANGED <<kind, vars, httpdVars, tlsVars>>

AnyNext ==
    \/ kind = "TimedCalls" /\ Next /\ UNCHANGED <<kind, httpdVars, tlsVars>>
    \/ kind = "HTTPServer" /\ Server!Next /\ UNCHANGED <<kind, vars, tlsVars>>
    \/ kind = "TLSProtocol" /\ Tls!Next /\ UNCHANGED <<kind, vars, httpdVars>>
    \/ Over

AnySpec == AnyInit /\ [][AnyNext]_<<kind, vars, httpdVars, tlsVars>>

-------------------------------------------------------------------------------
(***************************************************************************)
(* The properties of delayed calls are those of TimedCalls.  The others    *)
(* are stated in the modules of their components, with the code they are   *)
(* about; here they get the names that the configuration uses.             *)
(***************************************************************************)
\* HTTPChannel: reading, producers and timers are never left without the event
\* that sets them going again, and no request is forgotten.
ServerIsSound == Server!ServerIsSound

\* TLSMemoryBIOProtocol: what is buffered, paused or closing is waiting for
\* something that will come.
TLSIsDriven == Tls!TLSIsDriven
===============================================================================
