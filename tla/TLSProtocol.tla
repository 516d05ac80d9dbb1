------------------------------ MODULE TLSProtocol ------------------------------
(***************************************************************************)
(* twisted.protocols.tls.TLSMemoryBIOProtocol: TLS between an application  *)
(* and a TCP transport.  OpenSSL is external: what it may answer is        *)
(* modelled from how the protocol uses it.  It needs data from the peer to *)
(* finish a handshake, and may need some again in the middle of a          *)
(* connection before it can send; a close alert ends its sending, and the  *)
(* peer's its receiving.                                                   *)
(*                                                                         *)
(* Handshake messages and alerts are taken to be too short to fill the     *)
(* transport's buffer; application data may fill it.                       *)
(*                                                                         *)
(* dataReceived goes through several stages (`at'), and calls the          *)
(* application in two of them: when the handshake is complete and when     *)
(* data has come.  The application may then call the transport back.       *)
(***************************************************************************)
EXTENDS Naturals, Sequences

CONSTANTS MaxWritten,   \* bound: writes that are accepted
          MaxReceived,  \* bound: batches of data from the peer
          MaxRegistered \* bound: producers that are registered

VARIABLES
    handshake,       \* of OpenSSL: "going", "done" or "failed"
    blocked,         \* OpenSSL cannot send before it has read more
    sentClose, gotClose,   \* close alerts
    incoming,        \* what OpenSSL has yet to hand out
    at,              \* where dataReceived is: "reactor" when it is not running
    tlsConnected, handshakeDone, lostTLS, aborted, tlsDisconnecting,
    appSendBuffer, encrypted, accepted,   \* writes, numbered
    tlsProducer, membranePaused,
    lower,           \* the transport: "open", "losing", "aborting" or "lost"
    lowerFull,       \* it has paused its producer
    received, registrations,
    refused,         \* history: OpenSSL did not send a close alert
    overtaken        \* history: handshakeCompleted has written while older writes were kept

opensslVars == <<handshake, blocked, sentClose, gotClose>>
flagVars == <<handshakeDone, lostTLS, aborted, tlsDisconnecting>>
dataVars == <<appSendBuffer, encrypted, accepted>>
tlsVars == <<opensslVars, incoming, at, tlsConnected, flagVars, dataVars, tlsProducer,
             membranePaused, lower, lowerFull, received, registrations, refused, overtaken>>

\* makeConnection; the first _checkHandshakeStatus sends the first message.
Init ==
    /\ handshake = "going" /\ blocked = FALSE /\ sentClose = FALSE /\ gotClose = FALSE
    /\ incoming = <<>> /\ at = "reactor"
    /\ tlsConnected = TRUE /\ handshakeDone = FALSE /\ lostTLS = FALSE
    /\ aborted = FALSE /\ tlsDisconnecting = FALSE
    /\ appSendBuffer = <<>> /\ encrypted = <<>> /\ accepted = 0
    /\ tlsProducer = FALSE /\ membranePaused = FALSE
    /\ lower = "open" /\ lowerFull = FALSE /\ received = 0 /\ registrations = 0
    /\ refused = FALSE /\ overtaken = FALSE

Closing(l) == IF l = "open" THEN "losing" ELSE l

-------------------------------------------------------------------------------
(***************************************************************************)
(* _shutdownTLS: send a close alert, or answer the peer's.  In the middle  *)
(* of a handshake OpenSSL may refuse to, or may be done at once; after an  *)
(* error it fails.  When both sides have closed, so is the transport.      *)
(***************************************************************************)
Shutdown(alert, success) ==
    /\ sentClose' = (sentClose \/ alert)
    /\ refused' = (refused \/ ~alert)
    /\ lower' = IF success THEN Closing(lower) ELSE lower

ShutdownTLS ==
    \/ handshake = "done" /\ Shutdown(TRUE, gotClose)
    \/ handshake = "done" /\ blocked /\ Shutdown(FALSE, FALSE)
    \/ handshake = "going" /\ \E success \in BOOLEAN : Shutdown(FALSE, success)
    \/ handshake = "failed" /\ Shutdown(FALSE, FALSE)

\* _tlsShutdownFinished
ShutdownFinished == lostTLS' = TRUE /\ lower' = Closing(lower)

\* abortConnection: try to send an alert; the transport reports the loss later.
Abort ==
    /\ aborted' = TRUE
    /\ tlsDisconnecting' = TRUE
    /\ sentClose' = (sentClose \/ handshake = "done")
    /\ refused' = (refused \/ handshake # "done")
    /\ lower' = IF lower = "lost" THEN lower ELSE "aborting"

\* Bytes go to the transport, which pauses its producer when it is full.
LowerWrite ==
    /\ lowerFull' \in IF lowerFull THEN {TRUE} ELSE BOOLEAN
    /\ membranePaused' = (tlsProducer /\ (membranePaused \/ lowerFull'))

-------------------------------------------------------------------------------
(***************************************************************************)
(* The application: in the reactor, in handshakeCompleted, and in          *)
(* dataReceived.                                                           *)
(***************************************************************************)
AppHasControl == at \in {"reactor", "completed", "delivering"} /\ tlsConnected

(***************************************************************************)
(* write, unless it comes after loseConnection.  While OpenSSL cannot send *)
(* the data is kept and the producer paused; after a close alert OpenSSL   *)
(* fails.                                                                  *)
(***************************************************************************)
Number == accepted + 1

BufferedWrite ==
    /\ appSendBuffer' = Append(appSendBuffer, Number)
    /\ membranePaused' = tlsProducer
    /\ UNCHANGED <<encrypted, lostTLS, lower, lowerFull>>

Send ==
    /\ encrypted' = Append(encrypted, Number)
    /\ LowerWrite
    /\ UNCHANGED <<appSendBuffer, lostTLS, lower>>

SendFails ==
    /\ ShutdownFinished
    /\ UNCHANGED <<appSendBuffer, encrypted, lowerFull, membranePaused>>

Write ==
    /\ AppHasControl /\ accepted < MaxWritten
    /\ ~tlsDisconnecting \/ tlsProducer
    /\ ~lostTLS
    /\ tlsProducer => ~membranePaused
    /\ accepted' = Number
    /\ \/ (handshake = "going" \/ blocked) /\ ~sentClose /\ BufferedWrite
       \/ handshake = "done" /\ ~blocked /\ ~sentClose /\ Send
       \/ sentClose /\ SendFails
    /\ overtaken' = (overtaken \/ (at = "completed" /\ appSendBuffer # <<>>))
    /\ UNCHANGED <<opensslVars, incoming, at, tlsConnected, handshakeDone, aborted,
                   tlsDisconnecting, tlsProducer, received, registrations, refused>>

LoseConnection ==
    /\ AppHasControl /\ ~tlsDisconnecting
    /\ IF ~handshakeDone /\ appSendBuffer = <<>>
       THEN Abort
       ELSE /\ tlsDisconnecting' = TRUE
            /\ IF appSendBuffer = <<>> /\ ~tlsProducer
               THEN ShutdownTLS
               ELSE UNCHANGED <<sentClose, refused, lower>>
            /\ UNCHANGED aborted
    /\ UNCHANGED <<handshake, blocked, gotClose, incoming, at, tlsConnected,
                   handshakeDone, lostTLS, dataVars, tlsProducer, membranePaused,
                   lowerFull, received, registrations, overtaken>>

AbortConnection ==
    /\ AppHasControl
    /\ Abort
    /\ UNCHANGED <<handshake, blocked, gotClose, incoming, at, tlsConnected, handshakeDone,
                   lostTLS, dataVars, tlsProducer, membranePaused, lowerFull, received,
                   registrations, overtaken>>

\* A pull producer is wrapped and then behaves like a push producer.
RegisterProducer ==
    /\ AppHasControl /\ ~tlsProducer /\ ~lostTLS /\ registrations < MaxRegistered
    /\ registrations' = registrations + 1
    /\ tlsProducer' = TRUE /\ membranePaused' = FALSE
    /\ UNCHANGED <<opensslVars, incoming, at, tlsConnected, flagVars, dataVars, lower,
                   lowerFull, received, refused, overtaken>>

UnregisterProducer ==
    /\ AppHasControl /\ tlsProducer
    /\ tlsProducer' = FALSE /\ membranePaused' = FALSE
    /\ IF tlsDisconnecting /\ appSendBuffer = <<>>
       THEN ShutdownTLS
       ELSE UNCHANGED <<sentClose, refused, lower>>
    /\ UNCHANGED <<handshake, blocked, gotClose, incoming, at, tlsConnected, flagVars,
                   dataVars, lowerFull, received, registrations, overtaken>>

-------------------------------------------------------------------------------
(***************************************************************************)
(* dataReceived.  What the peer sends: application data, a close alert,    *)
(* something that OpenSSL rejects, the beginning of another handshake      *)
(* ("ask") and its continuation ("goOn").                                 *)
(***************************************************************************)
Items == {"data", "close", "bad", "ask", "goOn"}
Batches == {<<i>> : i \in Items} \cup (Items \X Items)

\* _checkHandshakeStatus with the peer's data: it goes on, fails or is complete.
CheckHandshake ==
    /\ ~handshakeDone
    /\ \/ UNCHANGED <<handshake, handshakeDone, lostTLS, lower, at, incoming>>
       \/ /\ ~aborted
          /\ handshake' = "failed" /\ ShutdownFinished
          /\ UNCHANGED <<handshakeDone, at, incoming>>
       \/ /\ ~aborted /\ handshake = "going"
          /\ handshake' = "done" /\ handshakeDone' = TRUE /\ at' = "completed"
          /\ \E rest \in {<<>>} \cup Batches : incoming' = rest
          /\ UNCHANGED <<lostTLS, lower>>
    /\ UNCHANGED blocked

\* New data is what a blocked OpenSSL has waited for, if it goes on with the
\* handshake.
MoreData ==
    /\ handshakeDone
    /\ \E batch \in Batches :
          /\ incoming' = batch
          /\ blocked' = (blocked /\ \A i \in 1..Len(batch) : batch[i] # "goOn")
    /\ at' = "unbuffer"
    /\ UNCHANGED <<handshake, handshakeDone, lostTLS, lower>>

DataReceived ==
    /\ at = "reactor" /\ lower = "open" /\ received < MaxReceived
    /\ received' = received + 1
    /\ CheckHandshake \/ MoreData
    /\ UNCHANGED <<sentClose, gotClose, tlsConnected, aborted, tlsDisconnecting, dataVars,
                   tlsProducer, membranePaused, lowerFull, registrations, refused,
                   overtaken>>

\* The application's handshakeCompleted has returned.
CompletedReturns ==
    /\ at = "completed"
    /\ at' = "unbuffer"
    /\ UNCHANGED <<opensslVars, incoming, tlsConnected, flagVars, dataVars, tlsProducer,
                   membranePaused, lower, lowerFull, received, registrations, refused,
                   overtaken>>

(***************************************************************************)
(* _unbufferPendingWrites, if there are any: writes that cannot be made    *)
(* yet are kept again, and writes after an error are dropped.  When all    *)
(* are made the producer goes on, or if there is none and the application  *)
(* wants to close, TLS is shut down.                                       *)
(***************************************************************************)
\* Not what the code does: the close that waited for the writes is forgotten.
ResumeOnly ==
    /\ membranePaused' = FALSE
    /\ UNCHANGED <<sentClose, refused, lower>>

AfterWrites ==
    IF tlsProducer
    THEN /\ membranePaused' = FALSE
         /\ UNCHANGED <<sentClose, refused, lower>>
    ELSE /\ IF tlsDisconnecting THEN ShutdownTLS
            ELSE UNCHANGED <<sentClose, refused, lower>>
         /\ UNCHANGED membranePaused

KeepWrites ==
    /\ blocked /\ ~lostTLS /\ ~sentClose
    /\ membranePaused' = tlsProducer
    /\ UNCHANGED <<dataVars, lostTLS, sentClose, refused, lower, lowerFull>>

MakeWrites ==
    /\ ~blocked /\ ~lostTLS /\ ~sentClose
    /\ encrypted' = encrypted \o appSendBuffer
    /\ appSendBuffer' = <<>>
    /\ lowerFull' \in IF lowerFull THEN {TRUE} ELSE BOOLEAN
    /\ AfterWrites
    /\ UNCHANGED <<accepted, lostTLS>>

DropWrites ==
    /\ lostTLS \/ sentClose
    /\ appSendBuffer' = <<>>
    /\ lostTLS' = TRUE
    /\ membranePaused' = FALSE
    /\ lower' = Closing(lower)
    /\ UNCHANGED <<accepted, encrypted, sentClose, refused, lowerFull>>

Unbuffer ==
    /\ at = "unbuffer"
    /\ at' = "receiving"
    /\ IF appSendBuffer = <<>>
       THEN UNCHANGED <<dataVars, lostTLS, membranePaused, sentClose, refused, lower,
                        lowerFull>>
       ELSE KeepWrites \/ MakeWrites \/ DropWrites
    /\ UNCHANGED <<handshake, blocked, gotClose, incoming, tlsConnected, handshakeDone,
                   aborted, tlsDisconnecting, tlsProducer, received, registrations,
                   overtaken>>

(***************************************************************************)
(* _flushReceiveBIO, one item at a time, until OpenSSL has no more or TLS  *)
(* has ended.                                                              *)
(***************************************************************************)
Receive(item) ==
    /\ at = "receiving" /\ ~lostTLS /\ incoming # <<>> /\ Head(incoming) = item
    /\ incoming' = Tail(incoming)
    /\ UNCHANGED <<handshake, tlsConnected, handshakeDone, aborted, tlsDisconnecting,
                   dataVars, tlsProducer, membranePaused, lowerFull, received,
                   registrations, refused, overtaken>>

ReceiveData ==
    /\ Receive("data")
    /\ at' = IF aborted THEN at ELSE "delivering"
    /\ UNCHANGED <<blocked, sentClose, gotClose, lostTLS, lower>>

ReceiveHandshake ==
    /\ Receive("ask") \/ Receive("goOn")
    /\ blocked' = (/\ Head(incoming) = "ask"
                   /\ \A i \in 2..Len(incoming) : incoming[i] # "goOn")
    /\ UNCHANGED <<at, sentClose, gotClose, lostTLS, lower>>

\* ZeroReturnError: answer the close alert, and TLS has ended.
ReceiveClose ==
    /\ Receive("close")
    /\ gotClose' = TRUE /\ sentClose' = TRUE
    /\ ShutdownFinished
    /\ UNCHANGED <<at, blocked>>

ReceiveError ==
    /\ Receive("bad")
    /\ ShutdownFinished
    /\ UNCHANGED <<at, blocked, sentClose, gotClose>>

DeliverReturns ==
    /\ at = "delivering"
    /\ at' = "receiving"
    /\ UNCHANGED <<opensslVars, incoming, tlsConnected, flagVars, dataVars, tlsProducer,
                   membranePaused, lower, lowerFull, received, registrations, refused,
                   overtaken>>

ReceivingEnds ==
    /\ at = "receiving" /\ (lostTLS \/ incoming = <<>>)
    /\ at' = "reactor" /\ incoming' = <<>>
    /\ UNCHANGED <<opensslVars, tlsConnected, flagVars, dataVars, tlsProducer,
                   membranePaused, lower, lowerFull, received, registrations, refused,
                   overtaken>>

-------------------------------------------------------------------------------
\* The transport has written its buffer out, and resumes the membrane.
LowerDrained ==
    /\ at = "reactor" /\ lowerFull /\ lower # "lost"
    /\ lowerFull' = FALSE
    /\ membranePaused' = FALSE
    /\ UNCHANGED <<opensslVars, incoming, at, tlsConnected, flagVars, dataVars,
                   tlsProducer, lower, received, registrations, refused, overtaken>>

\* connectionLost: OpenSSL is told, and the application, once.
LowerLost ==
    /\ at = "reactor" /\ lower # "lost"
    /\ lower' = "lost"
    /\ lostTLS' = TRUE
    /\ tlsConnected' = FALSE
    /\ UNCHANGED <<opensslVars, incoming, at, handshakeDone, aborted, tlsDisconnecting,
                   dataVars, tlsProducer, membranePaused, lowerFull, received,
                   registrations, refused, overtaken>>

Next ==
    \/ Write \/ LoseConnection \/ AbortConnection \/ RegisterProducer \/ UnregisterProducer
    \/ DataReceived \/ CompletedReturns \/ Unbuffer
    \/ ReceiveData \/ ReceiveHandshake \/ ReceiveClose \/ ReceiveError \/ DeliverReturns
    \/ ReceivingEnds \/ LowerDrained \/ LowerLost

Spec == Init /\ [][Next]_tlsVars

-------------------------------------------------------------------------------
(***************************************************************************)
(* ITransport.write: "in sequence".                                        *)
(***************************************************************************)
WritesInSequence == ~lostTLS => encrypted \o appSendBuffer = [i \in 1..accepted |-> i]

(***************************************************************************)
(* Whatever order the handshake, writes, producers, closing and the peer's *)
(* data come in: what was written is encrypted once and in sequence        *)
(* (unless handshakeCompleted has written while older writes were kept),   *)
(* and is kept only while OpenSSL waits for the peer; a producer is        *)
(* paused only while something will resume it; loseConnection leads to a   *)
(* close alert as soon as there is nothing left to send (unless OpenSSL    *)
(* refused it in mid-handshake); and when TLS has ended or both sides have *)
(* closed the transport is being closed.                                   *)
(***************************************************************************)
TLSIsDriven ==
    /\ overtaken \/ WritesInSequence
    /\ (at = "reactor" /\ lower = "open") =>
          /\ ~lostTLS /\ ~aborted /\ ~(sentClose /\ gotClose)
          /\ appSendBuffer # <<>> => ~handshakeDone \/ blocked
          /\ membranePaused => appSendBuffer # <<>> \/ lowerFull
          /\ (tlsDisconnecting /\ appSendBuffer = <<>> /\ ~tlsProducer) =>
                sentClose \/ refused
===============================================================================
