----------------------------- MODULE FileDescriptor -----------------------------
(***************************************************************************)
(* A TCP transport (twisted.internet.abstract.FileDescriptor with          *)
(* tcp.Connection) between an application, its producer, and a reactor     *)
(* that calls doRead and doWrite while the descriptor is registered.       *)
(* Bytes are counted, not told apart.  The calls that the code makes to    *)
(* the protocol and the producer end a step; what they do in turn is a     *)
(* step of the application.                                                *)
(***************************************************************************)
EXTENDS Integers

CONSTANTS MaxBytes,    \* bound: the bytes the application writes
          BufferSize,  \* self.bufferSize
          SendLimit    \* self.SEND_LIMIT

FileDescriptorAssumption == MaxBytes \in Nat /\ BufferSize \in Nat /\ SendLimit \in Nat

VARIABLES
    connected, disconnecting, writeDisconnecting, writeDisconnected, aborting,
    buffered,        \* len(self.dataBuffer)
    offset,          \* how many of those have been sent
    tempLen,         \* self._tempDataLen
    reading, writing,    \* registered with the reactor
    producer,        \* "none", "push" or "pull" (streaming or not)
    producerPaused,  \* self.producerPaused
    told,            \* what the producer was told last: "produce" or "pause";
                     \* a pull producer that has answered counts as paused
    halfClose,       \* the protocol provides IHalfCloseableProtocol
    lost,            \* why the protocol's connectionLost was called, "no" before
    accepted, sent   \* history: bytes taken by write() and by the socket

fdFlags == <<connected, disconnecting, writeDisconnecting, writeDisconnected, aborting>>
fdBuffer == <<buffered, offset, tempLen, accepted, sent>>
fdProducer == <<producer, producerPaused, told>>
fdVars == <<fdFlags, fdBuffer, reading, writing, fdProducer, halfClose, lost>>

Init ==
    /\ connected = TRUE /\ disconnecting = FALSE /\ aborting = FALSE
    /\ writeDisconnecting = FALSE /\ writeDisconnected = FALSE
    /\ buffered = 0 /\ offset = 0 /\ tempLen = 0 /\ accepted = 0 /\ sent = 0
    /\ reading = TRUE /\ writing = FALSE
    /\ producer = "none" /\ producerPaused = FALSE /\ told = "produce"
    /\ halfClose \in BOOLEAN /\ lost = "no"

Pending == buffered - offset + tempLen

-------------------------------------------------------------------------------
(***************************************************************************)
(* connectionLost: at most once, as the socket is gone afterwards.  The    *)
(* producer is stopped and forgotten.                                      *)
(***************************************************************************)
ConnectionLost(why) ==
    /\ connected' = FALSE
    /\ producer' = "none"
    /\ reading' = FALSE /\ writing' = FALSE
    /\ lost' = why
    /\ UNCHANGED <<producerPaused, told>>

-------------------------------------------------------------------------------
(***************************************************************************)
(* The application.                                                        *)
(***************************************************************************)
BufferFull(more) == buffered + tempLen + more > BufferSize

\* write() and writeSequence(); a pull producer answers a resumeProducing.
Write(n) ==
    /\ connected /\ ~writeDisconnected /\ accepted + n <= MaxBytes
    /\ tempLen' = tempLen + n /\ accepted' = accepted + n
    /\ writing' = TRUE
    /\ LET pause == producer = "push" /\ BufferFull(n) IN
       /\ producerPaused' = (producerPaused \/ pause)
       /\ told' = IF pause \/ producer = "pull" THEN "pause" ELSE told
    /\ UNCHANGED <<fdFlags, buffered, offset, sent, reading, producer, halfClose, lost>>

LoseConnection ==
    /\ connected /\ ~disconnecting
    /\ IF writeDisconnected
       THEN ConnectionLost("halfClosed") /\ UNCHANGED disconnecting
       ELSE /\ reading' = FALSE /\ writing' = TRUE /\ disconnecting' = TRUE
            /\ UNCHANGED <<connected, fdProducer, lost>>
    /\ UNCHANGED <<writeDisconnecting, writeDisconnected, aborting, fdBuffer, halfClose>>

\* Called on a live connection; the code does not check.
LoseWriteConnection ==
    /\ connected
    /\ writeDisconnecting' = TRUE /\ writing' = TRUE
    /\ UNCHANGED <<connected, disconnecting, writeDisconnected, aborting, fdBuffer, reading,
                   fdProducer, halfClose, lost>>

AbortConnection ==
    /\ connected /\ ~aborting
    /\ aborting' = TRUE
    /\ reading' = FALSE /\ writing' = FALSE
    /\ UNCHANGED <<connected, disconnecting, writeDisconnecting, writeDisconnected, fdBuffer,
                   fdProducer, halfClose, lost>>

\* A pull producer is asked at once.  producerPaused is left as it is.
RegisterProducer(kind) ==
    /\ connected /\ producer = "none"
    /\ producer' = kind /\ told' = "produce"
    /\ UNCHANGED <<fdFlags, fdBuffer, reading, writing, producerPaused, halfClose, lost>>

NeverRestarts == FALSE

RestartsWriting == connected /\ disconnecting

UnregisterProducer ==
    /\ producer # "none"
    /\ producer' = "none"
    /\ writing' = (writing \/ RestartsWriting)
    /\ UNCHANGED <<fdFlags, fdBuffer, reading, producerPaused, told, halfClose, lost>>

\* The transport as a producer of what it reads.
PauseProducing ==
    /\ reading /\ reading' = FALSE
    /\ UNCHANGED <<fdFlags, fdBuffer, writing, fdProducer, halfClose, lost>>

ResumeProducing ==
    /\ connected /\ ~disconnecting /\ ~reading /\ reading' = TRUE
    /\ UNCHANGED <<fdFlags, fdBuffer, writing, fdProducer, halfClose, lost>>

-------------------------------------------------------------------------------
(***************************************************************************)
(* The reactor.  doRead delivers data (a step of the application) or finds *)
(* the end of the stream or an error; _disconnectSelectable follows.       *)
(***************************************************************************)
ReadsEnd ==
    /\ reading /\ ~aborting
    /\ IF halfClose
       THEN reading' = FALSE /\ UNCHANGED <<connected, writing, fdProducer, lost>>
       ELSE ConnectionLost("readEnd")
    /\ UNCHANGED <<disconnecting, writeDisconnecting, writeDisconnected, aborting, fdBuffer,
                   halfClose>>

Fails ==
    /\ (reading \/ writing) /\ ~aborting
    /\ ConnectionLost("error")
    /\ UNCHANGED <<disconnecting, writeDisconnecting, writeDisconnected, aborting, fdBuffer,
                   halfClose>>

Aborted ==
    /\ aborting /\ connected
    /\ ConnectionLost("aborted")
    /\ UNCHANGED <<disconnecting, writeDisconnecting, writeDisconnected, aborting, fdBuffer,
                   halfClose>>

\* doWrite refills dataBuffer, sends at most SEND_LIMIT bytes ...
Refill == buffered - offset < SendLimit
Length == IF Refill THEN Pending ELSE buffered
From == IF Refill THEN 0 ELSE offset
LeftInTemp == IF Refill THEN 0 ELSE tempLen

AskOnlyPull == producer = "pull"

AskAgain == producer # "none" /\ (producer = "pull" \/ producerPaused)

DoWrite(n) ==
    /\ writing /\ ~aborting
    /\ n <= Length - From /\ n <= SendLimit
    /\ sent' = sent + n
    /\ IF From + n = Length /\ LeftInTemp = 0
       THEN \* ... and, when nothing is left, asks for more or closes.
            /\ buffered' = 0 /\ offset' = 0 /\ tempLen' = 0
            /\ IF AskAgain
               THEN /\ producerPaused' = FALSE /\ told' = "produce" /\ writing' = FALSE
                    /\ UNCHANGED <<connected, writeDisconnected, reading, producer, lost>>
               ELSE IF disconnecting
               THEN ConnectionLost("done") /\ UNCHANGED writeDisconnected
               ELSE /\ writeDisconnected' = (writeDisconnected \/ writeDisconnecting)
                    /\ writing' = FALSE
                    /\ UNCHANGED <<connected, reading, fdProducer, lost>>
       ELSE /\ buffered' = Length /\ offset' = From + n /\ tempLen' = LeftInTemp
            /\ UNCHANGED <<connected, writeDisconnected, reading, writing, fdProducer, lost>>
    /\ UNCHANGED <<disconnecting, writeDisconnecting, aborting, accepted, halfClose>>

-------------------------------------------------------------------------------
Next ==
    \/ \E n \in 1..MaxBytes : Write(n)
    \/ LoseConnection \/ LoseWriteConnection \/ AbortConnection
    \/ \E kind \in {"push", "pull"} : RegisterProducer(kind)
    \/ UnregisterProducer \/ PauseProducing \/ ResumeProducing
    \/ ReadsEnd \/ Fails \/ Aborted
    \/ \E n \in 0..SendLimit : DoWrite(n)

\* The reactor calls a descriptor that stays writable, and the socket goes on
\* taking bytes.
Progress == \E n \in 0..SendLimit : DoWrite(n) /\ (n > 0 \/ Pending = 0)

Fairness == WF_fdVars(Progress) /\ WF_fdVars(Aborted)

Spec == Init /\ [][Next]_fdVars /\ Fairness

-------------------------------------------------------------------------------
Live == connected /\ ~aborting

(***************************************************************************)
(* loseWriteConnection, says ITCPTransport, happens "when buffer has       *)
(* emptied and there is no registered producer": until it has happened     *)
(* something will bring doWrite about.                                     *)
(***************************************************************************)
HalfCloseIsDriven ==
    (Live /\ writeDisconnecting /\ ~writeDisconnected /\ producer = "none") => writing

(***************************************************************************)
(* Nothing is left waiting for a doWrite that the reactor will not call:   *)
(* not buffered bytes, not a connection that is to close, not a producer   *)
(* that was paused or has yet to be asked again.  No byte that was         *)
(* accepted is lost before the connection is, and a connection that        *)
(* loseConnection closed has sent them all.                                *)
(***************************************************************************)
TransportIsDriven ==
    /\ (Live /\ (Pending > 0 \/ (disconnecting /\ producer = "none"))) => writing
    /\ (Live /\ producer # "none" /\ told = "pause") =>
          writing /\ (producer = "push" => producerPaused)
    /\ accepted = sent + Pending
    /\ lost = "done" => Pending = 0
    /\ ~connected => ~reading /\ ~writing /\ producer = "none"

(***************************************************************************)
(* loseConnection closes the connection, whatever was buffered and         *)
(* whenever the producer is unregistered.                                  *)
(***************************************************************************)
ClosesInTheEnd == (connected /\ disconnecting) ~> (~connected \/ producer # "none")
===============================================================================
