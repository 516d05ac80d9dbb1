------------------------------- MODULE HTTPServer -------------------------------
(***************************************************************************)
(* The server side of one HTTP/1.1 connection (twisted.web.http            *)
(* HTTPChannel and Request) over a TCP transport: parsing by the loop of   *)
(* LineReceiver, pipelined requests, back-pressure in both directions,     *)
(* producers of responses, the idle timeout and the end of the connection. *)
(* The client's data is a sequence of parts ("first" a request line, "get" *)
(* and "post" the end of headers without and with a body, "body" a body)   *)
(* that arrive in chunks of any size.                                      *)
(*                                                                         *)
(* Calls of the application are steps: while `process' of a request runs   *)
(* (inApp) and whenever control is in the reactor.                         *)
(***************************************************************************)
EXTENDS Naturals, Sequences, FiniteSets

CONSTANTS MaxParsed,   \* bound: requests that are created
          MaxChunk,    \* bound: parts that arrive in one chunk
          EagerSize,   \* self._optimisticEagerReadSize, in parts
          MaxWrites    \* bound: calls of Request.write

HTTPServerAssumption == MaxParsed \in Nat /\ MaxChunk \in Nat

Numbers == 1..MaxParsed   \* of requests

VARIABLES
    net,             \* the transport: "open", "losing" (loseConnection) or "lost"
    netReading,      \* it reads
    netFull,         \* its buffer is full and it has paused its producer
    netProducer,     \* the channel is its producer
    lastSent,        \* the last part the client has sent
    lineBuffer, lineMode, busy,      \* LineReceiver: _buffer, line_mode, _busyReceiving
    firstLine,       \* a request line is expected (__first_line)
    inApp,           \* the loop is inside Request.process, called for a "line" or
                     \* for "raw" data ("no": it is not)
    extra,           \* what came after the body of the request being processed
    requests, handlingRequest, dataBuffer, persistent,
    dropping,        \* dataReceived and lineReceived have been replaced
    waitingForTransport,
    timeOut, idleCall, savedTimeOut,   \* TimeoutMixin's timeOut and its delayed call
    abortingCall, abortCalls,   \* is there an _abortingCall; the delayed calls due
    status,          \* of each request: "new", "received", "processed", "finished", "told"
    queuedRequest,   \* Request.queued
    startedWriting,
    respProducer,    \* "none", "push" or "pull"
    respOwner,       \* the request that registered it (0: none)
    pauses,          \* how often it was paused more than resumed
    writes,
    mixed,           \* history: one of two requests that came together was left in
                     \* the parser, or put aside when the other was already done
    doubled          \* history: something was written to a full transport

netVars == <<net, netReading, netFull, netProducer>>
lineVars == <<lineBuffer, lineMode, busy, firstLine, inApp, extra>>
channelVars == <<requests, handlingRequest, dataBuffer, persistent, dropping>>
timeVars == <<timeOut, idleCall, savedTimeOut, abortingCall, abortCalls>>
requestVars == <<status, queuedRequest, startedWriting>>
respVars == <<respProducer, respOwner, pauses>>
httpdVars == <<netVars, lastSent, lineVars, channelVars, waitingForTransport, timeVars,
               requestVars, respVars, writes, mixed, doubled>>

\* connectionMade
Init ==
    /\ net = "open" /\ netReading = TRUE /\ netFull = FALSE /\ netProducer = TRUE
    /\ lastSent = "body"
    /\ lineBuffer = <<>> /\ lineMode = TRUE /\ busy = FALSE
    /\ firstLine = TRUE /\ inApp = "no" /\ extra = <<>>
    /\ requests = <<>> /\ handlingRequest = FALSE /\ dataBuffer = <<>>
    /\ persistent = TRUE /\ dropping = FALSE /\ waitingForTransport = FALSE
    /\ timeOut = TRUE /\ idleCall = TRUE /\ savedTimeOut = FALSE
    /\ abortingCall = FALSE /\ abortCalls = 0
    /\ status = [r \in Numbers |-> "new"]
    /\ queuedRequest = [r \in Numbers |-> FALSE]
    /\ startedWriting = [r \in Numbers |-> FALSE]
    /\ respProducer = "none" /\ respOwner = 0 /\ pauses = 0 /\ writes = 0
    /\ mixed = FALSE /\ doubled = FALSE

InReactor == ~busy
AppHasControl == busy => inApp # "no"
Created == Cardinality({r \in Numbers : status[r] # "new"})

\* A request line follows the end of a request, and so on.
Parts == {"first", "get", "post", "body"}
Follow == [p \in Parts |-> CASE p = "first" -> {"get", "post"}
                             [] p = "post" -> {"body"}
                             [] OTHER -> {"first"}]
Chunks ==
    [p \in Parts |->
        {c \in UNION {[1..n -> Parts] : n \in 1..MaxChunk} :
            c[1] \in Follow[p] /\ \A i \in 2..Len(c) : c[i] \in Follow[c[i - 1]]}]

-------------------------------------------------------------------------------
(***************************************************************************)
(* HTTPChannel.loseConnection: the transport has no producer any more, and *)
(* TCP stops reading.                                                      *)
(***************************************************************************)
LoseConnection ==
    /\ netProducer' = FALSE
    /\ net' = IF net = "open" THEN "losing" ELSE net
    /\ netReading' = FALSE

(***************************************************************************)
(* n calls of transport.write, k of which find the buffer over its limit.  *)
(* The transport then calls pauseProducing of the channel, each time, and  *)
(* the channel pauses the producer of the response, each time.  A push     *)
(* producer is paused or not; a pull producer's task counts.               *)
(***************************************************************************)
Overfull(n) == IF netFull THEN {n} ELSE 0..n

Pausing(k) == k > 0 /\ netProducer

PausesAfter(k) ==
    IF ~Pausing(k) THEN pauses
    ELSE CASE respProducer = "none" -> 0
           [] respProducer = "push" -> 1
           [] respProducer = "pull" -> pauses + k

\* ... and the transport's reading too, unless a request is being handled.
ReadingAfter(k) == netReading /\ (handlingRequest \/ ~Pausing(k))

PauseProducing(n, k) ==
    /\ netFull' = (netFull \/ k > 0)
    /\ waitingForTransport' = (waitingForTransport \/ Pausing(k))
    /\ doubled' = (doubled \/ (netFull /\ n > 0) \/ k > 1)

WriteToTransport(n) ==
    \E k \in Overfull(n) :
        PauseProducing(n, k) /\ pauses' = PausesAfter(k) /\ netReading' = ReadingAfter(k)

\* The transport's buffer is empty: it resumes its producer, if it had paused it.
ResumeProducing ==
    /\ waitingForTransport' = FALSE
    /\ pauses' = CASE respProducer = "pull" -> pauses - 1
                   [] OTHER -> 0
    /\ netReading' = (netReading \/ (~handlingRequest /\ net = "open"))

(***************************************************************************)
(* connectionLost of the transport and the channel: requests that are not  *)
(* done are told, and no delayed call is left.                             *)
(***************************************************************************)
ConnectionLost ==
    /\ net' = "lost" /\ netReading' = FALSE /\ netProducer' = FALSE
    /\ timeOut' = FALSE /\ idleCall' = FALSE
    /\ status' = [r \in Numbers |->
          IF \E i \in 1..Len(requests) : requests[i] = r THEN "told" ELSE status[r]]
    /\ abortCalls' = IF abortingCall THEN abortCalls - 1 ELSE abortCalls
    /\ abortingCall' = FALSE
    /\ UNCHANGED <<netFull, savedTimeOut>>

-------------------------------------------------------------------------------
(***************************************************************************)
(* dataReceived: while a request is being handled data is put aside, and   *)
(* beyond the limit the transport is paused.                               *)
(***************************************************************************)
DataReceived(chunk) ==
    IF handlingRequest
    THEN /\ dataBuffer' = dataBuffer \o chunk
         /\ netReading' = (waitingForTransport \/ Len(dataBuffer') <= EagerSize)
         /\ UNCHANGED <<lineBuffer, busy>>
    ELSE /\ lineBuffer' = lineBuffer \o chunk
         /\ busy' = TRUE
         /\ UNCHANGED <<dataBuffer, netReading>>

ClientSends ==
    /\ InReactor /\ net = "open" /\ netReading /\ Created < MaxParsed
    /\ \E chunk \in Chunks[lastSent] :
          /\ lastSent' = chunk[Len(chunk)]
          /\ IF dropping
             THEN UNCHANGED <<dataBuffer, netReading, lineBuffer, busy>>
             ELSE DataReceived(chunk)
    /\ Len(dataBuffer') <= EagerSize + MaxChunk
    /\ UNCHANGED <<net, netFull, netProducer, lineMode, firstLine, inApp, extra,
                   requests, handlingRequest, persistent, dropping, waitingForTransport,
                   timeVars, requestVars, respVars, writes, mixed, doubled>>

Parsing == busy /\ inApp = "no" /\ lineBuffer # <<>>
Line(part) == Parsing /\ lineMode /\ Head(lineBuffer) = part
RequestLineExpected == Parsing /\ lineMode /\ firstLine
HeadersExpected == Parsing /\ lineMode /\ ~firstLine

\* The loop goes on after a line, unless the transport is disconnecting.
NextLine ==
    /\ lineBuffer' = Tail(lineBuffer)
    /\ busy' = (net = "open")

(***************************************************************************)
(* _respondToBadRequestAndDisconnect; the loop of LineReceiver returns, as *)
(* the transport is disconnecting.                                         *)
(***************************************************************************)
BadRequest ==
    /\ \E k \in Overfull(1) : PauseProducing(1, k) /\ pauses' = PausesAfter(k)
    /\ LoseConnection
    /\ busy' = FALSE
    /\ UNCHANGED <<lastSent, lineMode, inApp, extra, handlingRequest, dataBuffer,
                   persistent, dropping, timeVars, startedWriting, respProducer,
                   respOwner, writes, mixed>>

\* Create a Request, which is "queued" if others are there.
NewRequest ==
    LET r == Created + 1 IN
    /\ r \in Numbers
    /\ requests' = Append(requests, r)
    /\ status' = [status EXCEPT ![r] = "received"]
    /\ queuedRequest' = [queuedRequest EXCEPT ![r] = requests # <<>>]

RequestLine ==
    /\ RequestLineExpected /\ Line("first") /\ persistent
    /\ NewRequest
    /\ NextLine
    /\ firstLine' = FALSE
    /\ UNCHANGED <<netVars, lastSent, lineMode, inApp, extra, handlingRequest,
                   dataBuffer, persistent, dropping, waitingForTransport, timeVars,
                   startedWriting, respVars, writes, mixed, doubled>>

\* The line makes no sense, or there are too many headers.
BadRequestLine ==
    /\ RequestLineExpected
    /\ \/ persistent /\ NewRequest /\ firstLine' = FALSE
       \/ UNCHANGED <<requests, status, queuedRequest, firstLine>>
    /\ BadRequest
    /\ lineBuffer' = Tail(lineBuffer)

\* lineLengthExceeded closes the transport, not the channel.
LineTooLong ==
    /\ Parsing /\ lineMode
    /\ net' = "losing" /\ netReading' = FALSE
    /\ busy' = FALSE /\ lineBuffer' = <<>>
    /\ UNCHANGED <<netFull, netProducer, lastSent, lineMode, firstLine, inApp, extra,
                   channelVars, waitingForTransport, timeVars, requestVars, respVars,
                   writes, mixed, doubled>>

\* What follows the last request of the connection is ignored, for good.
IgnoreRest ==
    /\ RequestLineExpected /\ ~persistent
    /\ dropping' = TRUE
    /\ lineBuffer' = <<>>
    /\ busy' = FALSE
    /\ UNCHANGED <<netVars, lastSent, lineMode, firstLine, inApp, extra, requests,
                   handlingRequest, dataBuffer, persistent, waitingForTransport, timeVars,
                   requestVars, respVars, writes, mixed, doubled>>

(***************************************************************************)
(* allContentReceived: the idle timeout is off while the request is        *)
(* handled, and the application's `process' is called.                     *)
(***************************************************************************)
AllContentReceived ==
    /\ savedTimeOut' = (savedTimeOut \/ timeOut)
    /\ timeOut' = FALSE
    /\ idleCall' = (idleCall /\ ~timeOut)
    /\ firstLine' = TRUE
    /\ handlingRequest' = TRUE
    /\ status' = [status EXCEPT ![requests[Len(requests)]] = "processed"]
    /\ UNCHANGED <<net, netProducer, lastSent, busy, requests, dataBuffer, dropping,
                   abortingCall, abortCalls, queuedRequest, startedWriting, respProducer,
                   respOwner, writes>>

\* allHeadersReceived: HTTP/1.1 without "Connection: close", or not; "100
\* Continue" may be sent.
AllHeadersReceived ==
    /\ persistent' \in BOOLEAN
    /\ \E n \in {0, 1} : WriteToTransport(n)

EndOfHeaders ==
    /\ HeadersExpected /\ Line("get")
    /\ AllHeadersReceived
    /\ lineBuffer' = Tail(lineBuffer)
    /\ inApp' = "line"
    /\ AllContentReceived
    /\ mixed' = (mixed \/ Tail(lineBuffer) # <<>>)
    /\ UNCHANGED <<lineMode, extra>>

BodyFollows ==
    /\ HeadersExpected /\ Line("post")
    /\ AllHeadersReceived
    /\ NextLine
    /\ lineMode' = FALSE
    /\ UNCHANGED <<net, netProducer, lastSent, firstLine, inApp, extra, requests,
                   handlingRequest, dataBuffer, dropping, timeVars, requestVars,
                   respProducer, respOwner, writes, mixed>>

BadHeaders ==
    /\ HeadersExpected
    /\ BadRequest
    /\ lineBuffer' = Tail(lineBuffer)
    /\ UNCHANGED <<firstLine, requests, status, queuedRequest>>

\* rawDataReceived takes all there is; what follows the body is put aside when
\* the application's `process' has returned (_finishRequestBody).
Body ==
    /\ Parsing /\ ~lineMode
    /\ extra' = Tail(lineBuffer)
    /\ lineBuffer' = <<>>
    /\ inApp' = "raw"
    /\ AllContentReceived
    /\ UNCHANGED <<lineMode, persistent, netReading, netFull, waitingForTransport, pauses,
                   mixed, doubled>>

BadBody ==
    /\ Parsing /\ ~lineMode
    /\ BadRequest
    /\ lineBuffer' = <<>>
    /\ UNCHANGED <<firstLine, requests, status, queuedRequest>>

ProcessReturns ==
    /\ busy /\ inApp # "no"
    /\ inApp' = "no"
    /\ dataBuffer' = dataBuffer \o extra
    /\ extra' = <<>>
    /\ busy' = (net = "open" \/ inApp = "raw")
    /\ UNCHANGED <<netVars, lastSent, lineBuffer, lineMode, firstLine, requests,
                   handlingRequest, persistent, dropping, waitingForTransport, timeVars,
                   requestVars, respVars, writes, mixed, doubled>>

LoopEnds ==
    /\ busy /\ inApp = "no" /\ lineBuffer = <<>>
    /\ busy' = FALSE
    /\ UNCHANGED <<netVars, lastSent, lineBuffer, lineMode, firstLine, inApp, extra,
                   channelVars, waitingForTransport, timeVars, requestVars, respVars,
                   writes, mixed, doubled>>

-------------------------------------------------------------------------------
(***************************************************************************)
(* The application.  A producer writes only while it is not paused.  The   *)
(* first write of a response is preceded by that of its headers.           *)
(***************************************************************************)
Handled(r) == status[r] = "processed"

Write(r) ==
    /\ AppHasControl /\ Handled(r) /\ writes < MaxWrites
    /\ respOwner = r => pauses = 0
    /\ writes' = writes + 1
    /\ startedWriting' = [startedWriting EXCEPT ![r] = TRUE]
    /\ WriteToTransport(IF startedWriting[r] THEN 1 ELSE 2)
    /\ UNCHANGED <<net, netProducer, lastSent, lineVars, channelVars, timeVars, status,
                   queuedRequest, respProducer, respOwner, mixed>>

RegisterProducer(r, kind) ==
    /\ AppHasControl /\ Handled(r) /\ respProducer = "none"
    /\ respProducer' = kind /\ respOwner' = r /\ pauses' = 0
    /\ UNCHANGED <<netVars, lastSent, lineVars, channelVars, waitingForTransport, timeVars,
                   requestVars, writes, mixed, doubled>>

Unregistered == respProducer' = "none" /\ respOwner' = 0 /\ pauses' = 0

UnregisterProducer(r) ==
    /\ AppHasControl /\ respOwner = r /\ Handled(r)
    /\ Unregistered
    /\ UNCHANGED <<netVars, lastSent, lineVars, channelVars, waitingForTransport, timeVars,
                   requestVars, writes, mixed, doubled>>

\* setTimeout of a period: the idle call is made or started again.
RestoreTimeout ==
    /\ timeOut' = (timeOut \/ savedTimeOut)
    /\ idleCall' = (idleCall \/ savedTimeOut)

(***************************************************************************)
(* requestDone: data that was put aside is received, by the loop that is   *)
(* under way if there is one.                                              *)
(***************************************************************************)
ReceiveBuffered ==
    /\ handlingRequest' = FALSE
    /\ RestoreTimeout
    /\ dataBuffer' = <<>>
    /\ lineMode' = TRUE
    /\ lineBuffer' = IF dropping THEN lineBuffer ELSE lineBuffer \o dataBuffer
    /\ busy' = (busy \/ (dataBuffer # <<>> /\ ~dropping))

\* Not what the code does: the transport is left as it is.
StayPaused(k) == netReading' = ReadingAfter(k)

\* The transport is read again, unless it is full.
ResumeReading(k) ==
    netReading' = (ReadingAfter(k) \/ (~waitingForTransport' /\ net = "open"))

RequestDone(k) ==
    /\ requests' = Tail(requests)
    /\ IF persistent
       THEN /\ ReceiveBuffered /\ ResumeReading(k)
            /\ UNCHANGED <<net, netProducer>>
       ELSE LoseConnection
            /\ UNCHANGED <<handlingRequest, timeOut, idleCall, dataBuffer, lineMode,
                           lineBuffer, busy>>

(***************************************************************************)
(* finish writes the headers, if nothing was written yet, and the last     *)
(* chunk of a response in chunks.  A request that is "queued" is not       *)
(* cleaned up.                                                             *)
(***************************************************************************)
LastWrites(r) == IF startedWriting[r] THEN {0, 1} ELSE {1, 2}

Queued(k) ==
    /\ netReading' = ReadingAfter(k) /\ pauses' = PausesAfter(k)
    /\ UNCHANGED <<net, netProducer, requests, handlingRequest, timeOut, idleCall,
                   dataBuffer, lineMode, lineBuffer, busy, respProducer, respOwner>>

Cleanup(r, k) ==
    /\ RequestDone(k)
    /\ IF respOwner = r THEN Unregistered
       ELSE pauses' = PausesAfter(k) /\ UNCHANGED <<respProducer, respOwner>>

Finish(r) ==
    /\ AppHasControl /\ Handled(r)
    /\ status' = [status EXCEPT ![r] = "finished"]
    /\ startedWriting' = [startedWriting EXCEPT ![r] = TRUE]
    /\ \E n \in LastWrites(r) : \E k \in Overfull(n) :
          /\ PauseProducing(n, k)
          /\ IF queuedRequest[r] THEN Queued(k) ELSE Cleanup(r, k)
    /\ mixed' = (mixed \/ (persistent /\ extra # <<>>))
    /\ UNCHANGED <<lastSent, firstLine, inApp, extra, persistent, dropping, savedTimeOut,
                   abortingCall, abortCalls, queuedRequest, writes>>

\* Request.loseConnection
Lose(r) ==
    /\ AppHasControl /\ Handled(r) /\ net = "open"
    /\ LoseConnection
    /\ UNCHANGED <<netFull, lastSent, lineVars, channelVars, waitingForTransport, timeVars,
                   requestVars, respVars, writes, mixed, doubled>>

-------------------------------------------------------------------------------
(***************************************************************************)
(* The reactor: the transport's buffer empties, timeouts, the end.         *)
(***************************************************************************)
\* A pull producer that is not paused cannot be resumed: the exception ends
\* the connection.
Drained ==
    /\ InReactor /\ net # "lost" /\ netFull
    /\ IF ~netProducer
       THEN /\ netFull' = FALSE
            /\ UNCHANGED <<net, netReading, netProducer, waitingForTransport, pauses,
                           timeVars, status>>
       ELSE IF respProducer = "pull" /\ pauses = 0
       THEN /\ ConnectionLost /\ waitingForTransport' = FALSE /\ UNCHANGED pauses
       ELSE /\ netFull' = FALSE /\ ResumeProducing
            /\ UNCHANGED <<net, netProducer, timeVars, status>>
    /\ UNCHANGED <<lastSent, lineVars, channelVars, queuedRequest, startedWriting,
                   respProducer, respOwner, writes, mixed, doubled>>

\* timeoutConnection
TimesOut ==
    /\ InReactor /\ idleCall
    /\ idleCall' = FALSE
    /\ abortingCall' = TRUE /\ abortCalls' = abortCalls + 1
    /\ LoseConnection
    /\ UNCHANGED <<netFull, lastSent, lineVars, channelVars, waitingForTransport, timeOut,
                   savedTimeOut, requestVars, respVars, writes, mixed, doubled>>

\* forceAbortClient; abortConnection reports the loss later.
ForceAbort ==
    /\ InReactor /\ abortCalls > 0
    /\ abortCalls' = abortCalls - 1 /\ abortingCall' = FALSE
    /\ net' = IF net = "open" THEN "losing" ELSE net
    /\ netReading' = FALSE
    /\ UNCHANGED <<netFull, netProducer, lastSent, lineVars, channelVars,
                   waitingForTransport, timeOut, idleCall, savedTimeOut, requestVars,
                   respVars, writes, mixed, doubled>>

TransportEnds ==
    /\ InReactor /\ net # "lost"
    /\ ConnectionLost
    /\ UNCHANGED <<lastSent, lineVars, channelVars, waitingForTransport, queuedRequest,
                   startedWriting, respVars, writes, mixed, doubled>>

App ==
    \E r \in Numbers :
        \/ Write(r) \/ UnregisterProducer(r) \/ Finish(r) \/ Lose(r)
        \/ \E kind \in {"push", "pull"} : RegisterProducer(r, kind)

Parse ==
    \/ RequestLine \/ BadRequestLine \/ LineTooLong \/ IgnoreRest \/ EndOfHeaders
    \/ BodyFollows \/ BadHeaders \/ Body \/ BadBody \/ ProcessReturns \/ LoopEnds

Next == ClientSends \/ Parse \/ App \/ Drained \/ TimesOut \/ ForceAbort \/ TransportEnds

Spec == Init /\ [][Next]_httpdVars

-------------------------------------------------------------------------------
(***************************************************************************)
(* "Do not relay pipelined requests to the application until the previous  *)
(* request has been answered", says HTTPChannel of itself.                 *)
(***************************************************************************)
OneAtATime == Cardinality({r \in Numbers : Handled(r)}) <= 1

(***************************************************************************)
(* pauseProducing: "if we are unable to send our responses, we will not    *)
(* read further data".                                                     *)
(***************************************************************************)
NoReadingWhileFull == (InReactor /\ waitingForTransport /\ netReading) => handlingRequest

\* The task of a pull producer is resumed only if it is paused.
ResumesOnlyPaused == (netFull /\ netProducer /\ respProducer = "pull") => pauses > 0

(***************************************************************************)
(* Requests are handled one at a time, and between them the channel is     *)
(* idle, with its timeout running and nothing left unparsed: always if     *)
(* they come one by one, and if they come together as long as the first    *)
(* one has a body and is not answered inside `process'.                    *)
(***************************************************************************)
HandlesInTurn ==
    /\ OneAtATime
    /\ (InReactor /\ net = "open") =>
          /\ handlingRequest <=> \E r \in Numbers : Handled(r)
          /\ ~handlingRequest => dataBuffer = <<>> /\ lineBuffer = <<>> /\ idleCall

(***************************************************************************)
(* Whatever order data, responses, back-pressure and timeouts come in: a   *)
(* connection that is not read will be read again, when a request is done  *)
(* or the transport has emptied its buffer; a producer that was paused     *)
(* will be resumed (unless something was written to a full transport); and *)
(* when the connection ends every request has been answered or told, and   *)
(* no timer is left.                                                       *)
(***************************************************************************)
ServerIsSound ==
    /\ mixed \/ HandlesInTurn
    /\ (InReactor /\ net = "open" /\ ~netReading) => handlingRequest \/ waitingForTransport
    /\ (waitingForTransport /\ netProducer /\ net # "lost") => netFull
    /\ (pauses > 0 /\ netProducer /\ ~doubled) => waitingForTransport
    /\ net = "lost" =>
          /\ \A r \in Numbers : status[r] \notin {"received", "processed"}
          /\ ~idleCall /\ (mixed \/ abortCalls = 0)
===============================================================================
