------------------------------- MODULE HTTPClient -------------------------------
(***************************************************************************)
(* The HTTP/1.1 client: web.client.HTTPConnectionPool (for one key),       *)
(* _RetryingHTTP11ClientProtocol, and for every connection an              *)
(* _newclient.HTTP11ClientProtocol with its parser and Response.  A GET    *)
(* stands for the requests that are idempotent and have no body (written   *)
(* at once, retried); a POST for those with a body.  What applications do  *)
(* in callbacks is a step of its own.                                      *)
(***************************************************************************)
EXTENDS Naturals, Sequences, SequencesExt

CONSTANTS Conns, Requests,   \* bounds: connections made, requests issued
          MaxPersistent,     \* maxPersistentPerHost
          None

\* _putConnection takes the first connection out of a list that is full.
HTTPClientAssumption ==
    /\ None \notin Conns \cup Requests
    /\ MaxPersistent \in Nat \ {0}

VARIABLES
    method,      \* "GET" or "POST", of each request
    fate,        \* of request's Deferred: "new", "connecting", "waiting" (on
                 \* _finishedRequest), "response", "failed"
    on,          \* the connection each request uses or used last
    wrapped,     \* the request uses a _RetryingHTTP11ClientProtocol
    sends,       \* history: how often it was sent
    got,         \* of its response: "nothing", "part", all headers and a "body" to
                 \* come (or a "tail", one that ends with the connection), "done"
    body,        \* the Response's _state, "none" before there is one
    hstate,      \* _state of each connection, "unmade" before it exists
    parser,      \* the request whose parser is attached, or None
    writing,     \* the request whose writeTo has not ended, or None
    chained,     \* _responseDeferred is chained to _finishedRequest
    paused,      \* the transport is paused
    closing,     \* loseConnection or abortConnection was called
    cached,      \* _connections[key]
    timers       \* the keys of _timeouts

httpRequests == <<method, fate, on, wrapped, sends, got, body>>
httpConns == <<hstate, parser, writing, chained, paused, closing>>
httpVars == <<httpRequests, httpConns, cached, timers>>

Init ==
    /\ method \in [Requests -> {"GET", "POST"}]
    /\ fate = [r \in Requests |-> "new"] /\ on = [r \in Requests |-> None]
    /\ wrapped = [r \in Requests |-> FALSE] /\ sends = [r \in Requests |-> 0]
    /\ got = [r \in Requests |-> "nothing"] /\ body = [r \in Requests |-> "none"]
    /\ hstate = [c \in Conns |-> "unmade"]
    /\ parser = [c \in Conns |-> None] /\ writing = [c \in Conns |-> None]
    /\ chained = [c \in Conns |-> FALSE] /\ paused = [c \in Conns |-> FALSE]
    /\ closing = [c \in Conns |-> FALSE]
    /\ cached = <<>> /\ timers = {}

Exists(c) == hstate[c] \notin {"unmade", "CONNECTION_LOST"}

-------------------------------------------------------------------------------
(***************************************************************************)
(* HTTP11ClientProtocol.request, called at once when the pool or the       *)
(* endpoint yields the connection.                                         *)
(***************************************************************************)
Request(c, r, again) ==
    /\ on' = [on EXCEPT ![r] = c] /\ wrapped' = [wrapped EXCEPT ![r] = again]
    /\ sends' = [sends EXCEPT ![r] = @ + 1]
    /\ parser' = [parser EXCEPT ![c] = r]
    /\ \/ /\ method[r] = "GET"
          /\ hstate' = [hstate EXCEPT ![c] = "WAITING"]
          /\ chained' = [chained EXCEPT ![c] = TRUE]
          /\ fate' = [fate EXCEPT ![r] = "waiting"]
          /\ UNCHANGED <<writing, closing>>
       \/ /\ method[r] = "POST"
          /\ hstate' = [hstate EXCEPT ![c] = "TRANSMITTING"]
          /\ chained' = [chained EXCEPT ![c] = FALSE]
          /\ fate' = [fate EXCEPT ![r] = "waiting"] /\ writing' = [writing EXCEPT ![c] = r]
          /\ UNCHANGED closing
       \/ \* writeTo raises
          /\ hstate' = [hstate EXCEPT ![c] = "GENERATION_FAILED"]
          /\ closing' = [closing EXCEPT ![c] = TRUE] /\ fate' = [fate EXCEPT ![r] = "failed"]
          /\ chained' = [chained EXCEPT ![c] = FALSE] /\ UNCHANGED writing
    /\ UNCHANGED <<method, got, body, paused>>

\* getConnection: the first cached connection that is still quiescent.
Usable == SelectInSeq(cached, LAMBDA c : hstate[c] = "QUIESCENT")

GetConnection(r) ==
    /\ fate[r] = "new"
    /\ IF Usable = 0
       THEN /\ cached' = <<>> /\ timers' = {} /\ fate' = [fate EXCEPT ![r] = "connecting"]
            /\ UNCHANGED <<method, on, wrapped, sends, got, body, httpConns>>
       ELSE /\ cached' = SubSeq(cached, Usable + 1, Len(cached))
            /\ timers' = timers \ {cached[i] : i \in 1..Usable}
            /\ Request(cached[Usable], r, TRUE)

Connects(r, c) ==
    /\ fate[r] = "connecting" /\ hstate[c] = "unmade"
    /\ Request(c, r, FALSE)
    /\ UNCHANGED <<cached, timers>>

ConnectFails(r) ==
    /\ fate[r] = "connecting" /\ fate' = [fate EXCEPT ![r] = "failed"]
    /\ UNCHANGED <<method, on, wrapped, sends, got, body, httpConns, cached, timers>>

-------------------------------------------------------------------------------
(***************************************************************************)
(* The end of a parser.                                                    *)
(***************************************************************************)
RetryAnything(r) == wrapped[r]

ShouldRetry(r) == wrapped[r] /\ method[r] = "GET" /\ got[r] = "nothing"

BodyFinished(state) ==
    CASE state = "INITIAL" -> "DEFERRED_CLOSE" [] state = "CONNECTED" -> "FINISHED" [] OTHER -> state

\* The decoder of a body of unknown length calls _finishResponse first, which
\* raises in states other than WAITING.
CanEndBody(c) == got[parser[c]] # "tail" \/ hstate[c] = "WAITING"

\* _disconnectParser, for a response that is complete or never will be.
DisconnectParser(c, retry) ==
    LET r == parser[c] IN
    /\ parser' = [parser EXCEPT ![c] = None]
    /\ IF r = None THEN UNCHANGED <<fate, body>> ELSE
       /\ body' = [body EXCEPT ![r] = IF CanEndBody(c) THEN BodyFinished(@) ELSE @]
       /\ fate' = IF got[r] \in {"nothing", "part"} /\ chained[c]
                  THEN [fate EXCEPT ![r] = IF retry /\ ShouldRetry(r) THEN "connecting"
                                           ELSE "failed"]
                  ELSE fate

-------------------------------------------------------------------------------
(***************************************************************************)
(* The request's writeTo ends.                                             *)
(***************************************************************************)
Written(c) ==
    /\ writing[c] # None /\ writing' = [writing EXCEPT ![c] = None]
    /\ IF hstate[c] = "TRANSMITTING"
       THEN /\ hstate' = [hstate EXCEPT ![c] = "WAITING"]
            /\ chained' = [chained EXCEPT ![c] = parser[c] # None]
            /\ fate' = IF parser[c] # None /\ got[parser[c]] \in {"body", "tail"}
                       THEN [fate EXCEPT ![parser[c]] = "response"] ELSE fate
       ELSE UNCHANGED <<hstate, chained, fate>>
    /\ UNCHANGED <<method, on, wrapped, sends, got, body, parser, paused, closing, cached, timers>>

WriteFails(c) ==
    /\ writing[c] # None /\ writing' = [writing EXCEPT ![c] = None]
    /\ IF hstate[c] = "TRANSMITTING"
       THEN /\ hstate' = [hstate EXCEPT ![c] = "GENERATION_FAILED"]
            /\ closing' = [closing EXCEPT ![c] = TRUE]
            /\ fate' = IF parser[c] # None THEN [fate EXCEPT ![parser[c]] = "failed"] ELSE fate
       ELSE UNCHANGED <<hstate, closing, fate>>
    /\ UNCHANGED <<method, on, wrapped, sends, got, body, parser, chained, paused, cached, timers>>

-------------------------------------------------------------------------------
(***************************************************************************)
(* dataReceived.  A transport that is closing reads no more.               *)
(***************************************************************************)
AfterResponse(state) == IF state = "WAITING" THEN "QUIESCENT" ELSE "AFTER_RESPONSE"

Reads(c) == Exists(c) /\ ~paused[c] /\ ~closing[c]

\* Data nobody asked for, that cannot be parsed, or that the application's
\* body protocol fails to take: _giveUp.
Garbage(c) ==
    /\ Reads(c)
    /\ LET r == parser[c] IN
       /\ got' = IF r # None /\ got[r] = "nothing" THEN [got EXCEPT ![r] = "part"] ELSE got
       /\ hstate' = IF r # None /\ got[r] = "tail" THEN [hstate EXCEPT ![c] = AfterResponse(@)]
                    ELSE hstate
    /\ closing' = [closing EXCEPT ![c] = TRUE] /\ DisconnectParser(c, FALSE)
    /\ UNCHANGED <<method, on, wrapped, sends, writing, chained, paused, cached, timers>>

SomeData(c) ==
    /\ Reads(c) /\ parser[c] # None /\ got[parser[c]] = "nothing"
    /\ got' = [got EXCEPT ![parser[c]] = "part"]
    /\ UNCHANGED <<method, fate, on, wrapped, sends, body, httpConns, cached, timers>>

\* All headers of a response with a body.
Headers(c, length) ==
    /\ Reads(c) /\ parser[c] # None /\ got[parser[c]] \in {"nothing", "part"}
    /\ got' = [got EXCEPT ![parser[c]] = length]
    /\ body' = [body EXCEPT ![parser[c]] = "INITIAL"]
    /\ paused' = [paused EXCEPT ![c] = TRUE]
    /\ fate' = IF chained[c] THEN [fate EXCEPT ![parser[c]] = "response"] ELSE fate
    /\ UNCHANGED <<method, on, wrapped, sends, hstate, parser, writing, chained, closing, cached, timers>>

\* _putConnection
PutConnection(c) ==
    /\ LET full == Len(cached) = MaxPersistent
           kept == IF full THEN Tail(cached) ELSE cached
           dropped == IF full THEN {Head(cached)} ELSE {}
       IN /\ cached' = Append(kept, c) /\ timers' = (timers \ dropped) \cup {c}
          /\ closing' = [d \in Conns |-> closing[d] \/ d \in dropped]

\* _finishResponse: the response is complete, `keep' if the server and the
\* pool want to keep the connection.  The end may come in one segment with
\* the headers.
Finish(c, keep) ==
    LET r == parser[c] IN
    /\ Exists(c) /\ ~closing[c] /\ r # None /\ got[r] # "tail"
    /\ Reads(c) \/ (got[r] = "body" /\ body[r] = "INITIAL")
    /\ got' = [got EXCEPT ![r] = "done"] /\ fate' = [fate EXCEPT ![r] = "response"]
    /\ body' = [body EXCEPT ![r] = IF @ = "none" THEN "DEFERRED_CLOSE" ELSE BodyFinished(@)]
    /\ parser' = [parser EXCEPT ![c] = None]
    /\ IF hstate[c] = "WAITING" /\ keep
       THEN /\ hstate' = [hstate EXCEPT ![c] = "QUIESCENT"]
            /\ paused' = [paused EXCEPT ![c] = FALSE]
            /\ PutConnection(c)
       ELSE /\ hstate' = [hstate EXCEPT ![c] = AfterResponse(@)]
            /\ closing' = [closing EXCEPT ![c] = TRUE]
            /\ UNCHANGED <<paused, cached, timers>>
    /\ UNCHANGED <<method, on, wrapped, sends, writing, chained>>

-------------------------------------------------------------------------------
(***************************************************************************)
(* The application: it takes the body, pauses and resumes it through the   *)
(* TransportProxyProducer, cancels, aborts, closes the pool.               *)
(***************************************************************************)
Proxied(r) == on[r] # None /\ parser[on[r]] = r

SetPaused(r, yes) ==
    paused' = IF Proxied(r) THEN [paused EXCEPT ![on[r]] = yes] ELSE paused

DeliverBody(r) ==
    /\ fate[r] = "response" /\ body[r] \in {"INITIAL", "DEFERRED_CLOSE"}
    /\ \/ body[r] = "INITIAL" /\ body' = [body EXCEPT ![r] = "CONNECTED"] /\ SetPaused(r, FALSE)
       \/ body[r] = "DEFERRED_CLOSE" /\ body' = [body EXCEPT ![r] = "FINISHED"] /\ UNCHANGED paused
    /\ UNCHANGED <<method, fate, on, wrapped, sends, got, hstate, parser, writing, chained,
                   closing, cached, timers>>

PauseBody(r, yes) ==
    /\ body[r] \in {"CONNECTED", "FINISHED"} /\ SetPaused(r, yes)
    /\ UNCHANGED <<httpRequests, hstate, parser, writing, chained, closing, cached, timers>>

CancelRequest(r) ==
    /\ fate[r] = "waiting" /\ fate' = [fate EXCEPT ![r] = "failed"]
    /\ LET c == on[r] IN
       /\ closing' = [closing EXCEPT ![c] = TRUE]
       /\ IF hstate[c] = "TRANSMITTING"
          THEN /\ hstate' = [hstate EXCEPT ![c] = "GENERATION_FAILED"]
               /\ writing' = [writing EXCEPT ![c] = None]
               /\ UNCHANGED parser
          ELSE /\ parser' = [parser EXCEPT ![c] = None]
               /\ UNCHANGED <<hstate, writing>>
    /\ UNCHANGED <<method, on, wrapped, sends, got, body, chained, paused, cached, timers>>

Abort(c) ==
    /\ Exists(c) /\ hstate[c] # "ABORTING" /\ hstate' = [hstate EXCEPT ![c] = "ABORTING"]
    /\ closing' = [closing EXCEPT ![c] = TRUE]
    /\ UNCHANGED <<httpRequests, parser, writing, chained, paused, cached, timers>>

CloseCachedConnections ==
    /\ cached # <<>> /\ cached' = <<>> /\ timers' = {}
    /\ LET aborted == {c \in Range(cached) : hstate[c] # "CONNECTION_LOST"} IN
       /\ hstate' = [c \in Conns |-> IF c \in aborted THEN "ABORTING" ELSE hstate[c]]
       /\ closing' = [c \in Conns |-> closing[c] \/ c \in aborted]
    /\ UNCHANGED <<httpRequests, parser, writing, chained, paused>>

\* _removeConnection, called by the timeout.
RemoveConnection(c) ==
    /\ c \in timers /\ timers' = timers \ {c}
    /\ cached' = RemoveFirst(cached, c)
    /\ closing' = [closing EXCEPT ![c] = TRUE]
    /\ UNCHANGED <<httpRequests, hstate, parser, writing, chained, paused>>

-------------------------------------------------------------------------------
(***************************************************************************)
(* connectionLost, in each state.                                          *)
(***************************************************************************)
ConnectionLost(c) ==
    /\ Exists(c) /\ (closing[c] \/ ~paused[c] \/ writing[c] # None)
    /\ hstate' = [hstate EXCEPT ![c] = "CONNECTION_LOST"]
    /\ writing' = [writing EXCEPT ![c] = None]
    /\ CASE hstate[c] \in {"WAITING", "ABORTING"} -> DisconnectParser(c, TRUE)
         [] hstate[c] = "TRANSMITTING" ->
               /\ fate' = IF parser[c] # None THEN [fate EXCEPT ![parser[c]] = "failed"] ELSE fate
               /\ UNCHANGED <<parser, body>>
         [] OTHER -> UNCHANGED <<fate, parser, body>>
    /\ UNCHANGED <<method, on, wrapped, sends, got, chained, paused, closing, cached, timers>>

-------------------------------------------------------------------------------
Next ==
    \/ \E r \in Requests :
          \/ GetConnection(r) \/ ConnectFails(r) \/ DeliverBody(r) \/ CancelRequest(r)
          \/ \E c \in Conns : Connects(r, c)
          \/ \E yes \in BOOLEAN : PauseBody(r, yes)
    \/ \E c \in Conns :
          \/ Written(c) \/ WriteFails(c) \/ Garbage(c) \/ SomeData(c)
          \/ Abort(c) \/ RemoveConnection(c) \/ ConnectionLost(c)
          \/ \E keep \in BOOLEAN : Finish(c, keep)
          \/ \E length \in {"body", "tail"} : Headers(c, length)
    \/ CloseCachedConnections

Spec == Init /\ [][Next]_httpVars

-------------------------------------------------------------------------------
(***************************************************************************)
(* request() is to return "a Deferred which will fire with a Response      *)
(* instance or an error": when its connection is gone it has fired.        *)
(***************************************************************************)
NoRequestOutlivesItsConnection ==
    \A r \in Requests : fate[r] = "waiting" => Exists(on[r])

(***************************************************************************)
(* The pool: a connection that is open and idle is cached, and so has a    *)
(* timeout; what is cached serves no request, and no longer belongs to the *)
(* body of an earlier response that could pause it.                        *)
(***************************************************************************)
IdleIsCached ==
    /\ Range(cached) = timers /\ Len(cached) <= MaxPersistent /\ IsInjective(cached)
    /\ \A c \in Conns : (hstate[c] = "QUIESCENT" /\ ~closing[c]) => c \in timers
    /\ \A c \in timers : parser[c] = None /\ ~paused[c]

(***************************************************************************)
(* A request is sent again at most once, and never after a part of its     *)
(* response was seen.  While its Deferred has not fired it has a parser of *)
(* its own that will fire it (unless that was given up or aborted before   *)
(* the request was written), and a response whose body is not at its end   *)
(* has one that will end it (unless an abort cut a body of unknown length).*)
(***************************************************************************)
RequestsAreAnswered ==
    /\ \A r \in Requests : sends[r] <= 2 /\ (fate[r] = "connecting" => got[r] = "nothing")
    /\ \A r \in Requests : fate[r] = "waiting" =>
          LET c == on[r] IN
          \/ parser[c] = r /\ Exists(c)
          \/ ~chained[c] /\ closing[c]
    /\ \A r \in Requests : (fate[r] = "response" /\ body[r] \in {"INITIAL", "CONNECTED"}) =>
          \/ parser[on[r]] = r /\ Exists(on[r])
          \/ got[r] = "tail" /\ closing[on[r]]
    /\ \A c \in Conns : \A r \in Requests : parser[c] = r => on[r] = c

(***************************************************************************)
(* Both: connections are given out, kept and closed so that neither a      *)
(* connection nor a request is left behind.                                *)
(***************************************************************************)
HTTPClientIsSound == IdleIsCached /\ RequestsAreAnswered
=================================================================================
