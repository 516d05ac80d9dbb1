-------------------------------- MODULE Connector --------------------------------
(***************************************************************************)
(* base.BaseConnector with the client transports it makes (tcp's           *)
(* _BaseBaseClient and BaseClient) and its factory, which is a             *)
(* ReconnectingClientFactory or one that may call connect() from           *)
(* clientConnectionFailed or clientConnectionLost.  The length of a delay  *)
(* is left out.  A transport that has failed has no connector attribute,   *)
(* so what its socket or its look-up still reports changes nothing.        *)
(***************************************************************************)
EXTENDS Naturals, FiniteSets

CONSTANTS Transports,  \* bound: the transports made
          MaxRetries

ConnectorAssumption == MaxRetries \in Nat

VARIABLES
    connState,       \* BaseConnector.state
    transport,       \* {self.transport}; {} when it is None or deleted
    timers,          \* transports whose failIfNotConnected is scheduled
    tstate,          \* "unmade", "connecting", "connected", "gone"
    factoryStarted, numPorts,
    factory,         \* "plain" or "reconnecting"
    known,           \* ReconnectingClientFactory.connector is set
    retryCalls,      \* how many reconnector calls are scheduled ...
    callID,          \* ... and whether _callID refers to one
    retries, continueTrying,
    stray            \* history: connect or resetDelay was called while a retry was due

ctConn == <<connState, transport, timers, tstate, factoryStarted, numPorts>>
ctRetry == <<known, retryCalls, callID, retries, continueTrying, stray>>
ctVars == <<ctConn, ctRetry, factory>>

Init ==
    /\ connState = "disconnected" /\ transport = {} /\ timers = {}
    /\ tstate = [t \in Transports |-> "unmade"]
    /\ factoryStarted = FALSE /\ numPorts = 0
    /\ factory \in {"plain", "reconnecting"} /\ known = FALSE
    /\ retryCalls = 0 /\ callID = FALSE /\ retries = 0 /\ continueTrying = TRUE
    /\ stray = FALSE

-------------------------------------------------------------------------------
(***************************************************************************)
(* connect(), by the application, a factory, or a retry.                   *)
(***************************************************************************)
Unmade == {t \in Transports : tstate[t] = "unmade"}

Connect(t) ==
    /\ connState' = "connecting" /\ transport' = {t} /\ timers' = timers \cup {t}
    /\ tstate' = [tstate EXCEPT ![t] = "connecting"]
    /\ factoryStarted' = TRUE /\ numPorts' = numPorts + (IF factoryStarted THEN 0 ELSE 1)

AppConnects ==
    /\ connState = "disconnected"
    /\ \E t \in Unmade : Connect(t)
    /\ stray' = (stray \/ retryCalls > 0)
    /\ UNCHANGED <<known, retryCalls, callID, retries, continueTrying, factory>>

\* Also when the call is no longer _callID.  connect() may raise.
Reconnector ==
    /\ retryCalls > 0 /\ retryCalls' = retryCalls - 1 /\ callID' = FALSE
    /\ IF connState = "disconnected" THEN \E t \in Unmade : Connect(t) ELSE UNCHANGED ctConn
    /\ UNCHANGED <<known, retries, continueTrying, stray, factory>>

-------------------------------------------------------------------------------
(***************************************************************************)
(* The end of transport t: the factory hears of it, and unless it has      *)
(* connected again by then it is stopped.  stopConnecting deletes the      *)
(* attribute afterwards, whatever it refers to by then.                    *)
(***************************************************************************)
Retry ==
    IF factory = "reconnecting" /\ continueTrying
    THEN /\ known' = TRUE /\ retries' = retries + 1
         /\ IF retries < MaxRetries
            THEN retryCalls' = retryCalls + 1 /\ callID' = TRUE
            ELSE UNCHANGED <<retryCalls, callID>>
    ELSE UNCHANGED <<known, retries, retryCalls, callID>>

LeaveTimeout(t) == timers

CancelTimeout(t) == timers \ {t}

Ended(t, delete) ==
    \/ /\ factory = "plain"
       /\ \E u \in Unmade :
             /\ connState' = "connecting" /\ transport' = IF delete THEN {} ELSE {u}
             /\ tstate' = [tstate EXCEPT ![t] = "gone", ![u] = "connecting"]
             /\ timers' = CancelTimeout(t) \cup {u}
       /\ UNCHANGED <<factoryStarted, numPorts, known, retries, retryCalls, callID>>
    \/ /\ connState' = "disconnected" /\ transport' = {} /\ timers' = CancelTimeout(t)
       /\ tstate' = [tstate EXCEPT ![t] = "gone"]
       /\ factoryStarted' = FALSE /\ numPorts' = IF numPorts = 0 THEN 0 ELSE numPorts - 1
       /\ Retry

\* failIfNotConnected: by the timeout, an error of the socket or the look-up.
Fails(t) ==
    /\ tstate[t] = "connecting" /\ Ended(t, FALSE)
    /\ UNCHANGED <<continueTrying, stray, factory>>

\* connectionLost; the stale self.transport is not used again.
Lost(t) ==
    /\ tstate[t] = "connected" /\ Ended(t, FALSE)
    /\ UNCHANGED <<continueTrying, stray, factory>>

\* _connectDone
Connected(t) ==
    /\ tstate[t] = "connecting" /\ tstate' = [tstate EXCEPT ![t] = "connected"]
    /\ connState' = "connected" /\ timers' = CancelTimeout(t)
    /\ UNCHANGED <<transport, factoryStarted, numPorts, ctRetry, factory>>

-------------------------------------------------------------------------------
(***************************************************************************)
(* The application.  disconnect() of a connected transport leads to Lost,  *)
(* and of a connecting one to stopConnecting; both need self.transport.    *)
(***************************************************************************)
StopConnecting ==
    /\ connState = "connecting" /\ \E t \in transport : Ended(t, TRUE)
    /\ UNCHANGED <<continueTrying, stray, factory>>

LeaveCall == UNCHANGED <<retryCalls, callID>>

CancelCall ==
    /\ retryCalls' = IF callID THEN retryCalls - 1 ELSE retryCalls
    /\ callID' = FALSE

\* The connector is known after the first failure or loss; before that a
\* connection attempt goes on.
StopTrying ==
    /\ factory = "reconnecting" /\ continueTrying' = FALSE
    /\ CancelCall
    /\ IF known /\ connState = "connecting"
       THEN /\ connState' = "disconnected" /\ transport' = {}
            /\ timers' = timers \ transport
            /\ tstate' = [t \in Transports |-> IF t \in transport THEN "gone" ELSE tstate[t]]
            /\ factoryStarted' = FALSE /\ numPorts' = numPorts - 1
       ELSE UNCHANGED ctConn
    /\ UNCHANGED <<known, retries, stray, factory>>

ResetDelay ==
    /\ factory = "reconnecting" /\ (retries > 0 \/ ~continueTrying)
    /\ retries' = 0 /\ callID' = FALSE /\ continueTrying' = TRUE
    /\ stray' = (stray \/ retryCalls > 0)
    /\ UNCHANGED <<ctConn, known, retryCalls, factory>>

-------------------------------------------------------------------------------
Next ==
    \/ AppConnects \/ Reconnector \/ StopConnecting \/ StopTrying \/ ResetDelay
    \/ \E t \in Transports : Fails(t) \/ Lost(t) \/ Connected(t)

Spec == Init /\ [][Next]_ctVars

-------------------------------------------------------------------------------
(***************************************************************************)
(* "Disconnect whatever our state is" (disconnect): it needs the transport.*)
(***************************************************************************)
CanDisconnect == connState # "disconnected" => transport # {}

Alive(s) == {t \in Transports : tstate[t] = s}

(***************************************************************************)
(* The connector has the one transport its state says, timed as long as it *)
(* connects; the factory is started as long as there is one.  A factory    *)
(* that goes on trying has a retry due whenever it is neither connected    *)
(* nor connecting and has not used up its retries, and one that was told   *)
(* to stop has none (unless the application called connect or resetDelay   *)
(* while a retry was due).                                                 *)
(***************************************************************************)
ConnectorIsSound ==
    /\ \A s \in {"connecting", "connected"} :
          Cardinality(Alive(s)) = (IF connState = s THEN 1 ELSE 0)
    /\ timers = Alive("connecting")
    /\ transport \subseteq Alive("connecting") \cup Alive("connected")
    /\ factoryStarted <=> connState # "disconnected"
    /\ numPorts = (IF factoryStarted THEN 1 ELSE 0)
    /\ ~stray =>
          /\ retryCalls = (IF callID THEN 1 ELSE 0)
          /\ ~continueTrying => retryCalls = 0
          /\ (continueTrying /\ known /\ connState = "disconnected" /\ retries \in 1..MaxRetries)
                => callID
==================================================================================
