----------------------------- MODULE ClientService -----------------------------
(***************************************************************************)
(* application.internet.ClientService and its state machine _ClientMachine *)
(* (automat changes the state first and then makes the outputs).  A        *)
(* connection exists from the moment the endpoint has made it; the         *)
(* application's prepareConnection may then accept it at once, reject it   *)
(* at once, or keep the service waiting.  The time of a retry is left out. *)
(***************************************************************************)
EXTENDS Naturals, FiniteSets

CONSTANTS Connections,  \* bound: the connections made in one behaviour
          Waiters,      \* callers of whenConnected
          Stoppers,     \* callers of stopService
          MaxFailures   \* bound: failAfterFailures, 0 standing for None

VARIABLES
    csState,      \* the state of the machine
    running,      \* Service.running
    attempt,      \* where _connectionInProgress is: "none", "connect", "prepare"
    prepared,     \* the connections that prepareConnection is given
    current,      \* {_currentConnection}, or {}
    open,         \* the connections that exist
    made,         \* those that were ever made
    retrying,     \* _retryCall is scheduled
    awaiting,     \* _awaitingConnected ...
    remaining,    \* ... and the failures each of them still allows
    stopping,     \* _stopWaiters
    started,      \* history: start() was called
    upset         \* history: a connection other than the current one was lost

csConns == <<current, open, made, prepared>>
csWaiters == <<awaiting, remaining>>
csVars == <<csState, running, attempt, csConns, retrying, csWaiters, stopping, started, upset>>

Init ==
    /\ csState = "init" /\ running = FALSE /\ attempt = "none"
    /\ current = {} /\ open = {} /\ made = {} /\ prepared = {} /\ retrying = FALSE
    /\ awaiting = {} /\ remaining = [w \in Waiters |-> 0] /\ stopping = {}
    /\ started = FALSE /\ upset = FALSE

-------------------------------------------------------------------------------
(***************************************************************************)
(* Outputs.                                                                *)
(***************************************************************************)
Unawait == awaiting' = {} /\ remaining' = [w \in Waiters |-> 0]

LeaveStopping == UNCHANGED stopping

FinishStopping == stopping' = {}

LeaveWaiters == UNCHANGED csWaiters

CancelConnectWaiters == Unawait

\* _ignoreAndWait, _deliverConnectionFailure
Ready == {w \in awaiting : remaining[w] = 1}

ConnectionFailed ==
    /\ csState' = "waiting" /\ retrying' = TRUE /\ attempt' = "none"
    /\ awaiting' = awaiting \ Ready
    /\ remaining' = [w \in Waiters |-> IF remaining[w] = 0 THEN 0 ELSE remaining[w] - 1]

ConnectionMade(c) ==
    /\ csState' = "connected" /\ attempt' = "none" /\ current' = {c}
    /\ Unawait
    /\ UNCHANGED retrying

-------------------------------------------------------------------------------
(***************************************************************************)
(* Inputs from the service's users.                                        *)
(***************************************************************************)
StartService ==
    /\ ~running /\ running' = TRUE /\ started' = TRUE
    /\ IF csState \in {"init", "stopped"}
       THEN csState' = "connecting" /\ attempt' = "connect"
       ELSE csState' = "restarting" /\ UNCHANGED attempt
    /\ UNCHANGED <<csConns, retrying, csWaiters, stopping, upset>>

\* In `connecting' the cancellation makes the attempt fail at once, which the
\* machine, by then `disconnecting', takes as the end.  A connection that is
\* being prepared is not closed.
StopService(s) ==
    /\ s \notin stopping /\ running' = FALSE
    /\ \/ /\ csState \in {"init", "stopped"} /\ csState' = "stopped"
          /\ UNCHANGED <<attempt, retrying, csWaiters, stopping, prepared>>
       \/ /\ csState \in {"connecting", "waiting"} /\ csState' = "stopped"
          /\ attempt' = "none" /\ retrying' = FALSE /\ prepared' = {}
          /\ CancelConnectWaiters /\ FinishStopping
       \/ /\ csState \in {"connected", "disconnecting", "restarting"}
          /\ csState' = "disconnecting"
          /\ stopping' = stopping \cup {s}
          /\ UNCHANGED <<attempt, retrying, csWaiters, prepared>>
    /\ UNCHANGED <<current, open, made, started, upset>>

\* An answer at once leaves no trace.
WhenConnected(w, n) ==
    /\ csState \notin {"connected", "stopped"} /\ w \notin awaiting
    /\ awaiting' = awaiting \cup {w} /\ remaining' = [remaining EXCEPT ![w] = n]
    /\ UNCHANGED <<csState, running, attempt, csConns, retrying, stopping, started, upset>>

-------------------------------------------------------------------------------
(***************************************************************************)
(* Inputs from the endpoint, the clock and the connections.                *)
(***************************************************************************)
EndpointFails ==
    /\ attempt = "connect"
    /\ ConnectionFailed
    /\ UNCHANGED <<running, csConns, stopping, started, upset>>

EndpointConnects(c) ==
    /\ attempt = "connect" /\ c \notin made
    /\ open' = open \cup {c} /\ made' = made \cup {c}
    /\ \/ ConnectionMade(c) /\ UNCHANGED prepared
       \/ ConnectionFailed /\ UNCHANGED <<prepared, current>>
       \/ /\ attempt' = "prepare" /\ prepared' = {c}
          /\ UNCHANGED <<csState, current, retrying, csWaiters>>
    /\ UNCHANGED <<running, stopping, started, upset>>

PrepareEnds ==
    /\ attempt = "prepare" /\ prepared' = {}
    /\ \/ \E c \in prepared : ConnectionMade(c)
       \/ ConnectionFailed /\ UNCHANGED current
    /\ UNCHANGED <<running, open, made, stopping, started, upset>>

Reconnect ==
    /\ retrying /\ retrying' = FALSE
    /\ csState' = "connecting" /\ attempt' = "connect"
    /\ UNCHANGED <<running, csConns, csWaiters, stopping, started, upset>>

\* _ReconnectingProtocolProxy.connectionLost gives _clientDisconnected, which
\* does not say whose; other states have no such transition (and raise).
Lost(c) ==
    /\ c \in open /\ open' = open \ {c} /\ upset' = (upset \/ c \notin current)
    /\ \/ /\ csState = "connected" /\ csState' = "waiting"
          /\ current' = {} /\ retrying' = TRUE
          /\ UNCHANGED <<attempt, csWaiters, stopping>>
       \/ /\ csState = "disconnecting" /\ csState' = "stopped"
          /\ CancelConnectWaiters /\ FinishStopping /\ current' = {}
          /\ UNCHANGED <<attempt, retrying>>
       \/ /\ csState = "restarting" /\ csState' = "connecting"
          /\ FinishStopping /\ attempt' = "connect" 
          /\ UNCHANGED <<current, retrying, csWaiters>>
       \/ /\ csState \in {"connecting", "waiting", "stopped"}
          /\ UNCHANGED <<csState, attempt, current, retrying, csWaiters, stopping>>
    /\ UNCHANGED <<running, made, prepared, started>>

-------------------------------------------------------------------------------
Next ==
    \/ StartService \/ \E s \in Stoppers : StopService(s)
    \/ \E w \in Waiters, n \in 0..MaxFailures : WhenConnected(w, n)
    \/ EndpointFails \/ PrepareEnds \/ Reconnect
    \/ \E c \in Connections : EndpointConnects(c) \/ Lost(c)

\* loseConnection ends a connection.
ClosingEnds == csState \in {"disconnecting", "restarting"} /\ \E c \in current : Lost(c)

Fairness == WF_csVars(ClosingEnds)

Spec == Init /\ [][Next]_csVars /\ Fairness

-------------------------------------------------------------------------------
(***************************************************************************)
(* ClientService is "reconnecting after a configurable timeout when a      *)
(* connection fails": it never takes a dead connection for its current     *)
(* one.                                                                    *)
(***************************************************************************)
ConnectedIsAlive == csState = "connected" => current \subseteq open

(***************************************************************************)
(* In every state the event that ends it is on its way: an attempt, a      *)
(* retry or the loss of the current connection (unless another connection  *)
(* was lost, which the machine cannot tell from it).  Those who wait for   *)
(* the stop wait only while the connection closes, and nobody waits for a  *)
(* connection on a service that was started and stopped.                   *)
(***************************************************************************)
ServiceIsDriven ==
    /\ csState = "connecting" <=> attempt # "none"
    /\ csState = "waiting" <=> retrying
    /\ (csState \in {"connected", "disconnecting", "restarting"} /\ ~upset) =>
          current # {} /\ current \subseteq open
    /\ stopping # {} => csState \in {"disconnecting", "restarting"}
    /\ (csState = "stopped" /\ started) => awaiting = {}
    /\ running <=> csState \notin {"init", "disconnecting", "stopped"}

(***************************************************************************)
(* stopService's Deferred fires, whether or not the service is started     *)
(* again in the meantime.                                                  *)
(***************************************************************************)
StopIsAnswered == \A s \in Stoppers : s \in stopping ~> (s \notin stopping \/ upset)
================================================================================
