----------------------------- MODULE MCBookkeeping -----------------------------
(***************************************************************************)
(* Components of which mostly invariants are checked, for TLC: cooperative *)
(* tasks, lock files, DirDBM, the HTTP client, connectors and the DNS      *)
(* resolver.  They are checked side by side, without interaction: the      *)
(* initial state chooses the one that is used.                             *)
(***************************************************************************)
EXTENDS Cooperator

CONSTANTS Processes, MaxAttempts, Keys, Values, Conns, Requests, MaxPersistent, None,
          Transports, MaxRetries, Names, Callers, Servers, Rounds, MaxConns

VARIABLES
    kind,
    link, alive, at, pid, locked, same, raced,
    owner, tryCall, timeoutCall, timeout, attemptFate, taker, reused,
    file, rpl, new, op, dbmUp, torn,
    method, fate, on, wrapped, sends, got, body, hstate, parser, writing, chained,
    paused, closing, cached, timers,
    connState, transport, connTimers, tstate, factoryStarted, numPorts, factory, known,
    retryCalls, callID, retries, continueTrying, stray,
    lookup, leader, sharing, listed, stage, left, used, round, connection, connections,
    attempts, connMade, serverIndex, asked, exhausted

fsVars == <<link, alive, at, pid, locked, same, raced>>
dflVars == <<owner, tryCall, timeoutCall, timeout, attemptFate, taker, reused>>
dbmVars == <<file, rpl, new, op, dbmUp, torn>>
httpVars == <<method, fate, on, wrapped, sends, got, body, hstate, parser, writing,
              chained, paused, closing, cached, timers>>
ctVars == <<connState, transport, connTimers, tstate, factoryStarted, numPorts, factory,
            known, retryCalls, callID, retries, continueTrying, stray>>
dnsVars == <<lookup, leader, sharing, listed, stage, left, used, round, connection,
             connections, attempts, connMade, serverIndex, asked, exhausted>>

Link == INSTANCE FilesystemLock

Attempt == INSTANCE DeferredFilesystemLock WITH fate <- attemptFate

Dbm == INSTANCE DirDBM

Http == INSTANCE HTTPClient

Conn == INSTANCE Connector WITH timers <- connTimers

Dns == INSTANCE DNSResolver WITH Keys <- Names, fate <- lookup, index <- serverIndex

ASSUME LinkAssumption == Link!FilesystemLockAssumption

ASSUME DbmAssumption == Dbm!DirDBMAssumption

ASSUME HttpAssumption == Http!HTTPClientAssumption

ASSUME ConnAssumption == Conn!ConnectorAssumption

ASSUME DnsAssumption == Dns!DNSResolverAssumption

TwoServers == <<"first", "second">>

-------------------------------------------------------------------------------
\* The component that is used starts in any of its initial states.
AnyInit ==
    /\ kind \in {"Cooperator", "FilesystemLock", "DeferredFilesystemLock", "DirDBM",
                 "HTTPClient", "Connector", "DNSResolver"}
    /\ Init /\ Link!Init /\ Attempt!Init /\ Dbm!Init /\ Http!Init /\ Conn!Init
    /\ Dns!Init
    /\ kind # "Cooperator" => started
    /\ kind # "DeferredFilesystemLock" => owner = "nobody"
    /\ kind # "HTTPClient" => \A r \in Requests : method[r] = "GET"
    /\ kind # "Connector" => factory = "plain"

AnyNext ==
    \/ kind = "Cooperator" /\ Next
       /\ UNCHANGED <<kind, fsVars, dflVars, dbmVars, httpVars, ctVars, dnsVars>>
    \/ kind = "FilesystemLock" /\ Link!Next
       /\ UNCHANGED <<kind, coopVars, dflVars, dbmVars, httpVars, ctVars, dnsVars>>
    \/ kind = "DeferredFilesystemLock" /\ Attempt!Next
       /\ UNCHANGED <<kind, coopVars, fsVars, dbmVars, httpVars, ctVars, dnsVars>>
    \/ kind = "DirDBM" /\ Dbm!Next
       /\ UNCHANGED <<kind, coopVars, fsVars, dflVars, httpVars, ctVars, dnsVars>>
    \/ kind = "HTTPClient" /\ Http!Next
       /\ UNCHANGED <<kind, coopVars, fsVars, dflVars, dbmVars, ctVars, dnsVars>>
    \/ kind = "Connector" /\ Conn!Next
       /\ UNCHANGED <<kind, coopVars, fsVars, dflVars, dbmVars, httpVars, dnsVars>>
    \/ kind = "DNSResolver" /\ Dns!Next
       /\ UNCHANGED <<kind, coopVars, fsVars, dflVars, dbmVars, httpVars, ctVars>>

AnySpec ==
    /\ AnyInit
    /\ [][AnyNext]_<<kind, coopVars, fsVars, dflVars, dbmVars, httpVars, ctVars, dnsVars>>
    /\ Fairness

-------------------------------------------------------------------------------
(***************************************************************************)
(* Turns are shared among cooperative tasks (Cooperator!GetsATurn).  The   *)
(* tasks are interchangeable, so that one stands for all of them.          *)
(***************************************************************************)
EveryTaskGetsATurn == GetsATurn(CHOOSE t \in Tasks : TRUE)

(***************************************************************************)
(* The properties of the other components are stated in their modules,     *)
(* with the code they are about; here they get the names that the          *)
(* configuration uses.                                                     *)
(***************************************************************************)
\* FilesystemLock: a live process that believes it has the lock owns the link.
HolderOwnsTheLink == Link!HolderOwnsTheLink

\* DeferredFilesystemLock: an attempt that is not over will be tried again.
AttemptIsDriven == Attempt!AttemptIsDriven

\* DirDBM: a map whose assignments are atomic, through crash and recovery.
ImplementsMap == Dbm!ImplementsMap

\* HTTPConnectionPool: what is idle is cached with a timer and serves nobody.
\* HTTP11ClientProtocol: requests and bodies that are not over have a parser
\* that will end them, and nothing is sent again once an answer was seen.
HTTPClientIsSound == Http!HTTPClientIsSound

\* Connectors: state, transport, timeout, factory and retry agree.
ConnectorIsSound == Conn!ConnectorIsSound

\* Resolver: who waits for a name waits for a query that is under way, and the
\* servers are asked in turn.
LookupsAreDriven == Dns!LookupsAreDriven
===============================================================================
