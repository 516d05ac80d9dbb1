------------------------------ MODULE DNSResolver ------------------------------
(***************************************************************************)
(* twisted.names.client.Resolver with its two kinds of protocol: lookups   *)
(* of the same name share one query, the query goes to one server after    *)
(* another with growing timeouts, and a truncated answer sends it over a   *)
(* TCP connection that may have to be made first.                          *)
(*                                                                         *)
(* A key (name, type, class) has at most one query, as _waiting has at     *)
(* most one entry for it.  Datagrams may be lost or late: a late one finds *)
(* the port closed or its id gone, and changes nothing.                    *)
(***************************************************************************)
EXTENDS Naturals, Sequences, SequencesExt, FiniteSets

CONSTANTS Keys, Callers,   \* bound: each caller makes one lookup
          Servers,         \* self.servers, a sequence
          Rounds,          \* len(timeout)
          MaxConns         \* bound: the TCP connections that are made

(***************************************************************************)
(* There is a server to ask and at least one timeout to wait for it.       *)
(***************************************************************************)
DNSResolverAssumption ==
    /\ IsFiniteSet(Keys)
    /\ Servers \in Seq(ToSet(Servers)) /\ Servers # <<>> /\ Rounds \in Nat \ {0}

VARIABLES
    fate,          \* of each caller's Deferred: "unborn", "waiting", "answered",
                   \* "failed"; "raised" if _lookup raised instead
    leader,        \* [k] {the caller whose Deferred is the query's own}
    sharing,       \* [k] those in _waiting[key]
    listed,        \* [k] key in _waiting
    stage,         \* [k] "none", "udp", "pending" (in self.pending), "tcp"
    left, used,    \* [k] addressesLeft, in the order of trial, and addressesUsed
    round,         \* [k] how many of the timeouts are over
    connection,    \* [k] the connection a query in stage "tcp" was sent on
    connections,   \* self.connections
    attempts,      \* connectTCP calls that have neither succeeded nor failed
    connMade,      \* how many have succeeded
    index,         \* self.index
    asked,         \* history: [k] the servers its query was sent to
    exhausted      \* history: a first query could not be sent for want of a port

dnsQuery == <<left, used, round>>
dnsTCP == <<connection, connections, attempts, connMade, index>>
dnsVars == <<fate, leader, sharing, listed, stage, dnsQuery, dnsTCP, asked, exhausted>>

Init ==
    /\ fate = [c \in Callers |-> "unborn"]
    /\ leader = [k \in Keys |-> {}] /\ sharing = [k \in Keys |-> {}]
    /\ listed = [k \in Keys |-> FALSE] /\ stage = [k \in Keys |-> "none"]
    /\ left = [k \in Keys |-> <<>>] /\ used = [k \in Keys |-> <<>>]
    /\ round = [k \in Keys |-> 0] /\ asked = [k \in Keys |-> <<>>]
    /\ connection = [k \in Keys |-> 0] /\ connections = <<>>
    /\ attempts = 0 /\ connMade = 0 /\ index = 0 /\ exhausted = FALSE

\* cbResult, for each of the keys: everybody who waits gets the result.
Finish(keys, result) ==
    /\ fate' = [c \in Callers |->
                  IF fate[c] = "waiting" /\ \E k \in keys : c \in leader[k] \cup sharing[k]
                  THEN result ELSE fate[c]]
    /\ listed' = [k \in Keys |-> listed[k] /\ k \notin keys]
    /\ leader' = [k \in Keys |-> IF k \in keys THEN {} ELSE leader[k]]
    /\ sharing' = [k \in Keys |-> IF k \in keys THEN {} ELSE sharing[k]]
    /\ stage' = [k \in Keys |-> IF k \in keys THEN "none" ELSE stage[k]]

-------------------------------------------------------------------------------
\* _lookup of a key that nobody has asked for: queryUDP asks the first server.
Lookup(c, k) ==
    /\ fate[c] = "unborn" /\ ~listed[k]
    /\ fate' = [fate EXCEPT ![c] = "waiting"] /\ leader' = [leader EXCEPT ![k] = {c}]
    /\ listed' = [listed EXCEPT ![k] = TRUE] /\ stage' = [stage EXCEPT ![k] = "udp"]
    /\ left' = [left EXCEPT ![k] = Tail(Servers)]
    /\ used' = [used EXCEPT ![k] = <<Head(Servers)>>]
    /\ asked' = [asked EXCEPT ![k] = <<Head(Servers)>>]
    /\ round' = [round EXCEPT ![k] = 0]
    /\ UNCHANGED <<sharing, dnsTCP, exhausted>>

\* _connectedProtocol finds no port or no file descriptor, and raises.
LookupRaises(c, k) ==
    /\ fate[c] = "unborn" /\ ~listed[k]
    /\ fate' = [fate EXCEPT ![c] = "raised"]
    /\ listed' = [listed EXCEPT ![k] = TRUE] /\ exhausted' = TRUE
    /\ UNCHANGED <<leader, sharing, stage, dnsQuery, dnsTCP, asked>>

LookupShares(c, k) ==
    /\ fate[c] = "unborn" /\ listed[k]
    /\ fate' = [fate EXCEPT ![c] = "waiting"]
    /\ sharing' = [sharing EXCEPT ![k] = @ \cup {c}]
    /\ UNCHANGED <<leader, listed, stage, dnsQuery, dnsTCP, asked, exhausted>>

\* The application cancels a lookup.  The leader's Deferred is that of the query,
\* so that everybody gets the CancelledError; another's is its own.
CancelLeader(k) ==
    /\ leader[k] # {} /\ Finish({k}, "failed")
    /\ UNCHANGED <<dnsQuery, dnsTCP, asked, exhausted>>

CancelSharer(c) ==
    /\ fate[c] = "waiting" /\ \A k \in Keys : c \notin leader[k]
    /\ fate' = [fate EXCEPT ![c] = "failed"]
    /\ UNCHANGED <<leader, sharing, listed, stage, dnsQuery, dnsTCP, asked, exhausted>>

-------------------------------------------------------------------------------
\* queryTCP, as filterAnswers calls it.
QueryTCP(k) ==
    /\ IF connections = <<>>
       THEN /\ stage' = [stage EXCEPT ![k] = "pending"]
            /\ attempts' = attempts + 1 /\ index' = (index + 1) % Len(Servers)
            /\ UNCHANGED connection
       ELSE /\ stage' = [stage EXCEPT ![k] = "tcp"]
            /\ connection' = [connection EXCEPT ![k] = Head(connections)]
            /\ UNCHANGED <<attempts, index>>
    /\ UNCHANGED <<fate, leader, sharing, listed, connections, connMade>>

\* datagramReceived for an id in liveMessages; the same over TCP.
Answered(k, kind) ==
    \/ kind = "truncated" /\ QueryTCP(k)
    \/ kind # "truncated" /\ Finish({k}, kind) /\ UNCHANGED dnsTCP

AnswerKinds == {"answered", "failed", "truncated"}

UDPAnswer(k, kind) ==
    /\ stage[k] = "udp" /\ Answered(k, kind)
    /\ UNCHANGED <<dnsQuery, asked, exhausted>>

TCPAnswer(k, kind) ==
    /\ stage[k] = "tcp" /\ Contains(connections, connection[k]) /\ Answered(k, kind)
    /\ UNCHANGED <<dnsQuery, asked, exhausted>>

-------------------------------------------------------------------------------
\* Used addresses are tried again as they stand, newest first.
TurnBackwards(seq) == Reverse(seq)

\* addressesUsed.reverse(), from whose end addresses are popped.
TurnAround(seq) == seq

\* _reissue, after _clearFailed: the next server, or the next round, or the end.
UDPTimeout(k) ==
    LET again == left[k] = <<>>
        addresses == IF again THEN TurnAround(used[k]) ELSE left[k]
    IN /\ stage[k] = "udp"
       /\ round' = [round EXCEPT ![k] = IF again THEN @ + 1 ELSE @]
       /\ IF round'[k] = Rounds
          THEN Finish({k}, "failed") /\ UNCHANGED <<left, used, asked>>
          ELSE /\ left' = [left EXCEPT ![k] = Tail(addresses)]
               /\ used' = [used EXCEPT ![k] = Append(IF again THEN <<>> ELSE @, Head(addresses))]
               /\ asked' = [asked EXCEPT ![k] = Append(@, Head(addresses))]
               /\ UNCHANGED <<fate, leader, sharing, listed, stage>>
       /\ UNCHANGED <<dnsTCP, exhausted>>

\* ... and there is no port for the next query: _reissue raises in its Deferred.
ReissueRaises(k) ==
    /\ stage[k] = "udp" /\ ~(left[k] = <<>> /\ round[k] + 1 = Rounds)
    /\ Finish({k}, "failed")
    /\ UNCHANGED <<dnsQuery, dnsTCP, asked, exhausted>>

TCPTimeout(k) ==
    /\ stage[k] = "tcp" /\ Finish({k}, "failed")
    /\ UNCHANGED <<dnsQuery, dnsTCP, asked, exhausted>>

-------------------------------------------------------------------------------
Pending == {k \in Keys : stage[k] = "pending"}

\* connectionMade: all that is pending goes out on the first connection.
Connected ==
    /\ attempts > 0 /\ connMade < MaxConns
    /\ attempts' = attempts - 1 /\ connMade' = connMade + 1
    /\ connections' = Append(connections, connMade')
    /\ stage' = [k \in Keys |-> IF k \in Pending THEN "tcp" ELSE stage[k]]
    /\ connection' = [k \in Keys |-> IF k \in Pending THEN connections'[1] ELSE connection[k]]
    /\ UNCHANGED <<fate, leader, sharing, listed, dnsQuery, index, asked, exhausted>>

\* clientConnectionFailed fails all that is pending, whatever else is being tried.
FailPending == Finish(Pending, "failed")

ConnectionFails ==
    /\ attempts > 0 /\ attempts' = attempts - 1
    /\ FailPending
    /\ UNCHANGED <<dnsQuery, connection, connections, connMade, index, asked, exhausted>>

\* A query that was sent on the connection is left to its timeout.
ConnectionLost(n) ==
    /\ Contains(connections, n)
    /\ connections' = Remove(connections, n)
    /\ UNCHANGED <<fate, leader, sharing, listed, stage, dnsQuery, connection, attempts,
                   connMade, index, asked, exhausted>>

-------------------------------------------------------------------------------
Next ==
    \/ \E c \in Callers, k \in Keys : Lookup(c, k) \/ LookupRaises(c, k) \/ LookupShares(c, k)
    \/ \E c \in Callers : CancelSharer(c)
    \/ \E k \in Keys : CancelLeader(k) \/ UDPTimeout(k) \/ ReissueRaises(k) \/ TCPTimeout(k)
    \/ \E k \in Keys, kind \in AnswerKinds : UDPAnswer(k, kind) \/ TCPAnswer(k, kind)
    \/ Connected \/ ConnectionFails
    \/ \E n \in 1..MaxConns : ConnectionLost(n)

Spec == Init /\ [][Next]_dnsVars

-------------------------------------------------------------------------------
(***************************************************************************)
(* _lookup says that a query which is outstanding is not issued again and  *)
(* its response is used for everybody: who waits for a key waits for a     *)
(* query that is under way.                                                *)
(***************************************************************************)
WaitersHaveAQuery ==
    \A k \in Keys, c \in Callers :
        (c \in sharing[k] /\ fate[c] = "waiting") => stage[k] # "none"

(***************************************************************************)
(* Every waiting caller belongs to one key, whose query is under way: a    *)
(* delayed call will end it, or it is pending and a connection is being    *)
(* tried that will take it along or fail it, whatever other attempts did.  *)
(* The servers were asked in the order given, over and over, and a query   *)
(* goes on until each was asked once for every timeout.  This holds as     *)
(* long as no _lookup raised.                                              *)
(***************************************************************************)
LookupsAreDriven ==
    ~exhausted =>
        /\ \A k \in Keys : listed[k] = (stage[k] # "none") /\ listed[k] = (leader[k] # {})
        /\ \A c \in Callers : fate[c] = "waiting" =>
              Cardinality({k \in Keys : c \in leader[k] \cup sharing[k]}) = 1
        /\ attempts >= Cardinality(Pending)
        /\ \A k \in Keys : \A i \in DOMAIN asked[k] :
              asked[k][i] = Servers[1 + ((i - 1) % Len(Servers))]
        /\ \A k \in Keys : Len(asked[k]) <= Len(Servers) * Rounds
        /\ \A k \in Keys : stage[k] = "udp" =>
              Len(asked[k]) = round[k] * Len(Servers) + Len(used[k])
===============================================================================
