-------------------------------- MODULE SSHChannel --------------------------------
(***************************************************************************)
(* A channel between two conch.ssh.connection.SSHConnection objects: the   *)
(* windows and buffers of channel.SSHChannel, channel requests with their  *)
(* replies, the close handshake and the loss of the connection.  Bytes are *)
(* counted, and the two streams (data and one type of extended data) are   *)
(* kept apart.  Peer "a" opens the channel.  End-of-file messages change   *)
(* no state here and are left out.                                         *)
(***************************************************************************)
EXTENDS Naturals, Sequences, FiniteSets

CONSTANTS Window,       \* localWindowSize, the same on both sides
          MaxPacket,    \* localMaxPacket
          MaxBytes,     \* bound: the bytes the two sides write
          MaxRequests   \* bound: the channel requests they make

SSHChannelAssumption == Window \in Nat /\ MaxPacket \in Nat \ {0}

Peers == {"a", "b"}
Other(p) == IF p = "a" THEN "b" ELSE "a"

VARIABLES
    ch,          \* the SSHChannel of each peer:
                 \*   st: "none", "opening", "open", "closed", "failed"
                 \*   left: remoteWindowLeft    local: localWindowLeft
                 \*   buf, ext: bytes buffered  closing, lc, rc: flags
                 \*   waits: Deferreds of requests that want a reply
                 \*   out: what the current step sends
    net,         \* packets on their way to each peer
    unanswered,  \* requests whose requestReceived has not answered yet
    written, asked,   \* history, for the bounds
    up           \* the SSH transport is connected

sshVars == <<ch, net, unanswered, written, asked, up>>

New == [st |-> "none", left |-> 0, local |-> Window, buf |-> 0, ext |-> 0, closing |-> FALSE,
        lc |-> FALSE, rc |-> FALSE, waits |-> 0, out |-> <<>>]

Init ==
    /\ ch = [p \in Peers |-> New] /\ net = [p \in Peers |-> <<>>]
    /\ unanswered = [p \in Peers |-> 0] /\ written = 0 /\ asked = 0 /\ up = TRUE

Msg(t, n) == [t |-> t, n |-> n]

-------------------------------------------------------------------------------
(***************************************************************************)
(* SSHChannel's methods, as functions of the channel.                      *)
(***************************************************************************)
ChannelClosed(c) ==
    IF c.st = "open"
    THEN [c EXCEPT !.st = "closed", !.lc = TRUE, !.rc = TRUE, !.waits = 0] ELSE c

IfBothClosed(c) == IF c.lc /\ c.rc THEN ChannelClosed(c) ELSE c

\* sendData, sendExtendedData, adjustWindow, ...: nothing after our close.
Send(c, ms) == IF c.lc THEN c ELSE [c EXCEPT !.out = @ \o ms]

SendClose(c) ==
    IF c.lc THEN c ELSE IfBothClosed([Send(c, <<Msg("close", 0)>>) EXCEPT !.lc = TRUE])

LoseConnection(c) ==
    LET d == [c EXCEPT !.closing = TRUE] IN
    IF c.buf = 0 /\ c.ext = 0 THEN SendClose(d) ELSE d

Least(m, n) == IF m < n THEN m ELSE n

Packets(t, n) ==
    [i \in 1..((n + MaxPacket - 1) \div MaxPacket) |->
        Msg(t, Least(MaxPacket, n - (i - 1) * MaxPacket))]

Write(c, n) ==
    IF c.buf > 0 THEN [c EXCEPT !.buf = @ + n] ELSE
    LET top == Least(n, c.left)
        d == [Send(c, Packets("data", top)) EXCEPT !.left = @ - top, !.buf = n - top]
    IN IF d.closing /\ d.buf = 0 THEN LoseConnection(d) ELSE d

WriteExtended(c, n) ==
    IF c.ext > 0 THEN [c EXCEPT !.ext = @ + n] ELSE
    LET top == Least(n, c.left)
        d == [Send(c, Packets("ext", top)) EXCEPT !.left = @ - top, !.ext = n - top]
    IN IF d.closing THEN LoseConnection(d) ELSE d

AddWindowOnly(c, n) == [c EXCEPT !.left = @ + n]

AddWindowBytes(c, n) ==
    LET d == [c EXCEPT !.left = @ + n]
        e == IF d.buf > 0 THEN Write([d EXCEPT !.buf = 0], d.buf) ELSE d
    IN IF e.ext > 0 THEN WriteExtended([e EXCEPT !.ext = 0], e.ext) ELSE e

AdjustSilently(c, n) == Send(c, <<Msg("adjust", n)>>)

AdjustWindow(c, n) ==
    IF c.lc THEN c ELSE [Send(c, <<Msg("adjust", n)>>) EXCEPT !.local = @ + n]

\* ssh_CHANNEL_DATA and ssh_CHANNEL_EXTENDED_DATA
DataReceived(c, n) ==
    IF n > c.local \/ n > MaxPacket THEN SendClose(c) ELSE
    LET d == [c EXCEPT !.local = @ - n] IN
    IF d.local < Window \div 2 THEN AdjustWindow(d, Window - d.local) ELSE d

\* ssh_CHANNEL_CLOSE: closeReceived, then the flag.
CloseReceived(c) == IfBothClosed([LoseConnection(c) EXCEPT !.rc = TRUE])

-------------------------------------------------------------------------------
(***************************************************************************)
(* Steps.  Becomes(p, c, in): peer p's channel is c, what it sent goes to  *)
(* the other side, and `in' is what is left for p to receive.              *)
(***************************************************************************)
Becomes(p, c, in) ==
    /\ ch' = [ch EXCEPT ![p] = [c EXCEPT !.out = <<>>]]
    /\ net' = [net EXCEPT ![p] = in, ![Other(p)] = @ \o c.out]

IsOpen(p) == up /\ ch[p].st = "open"

OpenChannel ==
    /\ up /\ ch["a"].st = "none"
    /\ Becomes("a", Send([ch["a"] EXCEPT !.st = "opening"], <<Msg("open", Window)>>), net["a"])
    /\ UNCHANGED <<unanswered, written, asked, up>>

AppWrites(p, n, extended) ==
    /\ IsOpen(p) /\ written + n <= MaxBytes /\ written' = written + n
    /\ Becomes(p, IF extended THEN WriteExtended(ch[p], n) ELSE Write(ch[p], n), net[p])
    /\ UNCHANGED <<unanswered, asked, up>>

AppCloses(p) ==
    /\ IsOpen(p) /\ ~ch[p].closing
    /\ Becomes(p, LoseConnection(ch[p]), net[p])
    /\ UNCHANGED <<unanswered, written, asked, up>>

\* sendRequest with wantReply
SendRequest(p) ==
    /\ IsOpen(p) /\ ~ch[p].lc /\ asked < MaxRequests /\ asked' = asked + 1
    /\ Becomes(p, Send([ch[p] EXCEPT !.waits = @ + 1], <<Msg("request", 0)>>), net[p])
    /\ UNCHANGED <<unanswered, written, up>>

\* _cbChannelRequest, _ebChannelRequest: also after our close, unless the
\* channel is gone from the tables (the look-up then raises).
AnswerRequest(p) ==
    /\ up /\ unanswered[p] > 0 /\ unanswered' = [unanswered EXCEPT ![p] = @ - 1]
    /\ Becomes(p, IF ch[p].st = "open" THEN [ch[p] EXCEPT !.out = <<Msg("reply", 0)>>]
                  ELSE ch[p], net[p])
    /\ UNCHANGED <<written, asked, up>>

\* A packet for a channel that is not in the table raises KeyError.
Receive(p) ==
    /\ up /\ net[p] # <<>>
    /\ LET m == Head(net[p])
           c == ch[p]
           known == c.st = "open"
           result ==
             CASE m.t = "open" -> Send([c EXCEPT !.st = "open", !.left = m.n],
                                       <<Msg("confirm", Window)>>)
               [] m.t = "confirm" -> [c EXCEPT !.st = "open", !.left = m.n]
               [] m.t = "openfail" -> [c EXCEPT !.st = "failed"]
               [] m.t \in {"data", "ext"} /\ known -> DataReceived(c, m.n)
               [] m.t = "adjust" /\ known -> AddWindowBytes(c, m.n)
               [] m.t = "close" /\ known -> CloseReceived(c)
               [] m.t = "reply" -> [c EXCEPT !.waits = IF @ = 0 THEN 0 ELSE @ - 1]
               [] OTHER -> c
       IN /\ Becomes(p, result, Tail(net[p]))
          /\ unanswered' = [unanswered EXCEPT ![p] = @ + IF m.t = "request" /\ known THEN 1 ELSE 0]
    /\ UNCHANGED <<written, asked, up>>

\* getChannel refuses.
Refuse ==
    /\ up /\ net["b"] # <<>> /\ Head(net["b"]).t = "open"
    /\ Becomes("b", [ch["b"] EXCEPT !.out = <<Msg("openfail", 0)>>], Tail(net["b"]))
    /\ UNCHANGED <<unanswered, written, asked, up>>

\* serviceStopped, on both sides.
ServiceStopped ==
    /\ up /\ up' = FALSE
    /\ ch' = [p \in Peers |-> IF ch[p].st = "opening" THEN [ch[p] EXCEPT !.st = "failed"]
                              ELSE ChannelClosed(ch[p])]
    /\ net' = [p \in Peers |-> <<>>]
    /\ UNCHANGED <<unanswered, written, asked>>

Next ==
    \/ OpenChannel \/ Refuse \/ ServiceStopped
    \/ \E p \in Peers :
          \/ AppCloses(p) \/ SendRequest(p) \/ AnswerRequest(p) \/ Receive(p)
          \/ \E n \in 1..MaxBytes, extended \in BOOLEAN : AppWrites(p, n, extended)

\* TCP delivers, and reading never stops.
Spec == Init /\ [][Next]_sshVars /\ \A p \in Peers : WF_sshVars(Receive(p))

-------------------------------------------------------------------------------
\* Where the packets of some types are; how many they are, and their bytes.
Of(ms, types) == {i \in 1..Len(ms) : ms[i].t \in types}
Count(ms, types) == Cardinality(Of(ms, types))
Bytes(ms, types) == Cardinality(UNION {{i} \X (1..ms[i].n) : i \in Of(ms, types)})

InTable == {"data", "ext", "adjust", "close", "request"}

\* What p may still send is what q will still take, less what is under way.
WindowsAgree(p, q) ==
    (ch[p].st = "open" /\ ~ch[p].lc) =>
        ch[q].local = ch[p].left + Bytes(net[q], {"data", "ext"}) + Bytes(net[p], {"adjust"})

RepliesMatch(p, q) ==
    (ch[p].st = "open" /\ ch[q].st = "open") =>
        ch[p].waits = Count(net[q], {"request"}) + unanswered[q] + Count(net[p], {"reply"})

(***************************************************************************)
(* The two ends of a channel agree on the windows, so that neither is ever *)
(* sent more than it takes; every reply finds the Deferred of its request; *)
(* every packet finds its channel, because a channel is forgotten only     *)
(* when both closes have been seen; no Deferred outlives its channel.      *)
(***************************************************************************)
ChannelIsSound ==
    \A p \in Peers : LET q == Other(p) IN
        /\ WindowsAgree(p, q) /\ RepliesMatch(p, q)
        /\ Of(net[p], InTable) # {} => ch[p].st \in {"opening", "open"}
        /\ ch[p].st = "closed" => ch[p].waits = 0 /\ (up => ch[q].lc)
        /\ ~up => ch[p].st \in {"none", "closed", "failed"}

\* A side that cannot send what it has buffered because the other, which has
\* closed, will not extend the window.
Starved == \E p \in Peers : ch[p].rc /\ ~ch[p].lc /\ (ch[p].buf > 0 \/ ch[p].ext > 0)

(***************************************************************************)
(* loseConnection closes the channel on both sides, whatever is buffered   *)
(* (unless the other side closes first while it owes us window).           *)
(***************************************************************************)
CloseCompletes ==
    \A p \in Peers :
        ch[p].closing ~> (Starved \/ \A q \in Peers : ch[q].st \in {"closed", "failed"})
===================================================================================
