----------------------------- MODULE HandlersProofs -----------------------------
(***************************************************************************)
(* Proofs about the handlers of MCHandlers, for every value of their       *)
(* constants: TLSMemoryBIOProtocol, the delayed calls of the reactor and   *)
(* HTTPChannel.                                                            *)
(***************************************************************************)
EXTENDS MCHandlers, SequenceTheorems, FiniteSetTheorems, WellFoundedInduction, TLAPS

-------------------------------------------------------------------------------
(***************************************************************************)
(* TLSMemoryBIOProtocol.  What TLSIsDriven says of the reactor is said     *)
(* here of every stage of dataReceived.  While the peer's data is handed   *)
(* out, writes are kept only if OpenSSL is blocked, and a blocked OpenSSL  *)
(* has nothing left to read that would unblock it.                         *)
(***************************************************************************)
TlsItems == {"data", "close", "bad", "ask", "goOn"}

TlsFlags ==
    /\ blocked \in BOOLEAN /\ sentClose \in BOOLEAN /\ gotClose \in BOOLEAN
    /\ tlsConnected \in BOOLEAN /\ handshakeDone \in BOOLEAN /\ lostTLS \in BOOLEAN
    /\ aborted \in BOOLEAN /\ tlsDisconnecting \in BOOLEAN /\ tlsProducer \in BOOLEAN
    /\ membranePaused \in BOOLEAN /\ lowerFull \in BOOLEAN /\ refused \in BOOLEAN
    /\ overtaken \in BOOLEAN

TlsTypes ==
    /\ TlsFlags
    /\ handshake \in {"going", "done", "failed"}
    /\ at \in {"reactor", "completed", "unbuffer", "receiving", "delivering"}
    /\ lower \in {"open", "losing", "aborting", "lost"}
    /\ accepted \in Nat
    /\ incoming \in Seq(TlsItems)
    /\ appSendBuffer \in Seq(Nat) /\ encrypted \in Seq(Nat)

TlsHandshake ==
    /\ handshakeDone <=> handshake = "done"
    /\ at # "reactor" => handshakeDone
    /\ (~handshakeDone \/ at = "completed") => ~blocked
    /\ (blocked /\ at # "reactor") => \A i \in 1..Len(incoming) : incoming[i] # "goOn"

TlsOpen ==
    lower = "open" =>
       ~lostTLS /\ ~aborted /\ ~gotClose

\* Why no write overtakes another but in handshakeCompleted: nothing is kept while
\* OpenSSL can send.
TlsKept ==
    (~lostTLS /\ appSendBuffer # <<>>) =>
       /\ at \in {"receiving", "delivering"} => blocked
       /\ at = "reactor" => ~handshakeDone \/ blocked

TlsProducer ==
    membranePaused => tlsProducer /\ (appSendBuffer # <<>> \/ lowerFull)

TlsClose ==
    (tlsDisconnecting /\ appSendBuffer = <<>> /\ ~tlsProducer) =>
       sentClose \/ refused \/ lower # "open"

TlsSequence == ~overtaken /\ ~lostTLS => encrypted \o appSendBuffer = [i \in 1..accepted |-> i]

TlsInvariant ==
    TlsTypes /\ TlsHandshake /\ TlsOpen /\ TlsKept /\ TlsProducer /\ TlsClose /\ TlsSequence

LEMMA TlsBatch == ASSUME NEW b \in Tls!Batches PROVE b \in Seq(TlsItems)
<1>1. CASE b \in {<<i>> : i \in Tls!Items}
  <2>1. PICK i \in TlsItems : b = <<i>>
    BY <1>1 DEF Tls!Items, TlsItems
  <2> QED BY <2>1
<1>2. CASE b \in Tls!Items \X Tls!Items
  <2>1. PICK i \in TlsItems, j \in TlsItems : b = <<i, j>>
    BY <1>2 DEF Tls!Items, TlsItems
  <2> QED BY <2>1
<1> QED BY <1>1, <1>2 DEF Tls!Batches

\* _shutdownTLS sends an alert or notes that it could not, and never reopens.
LEMMA TlsShutdown ==
    ASSUME TlsTypes, Tls!ShutdownTLS
    PROVE  /\ sentClose' \in BOOLEAN /\ refused' \in BOOLEAN /\ (sentClose' \/ refused')
           /\ lower' \in {"open", "losing", "aborting", "lost"}
           /\ lower' = "open" => lower = "open"
<1> USE DEF TlsTypes, TlsFlags, Tls!Closing
<1>1. ASSUME NEW a \in BOOLEAN, NEW b \in BOOLEAN, Tls!Shutdown(a, b)
      PROVE  /\ sentClose' \in BOOLEAN /\ refused' \in BOOLEAN /\ (sentClose' \/ refused')
             /\ lower' \in {"open", "losing", "aborting", "lost"}
             /\ lower' = "open" => lower = "open"
  <2>1. sentClose' = (sentClose \/ a) /\ refused' = (refused \/ ~a)
    BY <1>1 DEF Tls!Shutdown
  <2>2. sentClose' \in BOOLEAN /\ refused' \in BOOLEAN /\ (sentClose' \/ refused')
    BY <2>1
  <2>3. lower' \in {lower, Tls!Closing(lower)}
    BY <1>1 DEF Tls!Shutdown
  <2> QED BY <2>2, <2>3
<1> QED BY <1>1 DEF Tls!ShutdownTLS

LEMMA TlsInit == Tls!Init => TlsInvariant
<1> SUFFICES ASSUME Tls!Init PROVE TlsInvariant
  OBVIOUS
<1> USE DEF Tls!Init
<1>0. TlsFlags
  BY DEF TlsFlags
<1>1. TlsTypes
  BY <1>0 DEF TlsTypes
<1>2. TlsHandshake /\ TlsOpen /\ TlsKept /\ TlsProducer /\ TlsClose
  BY DEF TlsHandshake, TlsOpen, TlsKept, TlsProducer, TlsClose
<1>3. <<>> = [i \in 1..0 |-> i]
  OBVIOUS
<1>4. TlsSequence
  BY <1>3 DEF TlsSequence
<1> QED BY <1>1, <1>2, <1>4 DEF TlsInvariant

\* A write after the others is numbered after them.
LEMMA TlsNextNumber ==
    ASSUME NEW n \in Nat, NEW s \in Seq(Nat), s = [i \in 1..n |-> i]
    PROVE  Append(s, n + 1) = [i \in 1..(n + 1) |-> i]
<1>1. Len(s) = n
  OBVIOUS
<1>2. /\ Append(s, n + 1) \in Seq(Nat) /\ Len(Append(s, n + 1)) = n + 1
      /\ \A i \in 1..(n + 1) : Append(s, n + 1)[i] = i
  BY <1>1
<1> QED BY <1>2

LEMMA TlsAppend ==
    ASSUME NEW s \in Seq(Nat), NEW t \in Seq(Nat), NEW e \in Nat
    PROVE  s \o Append(t, e) = Append(s \o t, e)
OBVIOUS

LEMMA TlsStep == TlsInvariant /\ [Tls!Next]_(Tls!tlsVars) => TlsInvariant'
<1> SUFFICES ASSUME TlsInvariant, [Tls!Next]_(Tls!tlsVars) PROVE TlsInvariant'
  OBVIOUS
<1> USE DEF TlsInvariant, TlsTypes, TlsFlags, TlsHandshake, TlsOpen, TlsKept, TlsProducer,
      TlsClose,      TlsSequence, Tls!opensslVars, Tls!flagVars, Tls!dataVars
<1>1. CASE Tls!Write
  <2>0. /\ UNCHANGED <<handshake, blocked, sentClose, gotClose, incoming, at, tlsConnected, handshakeDone,
                       aborted, tlsDisconnecting, tlsProducer, refused>>
        /\ accepted' = accepted + 1 /\ ~lostTLS /\ (tlsDisconnecting => tlsProducer)
    BY <1>1 DEF Tls!Write, Tls!Number
  <2>1. overtaken' = (overtaken \/ (at = "completed" /\ appSendBuffer # <<>>))
        /\ at \in {"reactor", "completed", "delivering"}
    BY <1>1 DEF Tls!Write, Tls!AppHasControl
  <2>2. overtaken' \in BOOLEAN /\ (~overtaken' => ~overtaken)
    BY <2>1
  <2>3. CASE (handshake = "going" \/ blocked) /\ Tls!BufferedWrite
    <3>1. /\ appSendBuffer' = Append(appSendBuffer, accepted + 1) /\ membranePaused' = tlsProducer
          /\ UNCHANGED <<encrypted, lostTLS, lower, lowerFull>>
      BY <2>3 DEF Tls!BufferedWrite, Tls!Number
    <3>2. appSendBuffer' \in Seq(Nat) /\ appSendBuffer' # <<>>
      BY <3>1
    <3>3. TlsFlags'
      BY <2>0, <2>2, <3>1
    <3>4. TlsTypes'
      BY <2>0, <3>1, <3>2, <3>3
    <3>5. TlsHandshake' /\ TlsOpen' /\ TlsKept' /\ TlsProducer' /\ TlsClose'
      BY <2>0, <2>3, <3>1, <3>2
    <3>6. TlsSequence'
      <4>1. encrypted \o appSendBuffer \in Seq(Nat)
        OBVIOUS
      <4>2. encrypted \in Seq(Nat) /\ appSendBuffer \in Seq(Nat) /\ accepted + 1 \in Nat
        OBVIOUS
      <4>3. encrypted \o Append(appSendBuffer, accepted + 1) = Append(encrypted \o appSendBuffer, accepted + 1)
        BY <4>2, TlsAppend, Zenon
      <4> QED BY <2>0, <2>2, <3>1, <4>1, <4>3, TlsNextNumber
    <3> QED BY <3>4, <3>5, <3>6
  <2>4. CASE handshake = "done" /\ ~blocked /\ Tls!Send
    <3>1. encrypted' = Append(encrypted, accepted + 1) /\ UNCHANGED <<appSendBuffer, lostTLS, lower>>
      BY <2>4 DEF Tls!Send, Tls!Number
    <3>2. lowerFull' \in BOOLEAN /\ (lowerFull => lowerFull')
      BY <2>4 DEF Tls!Send, Tls!LowerWrite
    <3>3. membranePaused' = (tlsProducer /\ (membranePaused \/ lowerFull'))
      BY <2>4 DEF Tls!Send, Tls!LowerWrite
    <3>4. membranePaused' \in BOOLEAN /\ (membranePaused' => tlsProducer /\ (membranePaused \/ lowerFull'))
      BY <3>3
    <3>5. TlsFlags'
      BY <2>0, <2>2, <3>1, <3>2, <3>4
    <3>6. encrypted' \in Seq(Nat) /\ encrypted' # encrypted
      BY <3>1
    <3>7. TlsTypes'
      BY <2>0, <3>1, <3>5, <3>6
    <3>8. TlsHandshake' /\ TlsOpen' /\ TlsKept' /\ TlsProducer' /\ TlsClose'
      BY <2>0, <3>1, <3>2, <3>4
    <3>9. TlsSequence'
      <4>1. ~overtaken' => appSendBuffer = <<>> /\ ~overtaken
        BY <2>0, <2>1, <2>4
      <4>2. appSendBuffer = <<>> => encrypted \o appSendBuffer = encrypted /\ encrypted' \o appSendBuffer = encrypted'
        BY <3>6
      <4> QED BY <2>0, <3>1, <4>1, <4>2, TlsNextNumber
    <3> QED BY <3>7, <3>8, <3>9
  <2>5. CASE Tls!SendFails
    <3>1. /\ lostTLS' = TRUE /\ lower' = Tls!Closing(lower)
          /\ UNCHANGED <<appSendBuffer, encrypted, lowerFull, membranePaused>>
      BY <2>5 DEF Tls!SendFails, Tls!ShutdownFinished
    <3>2. lower' \in {"losing", "aborting", "lost"}
      BY <3>1 DEF Tls!Closing
    <3>3. TlsFlags'
      BY <2>0, <2>2, <3>1
    <3>4. TlsTypes'
      BY <2>0, <3>1, <3>2, <3>3
    <3>5. TlsHandshake' /\ TlsOpen' /\ TlsKept' /\ TlsProducer' /\ TlsClose' /\ TlsSequence'
      BY <2>0, <3>1, <3>2
    <3> QED BY <3>4, <3>5
  <2> QED BY <1>1, <2>3, <2>4, <2>5 DEF Tls!Write
<1>2. CASE Tls!LoseConnection
  <2>0. /\ UNCHANGED <<handshake, blocked, gotClose, incoming, at, tlsConnected, handshakeDone, lostTLS,
                       appSendBuffer, encrypted, accepted, tlsProducer, membranePaused, lowerFull,
                       overtaken>>
        /\ tlsDisconnecting' = TRUE
    BY <1>2 DEF Tls!LoseConnection, Tls!Abort
  <2>1. /\ TlsFlags' /\ lower' \in {"open", "losing", "aborting", "lost"}
        /\ lower' = "open" => lower = "open" /\ ~aborted'
        /\ (appSendBuffer = <<>> /\ ~tlsProducer) => sentClose' \/ refused' \/ lower' # "open"
    <3>1. CASE Tls!Abort
      BY <2>0, <3>1 DEF Tls!Abort
    <3>2. CASE Tls!ShutdownTLS /\ UNCHANGED aborted
      BY <2>0, <3>2, TlsShutdown
    <3>3. CASE UNCHANGED <<sentClose, refused, lower, aborted>> /\ ~(appSendBuffer = <<>> /\ ~tlsProducer)
      BY <2>0, <3>3
    <3> QED BY <1>2, <3>1, <3>2, <3>3 DEF Tls!LoseConnection
  <2>2. TlsTypes'
    BY <2>0, <2>1
  <2>3. TlsHandshake' /\ TlsProducer' /\ TlsSequence'
    BY <2>0
  <2>4. TlsOpen' /\ TlsKept' /\ TlsClose'
    BY <2>0, <2>1
  <2> QED BY <2>2, <2>3, <2>4
<1>3. CASE Tls!AbortConnection
  BY <1>3 DEF Tls!AbortConnection, Tls!AppHasControl, Tls!Abort
<1>4. CASE Tls!RegisterProducer
  <2>0. /\ UNCHANGED <<handshake, blocked, sentClose, gotClose, incoming, at, tlsConnected, handshakeDone,
                       lostTLS, aborted, tlsDisconnecting, appSendBuffer, encrypted, accepted,
                       lower, lowerFull, refused, overtaken>>
        /\ tlsProducer' = TRUE /\ membranePaused' = FALSE
    BY <1>4 DEF Tls!RegisterProducer
  <2>a. TlsFlags'
    BY <2>0
  <2>1. TlsTypes'
    BY <2>0, <2>a
  <2>2. TlsHandshake' /\ TlsProducer' /\ TlsOpen' /\ TlsKept' /\ TlsClose' /\ TlsSequence'
    BY <2>0
  <2> QED BY <2>1, <2>2
<1>5. CASE Tls!UnregisterProducer
  <2>0. /\ UNCHANGED <<handshake, blocked, gotClose, incoming, at, tlsConnected, handshakeDone, lostTLS,
                       aborted, tlsDisconnecting, appSendBuffer, encrypted, accepted, lowerFull,
                       overtaken>>
        /\ tlsProducer' = FALSE /\ membranePaused' = FALSE
    BY <1>5 DEF Tls!UnregisterProducer
  <2>1. /\ TlsFlags' /\ lower' \in {"open", "losing", "aborting", "lost"}
        /\ lower' = "open" => lower = "open"
        /\ (tlsDisconnecting /\ appSendBuffer = <<>>) => sentClose' \/ refused'
    <3>1. CASE Tls!ShutdownTLS
      BY <2>0, <3>1, TlsShutdown
    <3>2. CASE UNCHANGED <<sentClose, refused, lower>> /\ ~(tlsDisconnecting /\ appSendBuffer = <<>>)
      <4>1. TlsFlags'
        BY <2>0, <3>2
      <4>2. lower' \in {"open", "losing", "aborting", "lost"} /\ (lower' = "open" => lower = "open")
        BY <3>2
      <4> QED BY <3>2, <4>1, <4>2
    <3> QED BY <1>5, <3>1, <3>2 DEF Tls!UnregisterProducer
  <2>2. TlsTypes'
    BY <2>0, <2>1
  <2>3. TlsHandshake' /\ TlsProducer' /\ TlsSequence'
    BY <2>0
  <2>4. TlsOpen' /\ TlsKept' /\ TlsClose'
    BY <2>0, <2>1
  <2> QED BY <2>2, <2>3, <2>4
<1>6. CASE Tls!DataReceived
  <2>0. /\ UNCHANGED <<sentClose, gotClose, tlsConnected, aborted, tlsDisconnecting, appSendBuffer,
                       encrypted, accepted, tlsProducer, membranePaused, lowerFull, refused,
                       overtaken>>
        /\ at = "reactor" /\ lower = "open"
    BY <1>6 DEF Tls!DataReceived
  <2>1. CASE UNCHANGED <<handshake, handshakeDone, lostTLS, lower, at, incoming, blocked>>
    BY <2>0, <2>1
  <2>2. CASE /\ ~handshakeDone /\ handshake' = "failed" /\ Tls!ShutdownFinished
             /\ UNCHANGED <<handshakeDone, at, incoming, blocked>>
    <3>1. lostTLS' = TRUE /\ lower' = "losing"
      BY <2>0, <2>2 DEF Tls!ShutdownFinished, Tls!Closing
    <3>2. TlsFlags'
      BY <2>0, <2>2, <3>1
    <3> QED BY <2>0, <2>2, <3>1, <3>2
  <2>3. CASE /\ ~handshakeDone /\ handshake' = "done" /\ handshakeDone' = TRUE /\ at' = "completed"
             /\ (\E rest \in {<<>>} \cup Tls!Batches : incoming' = rest)
             /\ UNCHANGED <<lostTLS, lower, blocked>>
    <3>1. incoming' \in Seq(TlsItems)
      <4>1. incoming' = <<>> \/ incoming' \in Tls!Batches
        BY <2>3
      <4>2. CASE incoming' = <<>>
        BY <4>2
      <4>3. CASE incoming' \in Tls!Batches
        BY <4>3, TlsBatch
      <4> QED BY <4>1, <4>2, <4>3
    <3>2. TlsFlags'
      BY <2>0, <2>3
    <3> QED BY <2>0, <2>3, <3>1, <3>2
  <2>4. CASE Tls!MoreData
    <3>1. PICK batch \in Tls!Batches :
              incoming' = batch /\ blocked' = (blocked /\ \A i \in 1..Len(batch) : batch[i] # "goOn")
      BY <2>4 DEF Tls!MoreData
    <3>2. incoming' \in Seq(TlsItems)
      BY <3>1, TlsBatch
    <3>3. blocked' \in BOOLEAN /\ (blocked' => \A i \in 1..Len(incoming') : incoming'[i] # "goOn")
      BY <3>1
    <3>4. handshakeDone /\ at' = "unbuffer" /\ UNCHANGED <<handshake, handshakeDone, lostTLS, lower>>
      BY <2>4 DEF Tls!MoreData
    <3>5. TlsFlags'
      BY <2>0, <3>3, <3>4
    <3>6. TlsTypes'
      BY <2>0, <3>2, <3>4, <3>5
    <3>7. TlsHandshake' /\ TlsOpen' /\ TlsKept' /\ TlsProducer' /\ TlsClose' /\ TlsSequence'
      BY <2>0, <3>3, <3>4
    <3> QED BY <3>6, <3>7
  <2> QED BY <1>6, <2>1, <2>2, <2>3, <2>4 DEF Tls!DataReceived, Tls!CheckHandshake
<1>7. CASE Tls!CompletedReturns
  BY <1>7 DEF Tls!CompletedReturns
<1>8. CASE Tls!Unbuffer
  <2>0. /\ UNCHANGED <<handshake, blocked, gotClose, incoming, tlsConnected, handshakeDone, aborted,
                       tlsDisconnecting, tlsProducer, overtaken>>
        /\ at = "unbuffer" /\ at' = "receiving"
    BY <1>8 DEF Tls!Unbuffer
  <2>1. CASE /\ appSendBuffer = <<>>
             /\ UNCHANGED <<appSendBuffer, encrypted, accepted, lostTLS, membranePaused, sentClose,
                            refused, lower, lowerFull>>
    BY <2>0, <2>1
  <2>2. CASE appSendBuffer # <<>> /\ Tls!KeepWrites
    <3>1. /\ blocked /\ membranePaused' = tlsProducer
          /\ UNCHANGED <<appSendBuffer, encrypted, accepted, lostTLS, sentClose, refused, lower, lowerFull>>
      BY <2>2 DEF Tls!KeepWrites
    <3> QED BY <2>0, <2>2, <3>1
  <2>3. CASE appSendBuffer # <<>> /\ Tls!MakeWrites
    <3>1. /\ encrypted' = encrypted \o appSendBuffer /\ appSendBuffer' = <<>>
          /\ Tls!AfterWrites /\ UNCHANGED <<accepted, lostTLS>>
      BY <2>3 DEF Tls!MakeWrites
    <3>2. lowerFull' \in BOOLEAN /\ (lowerFull => lowerFull')
      BY <2>3 DEF Tls!MakeWrites
    <3>3. CASE tlsProducer
      <4>1. membranePaused' = FALSE /\ UNCHANGED <<sentClose, refused, lower>>
        BY <3>1, <3>3 DEF Tls!AfterWrites
      <4>2. TlsFlags'
        BY <2>0, <3>1, <3>2, <4>1
      <4>3. TlsTypes' /\ TlsSequence'
        BY <2>0, <3>1, <4>1, <4>2
      <4>4. TlsHandshake' /\ TlsOpen' /\ TlsKept' /\ TlsProducer' /\ TlsClose'
        BY <2>0, <3>1, <3>3, <4>1
      <4> QED BY <4>3, <4>4
    <3>4. CASE ~tlsProducer
      <4>1. membranePaused' = membranePaused /\ ~membranePaused
        BY <3>1, <3>4 DEF Tls!AfterWrites
      <4>2. /\ sentClose' \in BOOLEAN /\ refused' \in BOOLEAN
            /\ lower' \in {"open", "losing", "aborting", "lost"} /\ (lower' = "open" => lower = "open")
            /\ tlsDisconnecting => sentClose' \/ refused'
        BY <3>1, <3>4, TlsShutdown DEF Tls!AfterWrites
      <4>3. TlsFlags'
        BY <2>0, <3>1, <3>2, <4>1, <4>2
      <4>4. TlsTypes' /\ TlsSequence'
        BY <2>0, <3>1, <4>2, <4>3
      <4>5. TlsHandshake' /\ TlsOpen' /\ TlsKept' /\ TlsProducer' /\ TlsClose'
        BY <2>0, <3>1, <4>1, <4>2
      <4> QED BY <4>4, <4>5
    <3> QED BY <3>3, <3>4
  <2>4. CASE appSendBuffer # <<>> /\ Tls!DropWrites
    <3>1. /\ appSendBuffer' = <<>> /\ lostTLS' = TRUE /\ membranePaused' = FALSE
          /\ lower' = Tls!Closing(lower)
          /\ UNCHANGED <<accepted, encrypted, sentClose, refused, lowerFull>>
      BY <2>4 DEF Tls!DropWrites
    <3>2. lower' \in {"losing", "aborting", "lost"}
      BY <3>1 DEF Tls!Closing
    <3>3. TlsFlags'
      BY <2>0, <3>1
    <3>4. TlsTypes'
      BY <2>0, <3>1, <3>2, <3>3
    <3>5. TlsHandshake' /\ TlsOpen' /\ TlsKept' /\ TlsProducer' /\ TlsClose' /\ TlsSequence'
      BY <2>0, <3>1, <3>2
    <3> QED BY <3>4, <3>5
  <2> QED BY <1>8, <2>1, <2>2, <2>3, <2>4 DEF Tls!Unbuffer
<1>9. CASE Tls!ReceiveData
  BY <1>9 DEF Tls!ReceiveData, Tls!Receive
<1>10. CASE Tls!ReceiveHandshake
  <2>0. /\ UNCHANGED <<handshake, sentClose, gotClose, at, tlsConnected, handshakeDone, lostTLS, aborted,
                       tlsDisconnecting, appSendBuffer, encrypted, accepted, tlsProducer,
                       membranePaused, lower, lowerFull, refused, overtaken>>
        /\ at = "receiving" /\ incoming # <<>> /\ incoming' = Tail(incoming)
        /\ Head(incoming) \in {"ask", "goOn"}
    BY <1>10 DEF Tls!ReceiveHandshake, Tls!Receive
  <2>1. blocked' = (Head(incoming) = "ask" /\ \A i \in 2..Len(incoming) : incoming[i] # "goOn")
    BY <1>10 DEF Tls!ReceiveHandshake
  <2>2. blocked' \in BOOLEAN
    BY <2>1
  <2>3. incoming' \in Seq(TlsItems) /\ Len(incoming') = Len(incoming) - 1
        /\ \A i \in 1..Len(incoming') : incoming'[i] = incoming[i + 1]
    BY <2>0
  <2>4. blocked' => \A i \in 1..Len(incoming') : incoming'[i] # "goOn"
    BY <2>0, <2>1, <2>3
  <2>5. blocked => blocked'
    <3>1. SUFFICES ASSUME blocked PROVE blocked'
      OBVIOUS
    <3>2. \A i \in 1..Len(incoming) : incoming[i] # "goOn"
      BY <2>0, <3>1
    <3>3. Head(incoming) # "goOn" /\ \A i \in 2..Len(incoming) : incoming[i] # "goOn"
      BY <2>0, <3>2
    <3> QED BY <2>0, <2>1, <3>3
  <2>6. TlsTypes'
    BY <2>0, <2>2, <2>3
  <2>7. TlsHandshake'
    BY <2>0, <2>4
  <2>8. TlsOpen' /\ TlsKept' /\ TlsProducer' /\ TlsClose' /\ TlsSequence'
    BY <2>0, <2>5
  <2> QED BY <2>6, <2>7, <2>8
<1>11. CASE Tls!ReceiveClose
  BY <1>11 DEF Tls!ReceiveClose, Tls!Receive, Tls!ShutdownFinished, Tls!Closing
<1>12. CASE Tls!ReceiveError
  BY <1>12 DEF Tls!ReceiveError, Tls!Receive, Tls!ShutdownFinished, Tls!Closing
<1>13. CASE Tls!DeliverReturns
  BY <1>13 DEF Tls!DeliverReturns
<1>14. CASE Tls!ReceivingEnds
  BY <1>14 DEF Tls!ReceivingEnds
<1>15. CASE Tls!LowerDrained
  <2>0. /\ UNCHANGED <<handshake, blocked, sentClose, gotClose, incoming, at, tlsConnected, handshakeDone,
                       lostTLS, aborted, tlsDisconnecting, appSendBuffer, encrypted, accepted,
                       tlsProducer, lower, refused, overtaken>>
        /\ lowerFull' = FALSE /\ membranePaused' = FALSE
    BY <1>15 DEF Tls!LowerDrained
  <2>a. TlsFlags'
    BY <2>0
  <2>1. TlsTypes'
    BY <2>0, <2>a
  <2>2. TlsHandshake' /\ TlsProducer' /\ TlsOpen' /\ TlsKept' /\ TlsClose' /\ TlsSequence'
    BY <2>0
  <2> QED BY <2>1, <2>2
<1>16. CASE Tls!LowerLost
  <2>0. /\ UNCHANGED <<handshake, blocked, sentClose, gotClose, incoming, at, handshakeDone, aborted,
                       tlsDisconnecting, appSendBuffer, encrypted, accepted, tlsProducer,
                       membranePaused, lowerFull, refused, overtaken>>
        /\ tlsConnected' = FALSE /\ lostTLS' = TRUE /\ lower' = "lost"
    BY <1>16 DEF Tls!LowerLost
  <2>a. TlsFlags'
    BY <2>0
  <2>1. TlsTypes'
    BY <2>0, <2>a
  <2>2. TlsHandshake' /\ TlsProducer'
    BY <2>0
  <2>3. TlsOpen' /\ TlsKept' /\ TlsClose' /\ TlsSequence'
    BY <2>0
  <2> QED BY <2>1, <2>2, <2>3
<1>20. CASE UNCHANGED Tls!tlsVars
  BY <1>20 DEF Tls!tlsVars
<1> QED
  BY <1>1, <1>2, <1>3, <1>4, <1>5, <1>6, <1>7, <1>8, <1>9, <1>10, <1>11, <1>12, <1>13, <1>14, <1>15, <1>16, <1>20 DEF Tls!Next

(***************************************************************************)
(* However handshakes, writes, producers, closing and the peer's data      *)
(* interleave, TLSMemoryBIOProtocol encrypts what was written once and in  *)
(* order, unless the application's handshakeCompleted has written while    *)
(* older writes were kept; it keeps writes only while OpenSSL waits for    *)
(* the peer, and leaves no producer paused and no close pending that       *)
(* nothing would go on with.                                               *)
(***************************************************************************)
THEOREM TLSIsAlwaysDriven == Tls!Spec => []TLSIsDriven
<1>1. Tls!Spec => []TlsInvariant
  BY TlsInit, TlsStep, PTL DEF Tls!Spec
<1>2. TlsInvariant => TLSIsDriven
  <2> SUFFICES ASSUME TlsInvariant PROVE Tls!TLSIsDriven
    BY DEF TLSIsDriven
  <2> USE DEF TlsInvariant, TlsTypes, TlsFlags
  <2>1. overtaken \/ Tls!WritesInSequence
    BY DEF TlsSequence, Tls!WritesInSequence
  <2>2. ASSUME at = "reactor", lower = "open"
        PROVE  /\ ~lostTLS /\ ~aborted /\ ~(sentClose /\ gotClose)
               /\ appSendBuffer # <<>> => ~handshakeDone \/ blocked
               /\ membranePaused => appSendBuffer # <<>> \/ lowerFull
               /\ (tlsDisconnecting /\ appSendBuffer = <<>> /\ ~tlsProducer) => sentClose \/ refused
    BY <2>2 DEF TlsOpen, TlsKept, TlsProducer, TlsClose
  <2> QED BY <2>1, <2>2 DEF Tls!TLSIsDriven
<1> QED BY <1>1, <1>2, PTL

-------------------------------------------------------------------------------
(***************************************************************************)
(* Delayed calls.  First the heap: the loop of _moveCallLaterSooner and    *)
(* heappush puts an element where it belongs.  A path up is defined as a   *)
(* least set, and what holds all along it is proved by the least or the    *)
(* greatest place where it would not.                                      *)
(***************************************************************************)
\* A set of numbers has a least element: no smaller one is in it.
LEMMA Least == ASSUME NEW T \in SUBSET Nat, T # {} PROVE \E x \in T : \A y \in T : x <= y
<1>1. IsWellFoundedOn(OpToRel(<, Nat), Nat)
  BY NatLessThanWellFounded
<1>2. PICK R : R = OpToRel(<, Nat)
  OBVIOUS
<1>3. \E x \in T : \A y \in T : ~(<<y, x>> \in R)
  BY <1>1, <1>2, WFMin
<1>4. \A x, y \in Nat : <<y, x>> \in R <=> y < x
  BY <1>2 DEF OpToRel
<1>5. PICK x \in T : \A y \in T : ~(<<y, x>> \in R)
  BY <1>3
<1>6. \A y \in T : x <= y
  <2> TAKE y \in T
  <2>1. x \in Nat /\ y \in Nat
    OBVIOUS
  <2>2. ~(y < x)
    BY <1>4, <1>5, <2>1
  <2> QED BY <2>1, <2>2
<1> QED BY <1>6

\* So has a bounded one a greatest.
LEMMA Greatest ==
    ASSUME NEW n \in Nat, NEW T \in SUBSET (1..n), T # {}
    PROVE  \E x \in T : \A y \in T : y <= x
<1> DEFINE D == {n - x : x \in T}
<1>1. D \in SUBSET Nat /\ D # {}
  <2>1. \A x \in T : n - x \in Nat
    OBVIOUS
  <2>2. \E x \in T : n - x \in D
    OBVIOUS
  <2>3. D # {}
    BY ONLY <2>2, Zenon
  <2> QED BY ONLY <2>1, <2>3, Zenon
<1> HIDE DEF D
<1>2. PICK d \in D : \A y \in D : d <= y
  BY <1>1, Least
<1>3. PICK x \in T : d = n - x
  BY <1>2 DEF D
<1>4. ASSUME NEW y \in T PROVE y <= x
  <2>1. n - y \in D
    BY DEF D
  <2>2. n - x <= n - y
    BY <1>2, <1>3, <2>1
  <2>3. x \in Int /\ y \in Int
    OBVIOUS
  <2> QED BY <2>2, <2>3
<1> QED BY <1>4

LEMMA ParentFacts ==
    ASSUME NEW i \in Nat, i > 1
    PROVE  /\ Parent(i) \in Nat /\ Parent(i) >= 1 /\ Parent(i) < i
           /\ i = 2 * Parent(i) \/ i = 2 * Parent(i) + 1
BY DEF Parent

(***************************************************************************)
(* The way up: it starts at pos, every place but the root is followed by   *)
(* its parent, and every place but pos by a child.                         *)
(***************************************************************************)
LEMMA WayUpFacts ==
    ASSUME NEW pos \in Nat, pos >= 1
    PROVE  /\ WayUp(pos) \subseteq 1..pos /\ pos \in WayUp(pos) /\ 1 \in WayUp(pos)
           /\ \A i \in WayUp(pos) : i > 1 => Parent(i) \in WayUp(pos)
           /\ \A i \in WayUp(pos) : i # pos =>
                 \E j \in WayUp(pos) : j > 1 /\ Parent(j) = i
<1> DEFINE W == WayUp(pos)
           Closed(S) == pos \in S /\ \A j \in S : j > 1 => Parent(j) \in S
<1>1. W = {i \in 1..pos : \A S \in SUBSET (1..pos) : Closed(S) => i \in S}
  BY DEF WayUp
<1>2. W \subseteq 1..pos /\ pos \in W
  BY <1>1
<1>3. ASSUME NEW i \in W, i > 1 PROVE Parent(i) \in W
  <2>1. i \in Nat /\ i <= pos
    BY <1>2
  <2>2. Parent(i) \in 1..pos
    BY <1>3, <2>1, ParentFacts
  <2>3. ASSUME NEW S \in SUBSET (1..pos), Closed(S) PROVE Parent(i) \in S
    BY <1>1, <1>3, <2>3
  <2> QED BY <1>1, <2>2, <2>3
<1>4. 1 \in W
  <2>1. W \in SUBSET Nat /\ W # {}
    BY <1>2
  <2>2. PICK x \in W : \A y \in W : x <= y
    BY ONLY <2>1, Least
  <2>3. x \in Nat /\ x >= 1
    BY <1>2
  <2>4. ~(x > 1)
    <3> SUFFICES ASSUME x > 1 PROVE FALSE
      OBVIOUS
    <3>1. Parent(x) < x /\ Parent(x) \in Nat
      BY <2>3, ParentFacts
    <3>2. x <= Parent(x)
      BY <1>3, <2>2
    <3> QED BY ONLY <2>3, <3>1, <3>2
  <2>5. x = 1
    BY ONLY <2>3, <2>4
  <2> QED BY <2>5
<1>5. ASSUME NEW i \in W, i # pos PROVE \E j \in W : j > 1 /\ Parent(j) = i
  <2> SUFFICES ASSUME \A j \in W : j > 1 => Parent(j) # i PROVE FALSE
    OBVIOUS
  <2>1. W \ {i} \in SUBSET (1..pos)
    BY <1>2
  <2>2. Closed(W \ {i})
    BY <1>2, <1>3, <1>5
  <2>3. i \in W \ {i}
    BY <1>1, <2>1, <2>2
  <2> QED BY <2>3
<1> QED BY <1>2, <1>3, <1>4, <1>5

(***************************************************************************)
(* Nothing on the way is between a place and its parent.                   *)
(***************************************************************************)
LEMMA WayUpIsAPath ==
    ASSUME NEW pos \in Nat, pos >= 1, NEW i \in WayUp(pos), NEW j \in WayUp(pos), i < j
    PROVE  i <= Parent(j)
<1> DEFINE W == WayUp(pos)
           Free(x) == \A k \in W : k < x => k <= Parent(x)
           S == {x \in W : Free(x)}
<1>1. /\ W \subseteq 1..pos /\ pos \in W
      /\ \A k \in W : k > 1 => Parent(k) \in W
      /\ \A k \in W : k # pos => \E x \in W : x > 1 /\ Parent(x) = k
  BY WayUpFacts
<1>2. \A T \in SUBSET (1..pos) :
         (pos \in T /\ \A x \in T : x > 1 => Parent(x) \in T) => W \subseteq T
  BY DEF WayUp
<1> HIDE DEF W
<1>3. ASSUME NEW k \in W, k < pos, NEW p \in Nat, p < k
      PROVE  \E x \in W : x > 1 /\ Parent(x) = k /\ x > 2 * p + 1
  <2>1. PICK x \in W : x > 1 /\ Parent(x) = k
    BY <1>1, <1>3
  <2>2. x \in Nat /\ k \in Nat
    BY <1>1
  <2>3. x = 2 * k \/ x = 2 * k + 1
    BY <2>1, <2>2, ParentFacts
  <2>4. x > 2 * p + 1
    BY ONLY <1>3, <2>2, <2>3, p \in Nat
  <2> QED BY <2>1, <2>4
<1>4. Free(pos)
  <2> SUFFICES ASSUME NEW k \in W, k < pos, ~(k <= Parent(pos)) PROVE FALSE
    OBVIOUS
  <2>1. k \in Nat /\ k >= 1
    BY <1>1
  <2>2. pos > 1
    BY <2>1
  <2>3. Parent(pos) \in Nat /\ (pos = 2 * Parent(pos) \/ pos = 2 * Parent(pos) + 1)
    BY ONLY <2>2, ParentFacts, pos \in Nat
  <2>4. Parent(pos) < k
    BY ONLY <2>1, <2>3, ~(k <= Parent(pos))
  <2>5. PICK x \in W : x > 2 * Parent(pos) + 1
    BY <1>3, <2>3, <2>4
  <2>6. x \in Nat /\ x <= pos
    BY <1>1
  <2> QED BY ONLY <2>3, <2>5, <2>6
<1>5. ASSUME NEW y \in W, Free(y), y > 1 PROVE Free(Parent(y))
  <2> DEFINE p == Parent(y)
  <2> SUFFICES ASSUME NEW k \in W, k < p, ~(k <= Parent(p)) PROVE FALSE
    OBVIOUS
  <2>1. k \in Nat /\ k >= 1 /\ y \in Nat /\ y <= pos
    BY <1>1
  <2>2. p \in Nat /\ p < y /\ (y = 2 * p \/ y = 2 * p + 1)
    BY <1>5, <2>1, ParentFacts
  <2> HIDE DEF p
  <2>3. p > 1
    BY ONLY <2>1, <2>2, k < p
  <2>4. Parent(p) \in Nat /\ (p = 2 * Parent(p) \/ p = 2 * Parent(p) + 1)
    BY ONLY <2>2, <2>3, ParentFacts
  <2>5. Parent(p) < k /\ k < pos
    BY ONLY <2>1, <2>2, <2>4, k < p, ~(k <= Parent(p)), pos \in Nat
  <2>6. PICK x \in W : x > 1 /\ Parent(x) = k /\ x > 2 * Parent(p) + 1
    BY <1>3, <2>4, <2>5
  <2>7. x \in Nat
    BY <1>1
  <2>8. x = 2 * k \/ x = 2 * k + 1
    BY ONLY <2>6, <2>7, ParentFacts
  <2>9. x < y
    BY ONLY <2>1, <2>2, <2>7, <2>8, k < p
  <2>10. x <= p
    BY <1>5, <2>9 DEF p
  <2> QED BY ONLY <2>2, <2>4, <2>6, <2>7, <2>10
<1>6. S \in SUBSET (1..pos) /\ pos \in S /\ \A x \in S : x > 1 => Parent(x) \in S
  <2>1. S \in SUBSET (1..pos) /\ pos \in S
    BY <1>1, <1>4
  <2>2. ASSUME NEW x \in S, x > 1 PROVE Parent(x) \in S
    BY <1>1, <1>5, <2>2
  <2> QED BY <2>1, <2>2
<1>7. j \in S
  BY <1>2, <1>6 DEF W
<1>8. Free(j) /\ i \in W
  BY <1>7 DEF W
<1> QED BY <1>8

(***************************************************************************)
(* Where the element that moves up comes to rest.                          *)
(***************************************************************************)
LEMMA RestingFacts ==
    ASSUME NEW pos \in Nat, pos >= 1, NEW h, NEW key
    PROVE  /\ Resting(h, pos, key) \in WayUp(pos)
           /\ Stops(h, Resting(h, pos, key), h[pos], key)
           /\ \A q \in WayUp(pos) : q > Resting(h, pos, key) => ~Stops(h, q, h[pos], key)
<1> DEFINE T == {p \in WayUp(pos) : Stops(h, p, h[pos], key)}
<1>1. WayUp(pos) \subseteq 1..pos /\ 1 \in WayUp(pos)
  BY WayUpFacts
<1>2. 1 \in T /\ T \in SUBSET (1..pos)
  BY <1>1 DEF Stops
<1>3. T # {}
  BY ONLY <1>2
<1>4. \E x \in T : \A y \in T : y <= x
  BY ONLY <1>2, <1>3, Greatest, pos \in Nat
<1>5. \E p \in WayUp(pos) : /\ Stops(h, p, h[pos], key)
                            /\ \A q \in WayUp(pos) : Stops(h, q, h[pos], key) => q <= p
  BY <1>4
<1>6. /\ Resting(h, pos, key) \in WayUp(pos)
      /\ Stops(h, Resting(h, pos, key), h[pos], key)
      /\ \A q \in WayUp(pos) : Stops(h, q, h[pos], key) => q <= Resting(h, pos, key)
  BY ONLY <1>5, Zenon DEF Resting
<1>7. ASSUME NEW q \in WayUp(pos), q > Resting(h, pos, key) PROVE ~Stops(h, q, h[pos], key)
  <2>1. q \in Int /\ Resting(h, pos, key) \in Int
    BY ONLY <1>1, <1>6, q \in WayUp(pos)
  <2> QED BY ONLY <1>6, <1>7, <2>1
<1> QED BY <1>6, <1>7

\* A call is at most once in the sequence.
NoRepeat(s) == \A i, j \in 1..Len(s) : s[i] = s[j] => i = j

(***************************************************************************)
(* What MoveUp does, with a name for every part of it: the way up W, the   *)
(* resting place r, the result g.                                          *)
(***************************************************************************)
MovedUp(A, h, pos, key, W, r, g) ==
    /\ W \subseteq 1..pos /\ pos \in W /\ r \in W
    /\ \A i \in W : i > 1 => Parent(i) \in W
    /\ \A i \in W : i # pos => \E j \in W : j > 1 /\ Parent(j) = i
    /\ \A i, j \in W : i < j => i <= Parent(j)
    /\ r = 1 \/ key[h[Parent(r)]] <= key[h[pos]]
    /\ \A q \in W : q > r => q > 1 /\ ~(key[h[Parent(q)]] <= key[h[pos]])
    /\ g \in Seq(A) /\ Len(g) = Len(h)
    /\ g[r] = h[pos]
    /\ \A i \in W : i > r => g[i] = h[Parent(i)]
    /\ \A i \in 1..Len(h) : i # r /\ ~(i \in W /\ i > r) => g[i] = h[i]

LEMMA MoveUpMoves ==
    ASSUME NEW A, NEW h \in Seq(A), NEW pos \in 1..Len(h), NEW key
    PROVE  MovedUp(A, h, pos, key, WayUp(pos), Resting(h, pos, key), MoveUp(h, pos, key))
<1> DEFINE W == WayUp(pos)
           r == Resting(h, pos, key)
           g == MoveUp(h, pos, key)
<1>0. pos \in Nat /\ pos >= 1 /\ pos <= Len(h) /\ Len(h) \in Nat
  OBVIOUS
<1>1. /\ W \subseteq 1..pos /\ pos \in W /\ 1 \in W
      /\ \A i \in W : i > 1 => Parent(i) \in W
      /\ \A i \in W : i # pos => \E j \in W : j > 1 /\ Parent(j) = i
  BY ONLY <1>0, WayUpFacts
<1>2. \A i, j \in W : i < j => i <= Parent(j)
  BY ONLY <1>0, WayUpIsAPath
<1>3. /\ r \in W /\ Stops(h, r, h[pos], key)
      /\ \A q \in W : q > r => ~Stops(h, q, h[pos], key)
  BY ONLY <1>0, RestingFacts
<1>4. g = [i \in 1..Len(h) |-> IF i = r THEN h[pos]
                               ELSE IF i \in W /\ i > r THEN h[Parent(i)]
                               ELSE h[i]]
  BY ONLY DEF MoveUp
<1> HIDE DEF W, r, g
<1>5. r \in 1..Len(h) /\ \A i \in W : i \in 1..Len(h)
  BY ONLY <1>0, <1>1, <1>3
<1>6. r = 1 \/ key[h[Parent(r)]] <= key[h[pos]]
  BY ONLY <1>3, Zenon DEF Stops
<1>7. ASSUME NEW q \in W, q > r PROVE q > 1 /\ ~(key[h[Parent(q)]] <= key[h[pos]])
  <2>1. q # 1 /\ ~(key[h[Parent(q)]] <= key[h[pos]])
    BY ONLY <1>3, <1>7, q \in W, Zenon DEF Stops
  <2>2. q \in Nat /\ q >= 1
    BY <1>5
  <2> QED BY ONLY <2>1, <2>2
<1>8. ASSUME NEW i \in 1..Len(h)
      PROVE (IF i = r THEN h[pos] ELSE IF i \in W /\ i > r THEN h[Parent(i)] ELSE h[i]) \in A
  <2>1. h[pos] \in A /\ h[i] \in A
    BY <1>0
  <2>2. ASSUME i \in W, i > r PROVE h[Parent(i)] \in A
    <3>1. Parent(i) \in 1..Len(h)
      BY ONLY <1>1, <1>5, <1>7, <2>2
    <3> QED BY ONLY <3>1, h \in Seq(A)
  <2> QED BY ONLY <2>1, <2>2, Zenon
<1>9. g \in [1..Len(h) -> A]
  BY ONLY <1>4, <1>8
<1>10. g \in Seq(A) /\ Len(g) = Len(h)
  BY ONLY <1>0, <1>9
<1>11. /\ g[r] = h[pos]
       /\ \A i \in W : i > r => g[i] = h[Parent(i)]
       /\ \A i \in 1..Len(h) : i # r /\ ~(i \in W /\ i > r) => g[i] = h[i]
  <2>1. g[r] = h[pos]
    BY ONLY <1>4, <1>5
  <2>2. ASSUME NEW i \in W, i > r PROVE g[i] = h[Parent(i)]
    <3>1. i # r /\ i \in 1..Len(h)
      BY ONLY <1>5, <2>2
    <3> QED BY ONLY <1>4, <2>2, <3>1, Zenon
  <2>3. ASSUME NEW i \in 1..Len(h), i # r, ~(i \in W /\ i > r) PROVE g[i] = h[i]
    BY ONLY <1>4, <2>3, Zenon
  <2> QED BY <2>1, <2>2, <2>3
<1>12. MovedUp(A, h, pos, key, W, r, g)
  BY ONLY <1>1, <1>2, <1>3, <1>6, <1>7, <1>10, <1>11, Zenon DEF MovedUp
<1> QED BY ONLY <1>12 DEF W, r, g

\* Nothing is lost and nothing doubled on the way.
LEMMA MovedUpPermutes ==
    ASSUME NEW A, NEW h \in Seq(A), NEW pos \in 1..Len(h), NEW key, NEW W, NEW r, NEW g,
           MovedUp(A, h, pos, key, W, r, g)
    PROVE  Elements(g) = Elements(h) /\ (NoRepeat(h) => NoRepeat(g))
<1> USE DEF MovedUp
<1>1. /\ r \in Nat /\ 1 <= r /\ r <= pos /\ pos \in Nat /\ pos <= Len(h) /\ Len(h) \in Nat
      /\ \A i \in W : i \in Nat /\ 1 <= i /\ i <= pos
  OBVIOUS
<1>2. DOMAIN g = 1..Len(h) /\ DOMAIN h = 1..Len(h)
  OBVIOUS
<1>3. ASSUME NEW i \in W, i > r
      PROVE /\ Parent(i) \in W /\ r <= Parent(i) /\ Parent(i) < i
            /\ Parent(i) \in 1..Len(h)
  <2>1. i > 1 /\ i \in Nat
    BY ONLY <1>1, <1>3
  <2>2. Parent(i) \in W /\ r <= Parent(i)
    BY ONLY <1>3, <2>1, MovedUp(A, h, pos, key, W, r, g), Zenon DEF MovedUp
  <2>3. Parent(i) < i /\ Parent(i) \in 1..Len(h)
    BY ONLY <1>1, <2>1, <2>2, ParentFacts
  <2> QED BY <2>2, <2>3
<1>4. ASSUME NEW i \in 1..Len(h)
      PROVE  \E k \in 1..Len(h) :
                /\ g[i] = h[k]
                /\ \/ i = r /\ k = pos
                   \/ i \in W /\ i > r /\ k = Parent(i)
                   \/ i # r /\ ~(i \in W /\ i > r) /\ k = i
  <2>1. CASE i = r
    BY <2>1
  <2>2. CASE i \in W /\ i > r
    BY <1>3, <2>2
  <2>3. CASE i # r /\ ~(i \in W /\ i > r)
    BY <2>3
  <2> QED BY <2>1, <2>2, <2>3
<1>5. ASSUME NEW k \in 1..Len(h) PROVE \E i \in 1..Len(h) : g[i] = h[k]
  <2>1. CASE k = pos
    BY <1>1, <2>1
  <2>2. CASE k # r /\ ~(k \in W /\ k > r)
    BY <2>2
  <2>3. CASE k # pos /\ k \in W /\ r <= k
    <3>1. PICK j \in W : j > 1 /\ Parent(j) = k
      BY <2>3
    <3>2. j \in Nat /\ k \in Nat /\ k < j /\ j \in 1..Len(h)
      BY <1>1, <3>1, ParentFacts
    <3>3. j > r
      BY ONLY <1>1, <2>3, <3>2
    <3>4. g[j] = h[k]
      BY <3>1, <3>3
    <3> QED BY <3>2, <3>4
  <2> QED BY <1>1, <2>1, <2>2, <2>3
<1>6. Elements(g) = Elements(h)
  <2>1. \A i \in 1..Len(h) : \E k \in 1..Len(h) : g[i] = h[k]
    BY ONLY <1>4, Zenon
  <2>2. \A k \in 1..Len(h) : \E i \in 1..Len(h) : g[i] = h[k]
    BY ONLY <1>5, Zenon
  <2>3. Elements(g) = {g[i] : i \in 1..Len(h)} /\ Elements(h) = {h[i] : i \in 1..Len(h)}
    BY ONLY <1>2 DEF Elements
  <2>4. ASSUME NEW i \in 1..Len(h) PROVE g[i] \in Elements(h) /\ h[i] \in Elements(g)
    BY ONLY <2>1, <2>2, <2>3
  <2>5. Elements(g) \subseteq Elements(h)
    BY ONLY <2>3, <2>4
  <2>6. Elements(h) \subseteq Elements(g)
    BY ONLY <2>3, <2>4
  <2> QED BY <2>5, <2>6
<1>7. ASSUME NoRepeat(h) PROVE NoRepeat(g)
  <2> SUFFICES ASSUME NEW i \in 1..Len(h), NEW j \in 1..Len(h), g[i] = g[j] PROVE i = j
    BY DEF NoRepeat
  <2>1. PICK k \in 1..Len(h) :
                /\ g[i] = h[k]
                /\ \/ i = r /\ k = pos
                   \/ i \in W /\ i > r /\ k = Parent(i)
                   \/ i # r /\ ~(i \in W /\ i > r) /\ k = i
    BY <1>4
  <2>2. /\ g[j] = h[k]
        /\ \/ j = r /\ k = pos
           \/ j \in W /\ j > r /\ k = Parent(j)
           \/ j # r /\ ~(j \in W /\ j > r) /\ k = j
    <3>1. PICK l \in 1..Len(h) :
                /\ g[j] = h[l]
                /\ \/ j = r /\ l = pos
                   \/ j \in W /\ j > r /\ l = Parent(j)
                   \/ j # r /\ ~(j \in W /\ j > r) /\ l = j
      BY <1>4
    <3>2. k = l
      BY ONLY <1>7, <2>1, <3>1, g[i] = g[j], Zenon DEF NoRepeat
    <3> QED BY ONLY <3>1, <3>2, Zenon
  <2>3. \A x, y \in W : (x > r /\ y > r /\ Parent(x) = Parent(y)) => ~(x < y)
    <3> SUFFICES ASSUME NEW x \in W, NEW y \in W, x > r, Parent(x) = Parent(y), x < y PROVE FALSE
      OBVIOUS
    <3>1. x <= Parent(x) /\ Parent(x) < x /\ x \in Nat /\ Parent(x) \in Nat
      BY <1>1, <1>3
    <3> QED BY ONLY <3>1
  <2>4. CASE i = r /\ k = pos
    <3>1. CASE j \in W /\ j > r /\ k = Parent(j)
      <4>1. Parent(j) < j /\ j <= pos /\ j \in Nat
        BY ONLY <1>1, <1>3, <3>1, Zenon
      <4> QED BY ONLY <1>1, <2>4, <3>1, <4>1
    <3>2. CASE j # r /\ ~(j \in W /\ j > r) /\ k = j
      BY ONLY <1>1, <2>4, <3>2, MovedUp(A, h, pos, key, W, r, g) DEF MovedUp
    <3> QED BY ONLY <2>2, <2>4, <3>1, <3>2, Zenon
  <2>5. CASE i \in W /\ i > r /\ k = Parent(i)
    <3>1. CASE j = r /\ k = pos
      <4>1. Parent(i) < i /\ i <= pos /\ i \in Nat
        BY ONLY <1>1, <1>3, <2>5, Zenon
      <4> QED BY ONLY <1>1, <2>5, <3>1, <4>1
    <3>2. CASE j \in W /\ j > r /\ k = Parent(j)
      <4>1. ~(i < j) /\ ~(j < i)
        BY ONLY <2>3, <2>5, <3>2
      <4> QED BY ONLY <1>1, <2>5, <3>2, <4>1
    <3>3. CASE j # r /\ ~(j \in W /\ j > r) /\ k = j
      <4>1. j \in W /\ r <= j /\ j \in Nat
        BY ONLY <1>1, <1>3, <2>5, <3>3, Zenon
      <4> QED BY ONLY <1>1, <3>3, <4>1
    <3> QED BY <2>2, <3>1, <3>2, <3>3
  <2>6. CASE i # r /\ ~(i \in W /\ i > r) /\ k = i
    <3>1. CASE j = r /\ k = pos
      BY <1>1, <2>6, <3>1
    <3>2. CASE j \in W /\ j > r /\ k = Parent(j)
      <4>1. i \in W /\ r <= i /\ i \in Nat
        BY ONLY <1>1, <1>3, <2>6, <3>2, Zenon
      <4> QED BY ONLY <1>1, <2>6, <4>1
    <3>3. CASE k = j
      BY <2>6, <3>3
    <3> QED BY <2>2, <3>1, <3>2, <3>3
  <2> QED BY <2>1, <2>4, <2>5, <2>6
<1> QED BY <1>6, <1>7

(***************************************************************************)
(* The heap is in order but for the element at pos, which is early.        *)
(***************************************************************************)
OrderedBelow(h, pos, key) ==
    /\ \A i \in 2..Len(h) : i # pos => key[h[Parent(i)]] <= key[h[i]]
    /\ \A i \in 2..Len(h) : (Parent(i) = pos /\ pos > 1) => key[h[Parent(pos)]] <= key[h[i]]

LEMMA MovedUpOrders ==
    ASSUME NEW A, NEW h \in Seq(A), NEW pos \in 1..Len(h), NEW key \in [A -> Int],
           NEW W, NEW r, NEW g, MovedUp(A, h, pos, key, W, r, g), OrderedBelow(h, pos, key)
    PROVE  Ordered(g, key)
<1>1. /\ r \in Nat /\ 1 <= r /\ r <= pos /\ pos \in Nat /\ pos <= Len(h) /\ Len(h) \in Nat
      /\ \A i \in W : i \in Nat /\ 1 <= i /\ i <= pos
      /\ pos \in W /\ r \in W /\ Len(g) = Len(h)
  <2>1. W \subseteq 1..pos /\ pos \in W /\ r \in W /\ Len(g) = Len(h)
    BY ONLY MovedUp(A, h, pos, key, W, r, g), Zenon DEF MovedUp
  <2>2. pos \in Nat /\ pos <= Len(h) /\ Len(h) \in Nat
    OBVIOUS
  <2> QED BY ONLY <2>1, <2>2
<1>2. /\ \A i \in W : i > 1 => Parent(i) \in W
      /\ \A i \in W : i # pos => \E j \in W : j > 1 /\ Parent(j) = i
      /\ \A i, j \in W : i < j => i <= Parent(j)
      /\ r = 1 \/ key[h[Parent(r)]] <= key[h[pos]]
      /\ \A q \in W : q > r => q > 1 /\ ~(key[h[Parent(q)]] <= key[h[pos]])
      /\ g[r] = h[pos]
      /\ \A i \in W : i > r => g[i] = h[Parent(i)]
      /\ \A i \in 1..Len(h) : i # r /\ ~(i \in W /\ i > r) => g[i] = h[i]
  BY DEF MovedUp
<1>3. \A i \in 1..Len(h) : key[h[i]] \in Int
  OBVIOUS
<1>4. \A i \in 2..Len(h) : i # pos => key[h[Parent(i)]] <= key[h[i]]
  BY DEF OrderedBelow
<1>a. \A i \in 2..Len(h) : (Parent(i) = pos /\ pos > 1) => key[h[Parent(pos)]] <= key[h[i]]
  BY DEF OrderedBelow
<1>5. ASSUME NEW q \in W, q > r
      PROVE  /\ Parent(q) \in W /\ r <= Parent(q) /\ q > 1 /\ Parent(q) \in 1..Len(h)
             /\ key[h[pos]] <= key[h[Parent(q)]]
  <2>1. /\ Parent(q) \in W /\ r <= Parent(q) /\ q > 1
        /\ ~(key[h[Parent(q)]] <= key[h[pos]])
    BY ONLY <1>1, <1>2, <1>5, q \in W, Zenon
  <2>a. Parent(q) \in Nat /\ 1 <= Parent(q) /\ Parent(q) <= pos
    BY ONLY <1>1, <2>1, Zenon
  <2>2. Parent(q) \in 1..Len(h)
    BY ONLY <1>1, <2>a
  <2>3. key[h[pos]] \in Int /\ key[h[Parent(q)]] \in Int
    BY ONLY <1>3, <2>2, pos \in 1..Len(h), Zenon
  <2> QED BY ONLY <2>1, <2>2, <2>3
<1> SUFFICES ASSUME NEW i \in 2..Len(h) PROVE key[g[Parent(i)]] <= key[g[i]]
  BY <1>1 DEF Ordered
<1>6. /\ i \in Nat /\ i > 1 /\ i \in 1..Len(h) /\ Parent(i) \in 1..Len(h) /\ Parent(i) < i
      /\ Parent(i) \in Nat
  BY ONLY <1>1, ParentFacts, i \in 2..Len(h)
<1>7. CASE i = r
  <2>1. g[Parent(i)] = h[Parent(i)]
    <3>1. Parent(i) # r /\ ~(Parent(i) > r)
      BY ONLY <1>1, <1>6, <1>7
    <3> QED BY ONLY <1>2, <1>6, <3>1, Zenon
  <2>2. r # 1
    BY ONLY <1>6, <1>7
  <2> QED BY ONLY <1>2, <1>7, <2>1, <2>2, Zenon
<1>8. CASE i \in W /\ i > r
  <2>1. g[i] = h[Parent(i)] /\ Parent(i) \in W /\ r <= Parent(i) /\ key[h[pos]] <= key[h[Parent(i)]]
    BY ONLY <1>2, <1>5, <1>8, Zenon
  <2>2. CASE Parent(i) = r
    BY ONLY <1>2, <2>1, <2>2, Zenon
  <2>3. CASE Parent(i) > r
    <3>1. Parent(i) # pos /\ Parent(i) \in 2..Len(h)
      BY ONLY <1>1, <1>6, <1>8, <2>3
    <3>2. g[Parent(i)] = h[Parent(Parent(i))]
      BY ONLY <1>2, <2>1, <2>3, Zenon
    <3>3. key[h[Parent(Parent(i))]] <= key[h[Parent(i)]]
      BY ONLY <1>4, <3>1, Zenon
    <3> QED BY ONLY <2>1, <3>2, <3>3, Zenon
  <2> QED BY ONLY <1>1, <1>6, <2>1, <2>2, <2>3
<1>9. CASE i # r /\ ~(i \in W /\ i > r)
  <2>1. g[i] = h[i] /\ i # pos
    BY ONLY <1>1, <1>2, <1>6, <1>9
  <2>2. key[h[Parent(i)]] <= key[h[i]]
    BY ONLY <1>4, <2>1, i \in 2..Len(h), Zenon
  <2>3. CASE Parent(i) = r
    <3>1. g[Parent(i)] = h[pos]
      BY ONLY <1>2, <2>3, Zenon
    <3>2. CASE r = pos
      BY ONLY <2>1, <2>2, <2>3, <3>1, <3>2, Zenon
    <3>3. CASE r # pos
      <4>1. PICK j \in W : j > 1 /\ Parent(j) = r
        BY ONLY <1>1, <1>2, <3>3, Zenon
      <4>2. j > r
        BY ONLY <1>1, <4>1, ParentFacts
      <4>3. key[h[pos]] <= key[h[r]]
        BY ONLY <1>5, <4>1, <4>2, Zenon
      <4>4. key[h[pos]] \in Int /\ key[h[r]] \in Int /\ key[h[i]] \in Int
        BY ONLY <1>3, <1>6, <2>3, pos \in 1..Len(h), Zenon
      <4>5. key[h[r]] <= key[h[i]]
        BY ONLY <2>2, <2>3, Zenon
      <4>6. key[h[pos]] <= key[h[i]]
        BY ONLY <4>3, <4>4, <4>5
      <4> QED BY ONLY <2>1, <3>1, <4>6, Zenon
    <3> QED BY ONLY <3>2, <3>3
  <2>4. CASE Parent(i) \in W /\ Parent(i) > r
    <3>1. g[Parent(i)] = h[Parent(Parent(i))] /\ Parent(Parent(i)) \in 1..Len(h)
      BY ONLY <1>2, <1>5, <2>4, Zenon
    <3>2. CASE Parent(i) = pos
      <4>1. pos > 1
        BY ONLY <1>1, <2>4, <3>2
      <4>2. key[h[Parent(pos)]] <= key[h[i]]
        BY ONLY <1>a, <3>2, <4>1, i \in 2..Len(h), Zenon
      <4> QED BY ONLY <2>1, <3>1, <3>2, <4>2, Zenon
    <3>3. CASE Parent(i) # pos
      <4>1. Parent(i) \in 2..Len(h)
        BY ONLY <1>1, <1>6, <2>4
      <4>2. key[h[Parent(Parent(i))]] <= key[h[Parent(i)]]
        BY ONLY <1>4, <3>3, <4>1, Zenon
      <4>3. /\ key[h[Parent(Parent(i))]] \in Int /\ key[h[Parent(i)]] \in Int
            /\ key[h[i]] \in Int
        BY ONLY <1>3, <1>6, <3>1, Zenon
      <4>4. key[h[Parent(Parent(i))]] <= key[h[i]]
        BY ONLY <2>2, <4>2, <4>3
      <4> QED BY ONLY <2>1, <3>1, <4>4, Zenon
    <3> QED BY ONLY <3>2, <3>3
  <2>5. CASE Parent(i) # r /\ ~(Parent(i) \in W /\ Parent(i) > r)
    BY ONLY <1>2, <1>6, <2>1, <2>2, <2>5, Zenon
  <2> QED BY ONLY <2>3, <2>4, <2>5
<1> QED BY ONLY <1>7, <1>8, <1>9

\* The first element of a heap is the earliest.
LEMMA RootIsEarliest ==
    ASSUME NEW A, NEW h \in Seq(A), NEW key \in [A -> Int], Ordered(h, key),
           NEW i \in 1..Len(h)
    PROVE  key[h[1]] <= key[h[i]]
<1> DEFINE Bad == {x \in 1..Len(h) : ~(key[h[1]] <= key[h[x]])}
<1> SUFFICES ASSUME Bad # {} PROVE FALSE
  OBVIOUS
<1>1. Bad \in SUBSET Nat
  OBVIOUS
<1>2. PICK x \in Bad : \A y \in Bad : x <= y
  BY ONLY <1>1, Bad # {}, Least
<1>3. x \in 1..Len(h) /\ ~(key[h[1]] <= key[h[x]]) /\ Len(h) \in Nat
  OBVIOUS
<1>4. \A y \in 1..Len(h) : key[h[y]] \in Int
  OBVIOUS
<1>5. 1 \in 1..Len(h)
  BY ONLY <1>3
<1>6. x # 1
  BY ONLY <1>3, <1>4, <1>5
<1>7. /\ x \in 2..Len(h) /\ Parent(x) \in 1..Len(h) /\ Parent(x) < x /\ x \in Nat
      /\ Parent(x) \in Nat
  BY ONLY <1>3, <1>6, ParentFacts
<1>8. key[h[Parent(x)]] <= key[h[x]]
  BY <1>7 DEF Ordered
<1>9. Parent(x) \notin Bad
  BY ONLY <1>2, <1>7
<1>10. key[h[1]] <= key[h[Parent(x)]]
  BY <1>7, <1>9
<1>11. key[h[1]] \in Int /\ key[h[Parent(x)]] \in Int /\ key[h[x]] \in Int
  BY ONLY <1>3, <1>4, <1>5, <1>7, Zenon
<1> QED BY ONLY <1>3, <1>8, <1>10, <1>11

-------------------------------------------------------------------------------
\* What the reactor asks of its heap: the right calls, each once, in order.
HeapOf(S, h, key) ==
    h \in Seq(Calls) /\ Elements(h) = S /\ NoRepeat(h) /\ Ordered(h, key)

LEMMA MoveUpKeepsHeap ==
    ASSUME NEW h \in Seq(Calls), NoRepeat(h), NEW pos \in 1..Len(h),
           NEW key \in [Calls -> Int], OrderedBelow(h, pos, key)
    PROVE  HeapOf(Elements(h), MoveUp(h, pos, key), key)
<1>1. PICK W, r, g : /\ g = MoveUp(h, pos, key)
                     /\ MovedUp(Calls, h, pos, key, W, r, g)
  BY ONLY MoveUpMoves, h \in Seq(Calls), pos \in 1..Len(h), Zenon
<1>2. Elements(g) = Elements(h) /\ NoRepeat(g)
  BY ONLY <1>1, MovedUpPermutes, h \in Seq(Calls), pos \in 1..Len(h), NoRepeat(h)
<1>3. Ordered(g, key)
  BY ONLY <1>1, MovedUpOrders, h \in Seq(Calls), pos \in 1..Len(h), OrderedBelow(h, pos, key),
     key \in [Calls -> Int]
<1>4. g \in Seq(Calls)
  BY ONLY <1>1 DEF MovedUp
<1> QED BY ONLY <1>1, <1>2, <1>3, <1>4, Zenon DEF HeapOf

\* Only the time of a call in the heap matters to the heap.
LEMMA OrderedElsewhere ==
    ASSUME NEW h \in Seq(Calls), NEW c, c \notin Elements(h), NEW key, NEW new,
           \A d \in Calls : d # c => new[d] = key[d], Ordered(h, key)
    PROVE  Ordered(h, new)
<1>1. \A i \in 1..Len(h) : h[i] \in Calls /\ h[i] # c
  BY DEF Elements
<1>2. \A i \in 1..Len(h) : new[h[i]] = key[h[i]]
  BY ONLY <1>1, \A d \in Calls : d # c => new[d] = key[d], Zenon
<1> SUFFICES ASSUME NEW i \in 2..Len(h) PROVE new[h[Parent(i)]] <= new[h[i]]
  BY DEF Ordered
<1>3. i \in 1..Len(h) /\ Parent(i) \in 1..Len(h)
  BY ParentFacts
<1>4. key[h[Parent(i)]] <= key[h[i]]
  BY DEF Ordered
<1> QED BY ONLY <1>2, <1>3, <1>4, Zenon

\* _moveCallLaterSooner, for a call whose time has become earlier.
LEMMA SoonerKeepsHeap ==
    ASSUME NEW S, NEW h, NEW key \in [Calls -> Int], HeapOf(S, h, key),
           NEW c \in Calls, NEW new \in [Calls -> Int], new[c] <= key[c],
           \A d \in Calls : d # c => new[d] = key[d]
    PROVE  HeapOf(S, MoveCallLaterSooner(h, c, new), new)
<1>1. h \in Seq(Calls) /\ Elements(h) = S /\ NoRepeat(h) /\ Ordered(h, key)
  BY DEF HeapOf
<1>2. CASE c \notin Elements(h)
  <2>1. MoveCallLaterSooner(h, c, new) = h
    BY <1>2 DEF MoveCallLaterSooner
  <2>2. Ordered(h, new)
    BY <1>1, <1>2, OrderedElsewhere
  <2> QED BY <1>1, <2>1, <2>2 DEF HeapOf
<1>3. CASE c \in Elements(h)
  <2>0. Len(h) \in Nat /\ DOMAIN h = 1..Len(h) /\ \A i \in 1..Len(h) : h[i] \in Calls
    BY <1>1
  <2>1. \E i \in DOMAIN h : h[i] = c
    BY <1>3 DEF Elements
  <2>2. PICK pos \in DOMAIN h : h[pos] = c /\ MoveCallLaterSooner(h, c, new) = MoveUp(h, pos, new)
    BY ONLY <1>3, <2>1, Zenon DEF MoveCallLaterSooner
  <2>3. pos \in 1..Len(h) /\ pos \in Nat
    BY ONLY <2>0, <2>2
  <2>4. /\ \A i \in 1..Len(h) : new[h[i]] <= key[h[i]] /\ new[h[i]] \in Int /\ key[h[i]] \in Int
        /\ \A i \in 1..Len(h) : i # pos => new[h[i]] = key[h[i]]
    <3>1. ASSUME NEW i \in 1..Len(h), i # pos PROVE new[h[i]] = key[h[i]]
      <4>1. h[i] # c /\ h[i] \in Calls
        BY ONLY <1>1, <2>0, <2>2, <2>3, <3>1 DEF NoRepeat
      <4> QED BY <4>1
    <3>2. ASSUME NEW i \in 1..Len(h)
          PROVE new[h[i]] <= key[h[i]] /\ new[h[i]] \in Int /\ key[h[i]] \in Int
      <4>1. new[h[i]] \in Int /\ key[h[i]] \in Int
        BY <2>0
      <4>2. new[h[i]] = key[h[i]] \/ i = pos
        BY <3>1
      <4> QED BY <2>2, <4>1, <4>2
    <3> QED BY <3>1, <3>2
  <2>5. OrderedBelow(h, pos, new)
    <3>1. ASSUME NEW i \in 2..Len(h), i # pos PROVE new[h[Parent(i)]] <= new[h[i]]
      <4>1. i \in 1..Len(h) /\ Parent(i) \in 1..Len(h)
        BY <2>0, ParentFacts
      <4>2. key[h[Parent(i)]] <= key[h[i]]
        BY <1>1 DEF Ordered
      <4>3. /\ new[h[Parent(i)]] <= key[h[Parent(i)]] /\ new[h[i]] = key[h[i]]
            /\ new[h[Parent(i)]] \in Int /\ key[h[Parent(i)]] \in Int /\ key[h[i]] \in Int
        BY ONLY <2>4, <3>1, <4>1, Zenon
      <4> QED BY ONLY <4>2, <4>3
    <3>2. ASSUME NEW i \in 2..Len(h), Parent(i) = pos, pos > 1
          PROVE new[h[Parent(pos)]] <= new[h[i]]
      <4>1. i \in 1..Len(h) /\ pos \in 2..Len(h) /\ Parent(pos) \in 1..Len(h) /\ i # pos
        BY ONLY <2>0, <2>3, <3>2, i \in 2..Len(h), ParentFacts
      <4>2. key[h[Parent(i)]] <= key[h[i]] /\ key[h[Parent(pos)]] <= key[h[pos]]
        BY <1>1, <4>1 DEF Ordered
      <4>3. /\ new[h[Parent(pos)]] <= key[h[Parent(pos)]] /\ new[h[i]] = key[h[i]]
            /\ new[h[Parent(pos)]] \in Int /\ key[h[Parent(pos)]] \in Int /\ key[h[i]] \in Int
            /\ key[h[pos]] \in Int
        BY ONLY <2>3, <2>4, <4>1, Zenon
      <4>4. key[h[pos]] <= key[h[i]]
        BY ONLY <3>2, <4>2, Zenon
      <4> QED BY ONLY <4>2, <4>3, <4>4
    <3> QED BY <3>1, <3>2 DEF OrderedBelow
  <2> QED BY ONLY <1>1, <2>2, <2>3, <2>5, MoveUpKeepsHeap, new \in [Calls -> Int]
<1> QED BY <1>2, <1>3

LEMMA AppendsOnce ==
    ASSUME NEW A, NEW s \in Seq(A), NoRepeat(s), NEW c \in A, c \notin Elements(s)
    PROVE  /\ Append(s, c) \in Seq(A) /\ Elements(Append(s, c)) = Elements(s) \cup {c}
           /\ NoRepeat(Append(s, c))
<1>2. PICK n \in Nat : n = Len(s)
  OBVIOUS
<1>3. /\ Append(s, c) \in Seq(A) /\ Len(Append(s, c)) = n + 1
      /\ \A i \in 1..n : Append(s, c)[i] = s[i]
      /\ Append(s, c)[n + 1] = c
  BY <1>2
<1>4. PICK a \in Seq(A) : /\ a = Append(s, c) /\ Len(a) = n + 1
                          /\ \A i \in 1..n : a[i] = s[i]
                          /\ a[n + 1] = c
  BY ONLY <1>3, Zenon
<1>5. Elements(s) = {s[i] : i \in 1..n}
  BY <1>2 DEF Elements
<1>6. Elements(a) = Elements(s) \cup {c}
  <2>1. DOMAIN a = 1..(n + 1)
    BY <1>4
  <2>2. \A i \in 1..(n + 1) : i \in 1..n \/ i = n + 1
    OBVIOUS
  <2>3. \A i \in 1..n : i \in 1..(n + 1)
    OBVIOUS
  <2>4. n + 1 \in 1..(n + 1)
    OBVIOUS
  <2>5. Elements(a) = {a[i] : i \in 1..(n + 1)}
    BY ONLY <2>1 DEF Elements
  <2>6. ASSUME NEW x \in Elements(a) PROVE x \in Elements(s) \cup {c}
    BY ONLY <1>4, <1>5, <2>2, <2>5, <2>6
  <2>7. c \in Elements(a)
    BY ONLY <1>4, <2>4, <2>5
  <2>8. ASSUME NEW x \in Elements(s) PROVE x \in Elements(a)
    <3>1. PICK i \in 1..n : x = s[i]
      BY ONLY <1>5, <2>8
    <3>2. x = a[i] /\ i \in 1..(n + 1)
      BY ONLY <1>4, <2>3, <3>1, Zenon
    <3> QED BY ONLY <2>5, <3>2
  <2> QED BY <2>6, <2>7, <2>8
<1>7. NoRepeat(a)
  <2>1. ASSUME NEW i \in 1..(n + 1), NEW j \in 1..(n + 1), a[i] = a[j] PROVE i = j
    <3>1. \A k \in 1..n : s[k] # c
      BY ONLY <1>5, c \notin Elements(s)
    <3>2. i \in 1..n \/ i = n + 1
      OBVIOUS
    <3>3. j \in 1..n \/ j = n + 1
      OBVIOUS
    <3> QED BY ONLY NoRepeat(s), <1>2, <1>4, <2>1, <3>1, <3>2, <3>3, Zenon DEF NoRepeat
  <2> QED BY ONLY <1>4, <2>1, Zenon DEF NoRepeat
<1> QED BY ONLY <1>4, <1>6, <1>7, a \in Seq(A), Zenon

LEMMA TailTakesOne ==
    ASSUME NEW A, NEW s \in Seq(A), NoRepeat(s), s # <<>>
    PROVE  /\ Tail(s) \in Seq(A) /\ Head(s) \in A /\ Head(s) \in Elements(s)
           /\ Elements(Tail(s)) = Elements(s) \ {Head(s)} /\ NoRepeat(Tail(s))
<1>1. PICK n \in Nat : n = Len(s) /\ n > 0
  OBVIOUS
<1>2. Head(s) = s[1] /\ s[1] \in A
  BY <1>1
<1>3. /\ Tail(s) \in Seq(A) /\ Len(Tail(s)) = n - 1
      /\ \A i \in 1..(n - 1) : Tail(s)[i] = s[i + 1]
  BY <1>1
<1>4. PICK a \in Seq(A) : /\ a = Tail(s) /\ Len(a) = n - 1
                          /\ \A i \in 1..(n - 1) : a[i] = s[i + 1]
  BY ONLY <1>3, Zenon
<1>5. Elements(s) = {s[i] : i \in 1..n} /\ Elements(a) = {a[i] : i \in 1..(n - 1)}
  <2>1. DOMAIN s = 1..n
    BY <1>1
  <2>2. DOMAIN a = 1..(n - 1)
    BY <1>4
  <2> QED BY ONLY <2>1, <2>2 DEF Elements
<1>6. \A i, j \in 1..n : s[i] = s[j] => i = j
  BY <1>1 DEF NoRepeat
<1>7. 1 \in 1..n
  BY ONLY <1>1
<1>8. ASSUME NEW i \in 1..(n - 1)
      PROVE  i + 1 \in 1..n /\ i + 1 # 1 /\ s[i + 1] # s[1] /\ a[i] = s[i + 1]
  <2>1. i + 1 \in 1..n /\ i + 1 # 1
    OBVIOUS
  <2> QED BY ONLY <1>4, <1>6, <1>7, <2>1, i \in 1..(n - 1), Zenon
<1>9. Elements(a) = Elements(s) \ {s[1]}
  <2>1. ASSUME NEW x \in Elements(a) PROVE x \in Elements(s) \ {s[1]}
    <3>1. PICK i \in 1..(n - 1) : x = a[i]
      BY ONLY <1>5, <2>1
    <3> QED BY ONLY <1>5, <1>8, <3>1
  <2>2. ASSUME NEW x \in Elements(s), x # s[1] PROVE x \in Elements(a)
    <3>1. PICK i \in 1..n : x = s[i]
      BY ONLY <1>5, <2>2
    <3>2. i # 1
      BY ONLY <2>2, <3>1, Zenon
    <3>3. i - 1 \in 1..(n - 1) /\ (i - 1) + 1 = i
      BY ONLY <3>2, n \in Nat, i \in 1..n
    <3>4. x = a[i - 1]
      BY ONLY <1>4, <3>1, <3>3
    <3> QED BY ONLY <1>5, <3>3, <3>4
  <2> QED BY <2>1, <2>2
<1>10. NoRepeat(a)
  <2>1. ASSUME NEW i \in 1..(n - 1), NEW j \in 1..(n - 1), a[i] = a[j] PROVE i = j
    <3>1. i + 1 \in 1..n /\ j + 1 \in 1..n /\ s[i + 1] = s[j + 1]
      BY ONLY <1>8, <2>1, Zenon
    <3>2. i + 1 = j + 1
      BY ONLY <1>6, <3>1, Zenon
    <3> QED BY ONLY <3>2, n \in Nat, i \in 1..(n - 1), j \in 1..(n - 1)
  <2> QED BY ONLY <1>4, <2>1, Zenon DEF NoRepeat
<1>11. s[1] \in Elements(s)
  BY ONLY <1>5, <1>7
<1> QED BY ONLY <1>2, <1>4, <1>9, <1>10, <1>11, a \in Seq(A), Zenon

\* heappush.
LEMMA PushKeepsHeap ==
    ASSUME NEW S, NEW h, NEW key \in [Calls -> Int], HeapOf(S, h, key), NEW c \in Calls, c \notin S
    PROVE  HeapOf(S \cup {c}, Push(h, c, key), key)
<1>1. h \in Seq(Calls) /\ Elements(h) = S /\ NoRepeat(h) /\ Ordered(h, key)
  BY DEF HeapOf
<1>2. PICK n \in Nat : n = Len(h)
  BY <1>1
<1>3. /\ Append(h, c) \in Seq(Calls) /\ Elements(Append(h, c)) = S \cup {c}
      /\ NoRepeat(Append(h, c))
  BY ONLY <1>1, AppendsOnce, c \in Calls, c \notin S
<1>4. /\ Len(Append(h, c)) = n + 1 /\ \A i \in 1..n : Append(h, c)[i] = h[i]
      /\ Append(h, c)[n + 1] = c
  BY <1>1, <1>2
<1>5. PICK a \in Seq(Calls) : /\ a = Append(h, c) /\ Len(a) = n + 1
                              /\ \A i \in 1..n : a[i] = h[i]
                              /\ a[n + 1] = c /\ Elements(a) = S \cup {c} /\ NoRepeat(a)
  BY ONLY <1>3, <1>4, Zenon
<1>8. OrderedBelow(a, n + 1, key)
  <2>1. ASSUME NEW i \in 2..(n + 1), i # n + 1 PROVE key[a[Parent(i)]] <= key[a[i]]
    <3>1. i \in 2..n /\ i \in 1..n /\ Parent(i) \in 1..n
      BY <2>1, ParentFacts
    <3>2. key[h[Parent(i)]] <= key[h[i]]
      BY <1>1, <1>2, <3>1 DEF Ordered
    <3> QED BY ONLY <1>5, <3>1, <3>2, Zenon
  <2>2. ASSUME NEW i \in 2..(n + 1) PROVE Parent(i) # n + 1
    <3>1. i \in Nat /\ i > 1 /\ i <= n + 1
      OBVIOUS
    <3>2. Parent(i) < i /\ Parent(i) \in Nat
      BY ONLY <3>1, ParentFacts
    <3> QED BY ONLY <3>1, <3>2
  <2> QED BY ONLY <1>5, <2>1, <2>2, Zenon DEF OrderedBelow
<1>9. n + 1 \in 1..Len(a)
  BY ONLY <1>5
<1>10. HeapOf(Elements(a), MoveUp(a, n + 1, key), key)
  BY ONLY <1>5, <1>8, <1>9, MoveUpKeepsHeap, a \in Seq(Calls), key \in [Calls -> Int]
<1>11. Push(h, c, key) = MoveUp(a, n + 1, key)
  BY ONLY <1>2, <1>5, Zenon DEF Push
<1> QED BY ONLY <1>5, <1>10, <1>11, Zenon

LEMMA ElementsFinite == ASSUME NEW A, NEW s \in Seq(A) PROVE IsFiniteSet(Elements(s))
<1>1. IsFiniteSet(1..Len(s))
  BY FS_Interval
<1>2. s \in Surjection(1..Len(s), Elements(s))
  BY DEF Surjection, Elements
<1> QED BY <1>1, <1>2, FS_Surjection

\* heappop and heapify.
LEMMA HeapsAreHeaps ==
    ASSUME NEW S \in SUBSET Calls, IsFiniteSet(S), NEW key, NEW h \in Heaps(S, key)
    PROVE  HeapOf(S, h, key)
<1>1. PICK n \in Nat : n = Cardinality(S)
  BY FS_CardinalityType
<1>2. h \in [1..n -> S] /\ Elements(h) = S /\ Ordered(h, key)
  BY <1>1 DEF Heaps
<1>3. IsFiniteSet(1..n) /\ Cardinality(1..n) = n
  BY FS_Interval
<1>4. h \in Surjection(1..n, S)
  BY <1>2 DEF Surjection, Elements
<1>5. h \in Injection(1..n, S)
  BY <1>1, <1>3, <1>4, FS_SurjSameCardinalityImpliesInj
<1>6. h \in Seq(Calls) /\ Len(h) = n
  BY <1>2
<1>7. NoRepeat(h)
  BY <1>2, <1>5, <1>6 DEF Injection, IsInjective, NoRepeat
<1> QED BY <1>2, <1>6, <1>7 DEF HeapOf

-------------------------------------------------------------------------------
(***************************************************************************)
(* The calls that the reactor has, in the heap or in the list of new ones, *)
(* are made, not yet called, and in one place each; no call that is to be  *)
(* made is anywhere else.  The clock was read before the loop, and while   *)
(* the reactor sleeps nothing is new and the deadline is that of the top   *)
(* of the heap.                                                            *)
(***************************************************************************)
TimerTypes ==
    /\ clock \in Nat /\ now \in Nat /\ now <= clock /\ deadline \in Int
    /\ made \subseteq Calls /\ time \in [Calls -> Int] /\ delayed \in [Calls -> Nat]

TimerFlags == cancelled \in [Calls -> BOOLEAN] /\ called \in [Calls -> BOOLEAN]

TimerHeap == HeapOf(Elements(heap), heap, time)

TimerNew ==
    /\ newCalls \in Seq(Calls) /\ NoRepeat(newCalls)
    /\ \A c \in Elements(newCalls) : c \notin Elements(heap)

TimerHeld ==
    \A c \in Calls :
       /\ c \in Elements(heap) \cup Elements(newCalls) => c \in made /\ ~called[c]
       /\ Active(c) => c \in Elements(heap) \cup Elements(newCalls)
       /\ called[c] => c \in made

TimerSleep ==
    pc = "poll" =>
       /\ newCalls = <<>>
       /\ heap # <<>> => deadline # -1 /\ (deadline <= clock \/ deadline <= time[heap[1]])

TimerInvariant ==
    TimerTypes /\ TimerFlags /\ TimerHeap /\ TimerNew /\ TimerHeld /\ TimerSleep

LEMMA NoElements == /\ <<>> \in Seq(Calls) /\ Elements(<<>>) = {} /\ NoRepeat(<<>>)
                    /\ \A key : Ordered(<<>>, key)
BY DEF Elements, NoRepeat, Ordered

LEMMA TimerInit == Init => TimerInvariant
<1> SUFFICES ASSUME Init PROVE TimerInvariant
  OBVIOUS
<1>1. TimerTypes
  BY DEF Init, TimerTypes
<1>2. TimerFlags
  BY DEF Init, TimerFlags
<1>3. TimerHeap /\ TimerNew
  BY NoElements DEF Init, TimerHeap, HeapOf, TimerNew
<1>4. TimerHeld
  BY NoElements DEF Init, TimerHeld, Active
<1>5. TimerSleep
  BY DEF Init, TimerSleep
<1> QED BY <1>1, <1>2, <1>3, <1>4, <1>5 DEF TimerInvariant

\* The call at the top of the heap.
LEMMA TopOfHeap ==
    ASSUME TimerInvariant, heap # <<>>
    PROVE  /\ heap[1] \in Calls /\ heap[1] \in Elements(heap) /\ heap[1] \in made
           /\ ~called[heap[1]] /\ heap[1] \notin Elements(newCalls)
           /\ \A c \in Elements(heap) : c \in Calls /\ time[heap[1]] <= time[c]
<1>1. heap \in Seq(Calls) /\ Ordered(heap, time) /\ time \in [Calls -> Int]
  BY DEF TimerInvariant, TimerHeap, HeapOf, TimerTypes
<1>2. Len(heap) \in Nat /\ Len(heap) > 0 /\ DOMAIN heap = 1..Len(heap) /\ heap[1] \in Calls
  BY <1>1
<1>3. 1 \in 1..Len(heap)
  BY ONLY <1>2
<1>4. heap[1] \in Elements(heap)
  BY ONLY <1>2, <1>3 DEF Elements
<1>5. ASSUME NEW c \in Elements(heap) PROVE c \in Calls /\ time[heap[1]] <= time[c]
  <2>1. PICK i \in 1..Len(heap) : c = heap[i]
    BY ONLY <1>2, <1>5 DEF Elements
  <2>2. time[heap[1]] <= time[heap[i]]
    BY ONLY <1>1, RootIsEarliest, i \in 1..Len(heap)
  <2>3. heap[i] \in Calls
    BY ONLY <1>1, i \in 1..Len(heap)
  <2> QED BY ONLY <2>1, <2>2, <2>3, Zenon
<1>6. heap[1] \in made /\ ~called[heap[1]] /\ heap[1] \notin Elements(newCalls)
  BY ONLY <1>2, <1>4, TimerInvariant, Zenon DEF TimerInvariant, TimerHeld, TimerNew
<1> QED BY <1>2, <1>4, <1>5, <1>6

\* What is left of the heap when calls are taken out of it.
LEMMA RestOfHeap ==
    ASSUME TimerInvariant, NEW S, S \subseteq Elements(heap), NEW h \in Heaps(S, time)
    PROVE  HeapOf(S, h, time)
<1>1. heap \in Seq(Calls)
  BY DEF TimerInvariant, TimerHeap, HeapOf
<1>2. Elements(heap) \subseteq Calls
  BY ONLY <1>1 DEF Elements
<1>3. IsFiniteSet(S)
  BY ONLY <1>1, ElementsFinite, FS_Subset, S \subseteq Elements(heap)
<1> QED BY ONLY <1>2, <1>3, HeapsAreHeaps, S \subseteq Elements(heap), h \in Heaps(S, time)

\* Operations of the application that leave the heap and the new calls as they are.
LEMMA TimerStays ==
    ASSUME TimerInvariant, UNCHANGED <<made, called, time, newCalls, heap>>, pc' # "poll",
           TimerTypes', TimerFlags', \A c \in Calls : cancelled[c] => cancelled'[c]
    PROVE  TimerInvariant'
<1>1. TimerHeap' /\ TimerNew'
  BY DEF TimerInvariant, TimerHeap, TimerNew
<1>2. TimerHeld'
  BY Zenon DEF TimerInvariant, TimerHeld, Active
<1>3. TimerSleep'
  BY DEF TimerSleep
<1> QED BY <1>1, <1>2, <1>3 DEF TimerInvariant

LEMMA TimerCallLater ==
    ASSUME TimerInvariant, NEW c \in Calls, NEW s \in Seconds, CallLater(c, s)
    PROVE  TimerInvariant'
<1>1. /\ pc \in {"io", "callback"} /\ c \notin made /\ made' = made \cup {c}
      /\ time' = [time EXCEPT ![c] = clock + s] /\ newCalls' = Append(newCalls, c)
      /\ UNCHANGED <<clock, called, pc, now, deadline, delayed, cancelled, heap>>
  BY DEF CallLater, Application
<1>2. clock + s \in Int
  BY TimedCallsAssumption DEF TimedCallsAssumption, TimerInvariant, TimerTypes
<1>3. TimerTypes'
  BY <1>1, <1>2 DEF TimerInvariant, TimerTypes
<1>4. TimerFlags'
  BY <1>1 DEF TimerInvariant, TimerFlags
<1>5. c \notin Elements(heap) /\ c \notin Elements(newCalls) /\ ~called[c]
  BY <1>1, Zenon DEF TimerInvariant, TimerHeld
<1>6. TimerHeap'
  <2>1. heap \in Seq(Calls) /\ NoRepeat(heap) /\ Ordered(heap, time)
    BY DEF TimerInvariant, TimerHeap, HeapOf
  <2>2. \A d \in Calls : d # c => time'[d] = time[d]
    BY <1>1 DEF TimerInvariant, TimerTypes
  <2>3. Ordered(heap, time')
    BY ONLY <1>5, <2>1, <2>2, OrderedElsewhere
  <2> QED BY <1>1, <2>1, <2>3 DEF TimerHeap, HeapOf
<1>7. /\ newCalls' \in Seq(Calls) /\ NoRepeat(newCalls')
      /\ Elements(newCalls') = Elements(newCalls) \cup {c}
  BY <1>1, <1>5, AppendsOnce DEF TimerInvariant, TimerNew
<1>8. TimerNew'
  BY <1>1, <1>5, <1>7 DEF TimerInvariant, TimerNew
<1>9. TimerHeld'
  BY ONLY <1>1, <1>5, <1>7, TimerInvariant, Zenon DEF TimerInvariant, TimerHeld, Active
<1>10. TimerSleep'
  BY <1>1 DEF TimerSleep
<1> QED BY <1>3, <1>4, <1>6, <1>8, <1>9, <1>10 DEF TimerInvariant

\* A call that is made earlier goes up in the heap.
LEMMA TimerSooner ==
    ASSUME TimerInvariant, NEW c \in Calls, NEW t \in Int, t <= time[c],
           time' = [time EXCEPT ![c] = t], delayed' = [delayed EXCEPT ![c] = 0],
           heap' = MoveCallLaterSooner(heap, c, time'), pc' # "poll",
           UNCHANGED <<clock, made, cancelled, called, newCalls, now, deadline>>
    PROVE  TimerInvariant'
<1>1. TimerTypes'
  BY DEF TimerInvariant, TimerTypes
<1>2. TimerFlags'
  BY DEF TimerInvariant, TimerFlags
<1>3. /\ time \in [Calls -> Int] /\ time' \in [Calls -> Int] /\ time'[c] <= time[c]
      /\ \A d \in Calls : d # c => time'[d] = time[d]
  BY DEF TimerInvariant, TimerTypes
<1>4. HeapOf(Elements(heap), MoveCallLaterSooner(heap, c, time'), time')
  BY ONLY <1>3, TimerInvariant, SoonerKeepsHeap, c \in Calls DEF TimerInvariant, TimerHeap
<1>5. HeapOf(Elements(heap), heap', time')
  BY ONLY <1>4, heap' = MoveCallLaterSooner(heap, c, time'), Zenon
<1>6. Elements(heap') = Elements(heap)
  BY ONLY <1>5 DEF HeapOf
<1>7. TimerHeap'
  BY ONLY <1>5, <1>6, Zenon DEF TimerHeap
<1>8. TimerNew'
  BY <1>6 DEF TimerInvariant, TimerNew
<1>9. TimerHeld'
  BY ONLY <1>6, TimerInvariant, UNCHANGED <<made, cancelled, called, newCalls>>, Zenon
     DEF TimerInvariant, TimerHeld, Active
<1>10. TimerSleep'
  BY DEF TimerSleep
<1> QED BY <1>1, <1>2, <1>7, <1>8, <1>9, <1>10 DEF TimerInvariant

LEMMA TimerOperations ==
    ASSUME TimerInvariant, NEW c \in Calls,
           \/ Cancel(c)
           \/ \E s \in Seconds : ResetSooner(c, s) \/ ResetLater(c, s)
           \/ \E s \in Shifts : DelayLater(c, s) \/ DelaySooner(c, s)
    PROVE  TimerInvariant'
<1>0. /\ clock \in Nat /\ time \in [Calls -> Int] /\ delayed \in [Calls -> Nat]
      /\ time[c] \in Int /\ delayed[c] \in Nat
  BY DEF TimerInvariant, TimerTypes
<1>1. CASE Cancel(c)
  <2>1. /\ cancelled' = [cancelled EXCEPT ![c] = TRUE] /\ pc \in {"io", "callback"}
        /\ UNCHANGED <<clock, made, time, delayed, called, newCalls, heap, pc, now, deadline>>
    BY <1>1 DEF Cancel, Application
  <2>2. TimerTypes'
    BY <2>1 DEF TimerInvariant, TimerTypes
  <2>3. TimerFlags' /\ \A d \in Calls : cancelled[d] => cancelled'[d]
    BY ONLY <2>1, TimerInvariant, Zenon DEF TimerInvariant, TimerFlags
  <2> QED BY <2>1, <2>2, <2>3, TimerStays
<1>2. ASSUME NEW s \in Seconds, ResetSooner(c, s) PROVE TimerInvariant'
  <2>1. /\ clock + s < time[c] /\ time' = [time EXCEPT ![c] = clock + s] /\ pc' # "poll"
        /\ delayed' = [delayed EXCEPT ![c] = 0] /\ heap' = MoveCallLaterSooner(heap, c, time')
        /\ UNCHANGED <<clock, made, cancelled, called, newCalls, now, deadline>>
    BY <1>2 DEF ResetSooner, Application
  <2>2. PICK t \in Int : t = clock + s
    BY <1>0, TimedCallsAssumption DEF TimedCallsAssumption
  <2>3. t <= time[c] /\ time' = [time EXCEPT ![c] = t]
    BY ONLY <1>0, <2>1, <2>2
  <2> QED BY ONLY <2>1, <2>3, TimerInvariant, TimerSooner, c \in Calls, t \in Int
<1>3. ASSUME NEW s \in Shifts, DelaySooner(c, s) PROVE TimerInvariant'
  <2>1. /\ delayed[c] + s < 0 /\ time' = [time EXCEPT ![c] = time[c] + delayed[c] + s] /\ pc' # "poll"
        /\ delayed' = [delayed EXCEPT ![c] = 0] /\ heap' = MoveCallLaterSooner(heap, c, time')
        /\ UNCHANGED <<clock, made, cancelled, called, newCalls, now, deadline>>
    BY <1>3 DEF DelaySooner, Application
  <2>2. PICK t \in Int : t = time[c] + delayed[c] + s /\ t <= time[c]
    <3>1. s \in Int
      BY TimedCallsAssumption DEF TimedCallsAssumption
    <3>2. time[c] + delayed[c] + s \in Int /\ time[c] + delayed[c] + s <= time[c]
      BY ONLY <1>0, <2>1, <3>1
    <3> QED BY ONLY <3>2, Zenon
  <2>3. time' = [time EXCEPT ![c] = t]
    BY ONLY <2>1, <2>2
  <2> QED BY ONLY <2>1, <2>2, <2>3, TimerInvariant, TimerSooner, c \in Calls, t \in Int
<1>4. ASSUME NEW d \in Nat, delayed' = [delayed EXCEPT ![c] = d], pc' # "poll",
             UNCHANGED <<clock, called, now, deadline, made, time, cancelled, newCalls, heap>>
      PROVE  TimerInvariant'
  <2>1. TimerTypes'
    BY <1>4 DEF TimerInvariant, TimerTypes
  <2>2. TimerFlags' /\ \A x \in Calls : cancelled[x] => cancelled'[x]
    BY ONLY <1>4, TimerInvariant, Zenon DEF TimerInvariant, TimerFlags
  <2> QED BY <1>4, <2>1, <2>2, TimerStays
<1>5. ASSUME NEW s \in Seconds, ResetLater(c, s) PROVE TimerInvariant'
  <2>1. /\ clock + s >= time[c] /\ delayed' = [delayed EXCEPT ![c] = clock + s - time[c]]
        /\ pc' # "poll"
        /\ UNCHANGED <<clock, called, now, deadline, made, time, cancelled, newCalls, heap>>
    BY <1>5 DEF ResetLater, Application
  <2>2. clock + s - time[c] \in Nat
    BY <1>0, <2>1, TimedCallsAssumption DEF TimedCallsAssumption
  <2> QED BY ONLY <1>4, <2>1, <2>2
<1>6. ASSUME NEW s \in Shifts, DelayLater(c, s) PROVE TimerInvariant'
  <2>1. /\ delayed[c] + s >= 0 /\ delayed' = [delayed EXCEPT ![c] = delayed[c] + s] /\ pc' # "poll"
        /\ UNCHANGED <<clock, called, now, deadline, made, time, cancelled, newCalls, heap>>
    BY <1>6 DEF DelayLater, Application
  <2>2. delayed[c] + s \in Nat
    BY <1>0, <2>1, TimedCallsAssumption DEF TimedCallsAssumption
  <2> QED BY ONLY <1>4, <2>1, <2>2
<1> QED BY <1>1, <1>2, <1>3, <1>5, <1>6

LEMMA TimerInserts == ASSUME TimerInvariant, DropCancelled \/ InsertNew PROVE TimerInvariant'
<1> DEFINE c == Head(newCalls)
<1>1. newCalls # <<>> /\ newCalls' = Tail(newCalls) /\ pc' # "poll"
      /\ UNCHANGED <<clock, made, cancelled, called, now, deadline>>
  BY DEF DropCancelled, InsertNew, Inserting
<1>2. newCalls \in Seq(Calls) /\ NoRepeat(newCalls)
  BY DEF TimerInvariant, TimerNew
<1>3. /\ newCalls' \in Seq(Calls) /\ c \in Calls /\ c \in Elements(newCalls)
      /\ Elements(newCalls') = Elements(newCalls) \ {c} /\ NoRepeat(newCalls')
  BY ONLY <1>1, <1>2, TailTakesOne
<1>4. c \notin Elements(heap) /\ c \in made /\ ~called[c]
  BY ONLY <1>3, TimerInvariant, Zenon DEF TimerInvariant, TimerNew, TimerHeld
<1> HIDE DEF c
<1>5. TimerFlags'
  BY <1>1 DEF TimerInvariant, TimerFlags
<1>6. TimerSleep'
  BY <1>1 DEF TimerSleep
<1>7. CASE DropCancelled
  <2>1. cancelled[c] /\ UNCHANGED <<time, delayed, heap>>
    BY <1>7 DEF DropCancelled, c
  <2>2. TimerTypes'
    BY <1>1, <2>1 DEF TimerInvariant, TimerTypes
  <2>3. TimerHeap'
    BY <2>1 DEF TimerInvariant, TimerHeap
  <2>4. TimerNew'
    BY <1>3, <2>1 DEF TimerInvariant, TimerNew
  <2>5. TimerHeld'
    BY ONLY <1>1, <1>3, <2>1, TimerInvariant, Zenon DEF TimerInvariant, TimerHeld, Active
  <2> QED BY <1>5, <1>6, <2>2, <2>3, <2>4, <2>5 DEF TimerInvariant
<1>8. CASE InsertNew
  <2>1. /\ time' = [time EXCEPT ![c] = time[c] + delayed[c]] /\ delayed' = [delayed EXCEPT ![c] = 0]
        /\ heap' = Push(heap, c, time')
    BY <1>8 DEF InsertNew, ActivateDelay, c
  <2>2. TimerTypes'
    BY <1>1, <1>3, <2>1 DEF TimerInvariant, TimerTypes
  <2>3. HeapOf(Elements(heap), heap, time')
    <3>1. heap \in Seq(Calls) /\ NoRepeat(heap) /\ Ordered(heap, time)
      BY DEF TimerInvariant, TimerHeap, HeapOf
    <3>2. \A d \in Calls : d # c => time'[d] = time[d]
      BY <2>1 DEF TimerInvariant, TimerTypes
    <3>3. Ordered(heap, time')
      BY ONLY <1>4, <3>1, <3>2, OrderedElsewhere
    <3> QED BY <3>1, <3>3 DEF HeapOf
  <2>4. HeapOf(Elements(heap) \cup {c}, heap', time')
    <3>1. time' \in [Calls -> Int]
      BY <2>2 DEF TimerTypes
    <3>2. HeapOf(Elements(heap) \cup {c}, Push(heap, c, time'), time')
      BY ONLY <1>3, <1>4, <2>3, <3>1, PushKeepsHeap
    <3> QED BY ONLY <2>1, <3>2, Zenon
  <2>5. Elements(heap') = Elements(heap) \cup {c}
    BY ONLY <2>4 DEF HeapOf
  <2>6. TimerHeap'
    BY ONLY <2>4, <2>5, Zenon DEF TimerHeap
  <2>7. TimerNew'
    BY <1>3, <2>5 DEF TimerInvariant, TimerNew
  <2>8. TimerHeld'
    BY ONLY <1>1, <1>3, <1>4, <2>5, TimerInvariant, Zenon DEF TimerInvariant, TimerHeld, Active
  <2> QED BY <1>5, <1>6, <2>2, <2>6, <2>7, <2>8 DEF TimerInvariant
<1> QED BY <1>7, <1>8

\* A call at the top of the heap that was put off goes down in it.
LEMMA TimerPopDelayed == ASSUME TimerInvariant, PopDelayed PROVE TimerInvariant'
<1>1. /\ heap # <<>> /\ pc' # "poll" /\ ActivateDelay(heap[1])
      /\ \E h \in Heaps(Elements(heap) \ {heap[1]}, time) : heap' = Push(h, heap[1], time')
      /\ UNCHANGED <<clock, made, cancelled, newCalls, deadline, called, now>>
  BY DEF PopDelayed, Due, Still
<1>2. PICK c \in Calls : c = heap[1]
  BY <1>1, TopOfHeap
<1>3. /\ c \in Elements(heap) /\ c \in made /\ ~called[c] /\ c \notin Elements(newCalls)
  BY <1>1, <1>2, TopOfHeap
<1>4. /\ time' = [time EXCEPT ![c] = time[c] + delayed[c]] /\ delayed' = [delayed EXCEPT ![c] = 0]
  BY <1>1, <1>2 DEF ActivateDelay
<1>5. PICK h \in Heaps(Elements(heap) \ {c}, time) : heap' = Push(h, c, time')
  BY ONLY <1>1, <1>2, Zenon
<1>6. HeapOf(Elements(heap) \ {c}, h, time)
  BY RestOfHeap
<1>7. TimerTypes'
  BY <1>1, <1>4 DEF TimerInvariant, TimerTypes
<1>8. HeapOf(Elements(heap) \ {c}, h, time')
  <2>1. h \in Seq(Calls) /\ NoRepeat(h) /\ Ordered(h, time) /\ c \notin Elements(h)
    BY ONLY <1>6 DEF HeapOf
  <2>2. \A d \in Calls : d # c => time'[d] = time[d]
    BY <1>4 DEF TimerInvariant, TimerTypes
  <2>3. Ordered(h, time')
    BY ONLY <2>1, <2>2, OrderedElsewhere
  <2> QED BY ONLY <1>6, <2>3, Zenon DEF HeapOf
<1>9. HeapOf(Elements(heap), heap', time')
  <2>1. time' \in [Calls -> Int]
    BY <1>7 DEF TimerTypes
  <2>2. HeapOf((Elements(heap) \ {c}) \cup {c}, Push(h, c, time'), time')
    BY ONLY <1>8, <2>1, PushKeepsHeap, c \in Calls
  <2>3. (Elements(heap) \ {c}) \cup {c} = Elements(heap)
    BY ONLY <1>3
  <2> QED BY ONLY <1>5, <2>2, <2>3, Zenon
<1>10. Elements(heap') = Elements(heap)
  BY ONLY <1>9 DEF HeapOf
<1>11. TimerHeap'
  BY ONLY <1>9, <1>10, Zenon DEF TimerHeap
<1>12. TimerNew'
  BY <1>1, <1>10 DEF TimerInvariant, TimerNew
<1>13. TimerHeld'
  BY ONLY <1>1, <1>10, TimerInvariant, Zenon DEF TimerInvariant, TimerHeld, Active
<1>14. TimerFlags'
  BY <1>1 DEF TimerInvariant, TimerFlags
<1>15. TimerSleep'
  BY <1>1 DEF TimerSleep
<1> QED BY <1>7, <1>11, <1>12, <1>13, <1>14, <1>15 DEF TimerInvariant

\* Taking calls out of the heap that are not to be made any more.
LEMMA TimerPops ==
    ASSUME TimerInvariant, PopCancelled \/ PopAndCall \/ Compact
    PROVE  TimerInvariant'
<1>1. /\ pc' # "poll" /\ UNCHANGED <<clock, made, cancelled, newCalls, deadline, time, delayed, now>>
  BY DEF PopCancelled, PopAndCall, Compact, Still, Goto
<1>2. \E S \in SUBSET Elements(heap) :
         /\ heap' \in Heaps(S, time)
         /\ \A c \in Elements(heap) \ S : cancelled[c] \/ called'[c]
         /\ \A c \in Calls : called'[c] => called[c] \/ c \in Elements(heap) \ S
         /\ \A c \in Calls : called[c] => called'[c]
         /\ TimerFlags'
  <2>1. CASE PopCancelled
    <3>1. /\ heap # <<>> /\ cancelled[heap[1]] /\ called' = called
          /\ heap' \in Heaps(Elements(heap) \ {heap[1]}, time)
      BY <2>1 DEF PopCancelled, Due, Pop
    <3>2. TimerFlags'
      BY <1>1, <3>1 DEF TimerInvariant, TimerFlags
    <3> WITNESS Elements(heap) \ {heap[1]} \in SUBSET Elements(heap)
    <3> QED BY ONLY <3>1, <3>2, Zenon
  <2>2. CASE PopAndCall
    <3>1. /\ heap # <<>> /\ called' = [called EXCEPT ![heap[1]] = TRUE]
          /\ heap' \in Heaps(Elements(heap) \ {heap[1]}, time)
      BY <2>2 DEF PopAndCall, Due, Pop
    <3>2. PICK c \in Calls : c = heap[1] /\ c \in Elements(heap)
      BY <3>1, TopOfHeap
    <3>3. called' = [called EXCEPT ![c] = TRUE] /\ heap' \in Heaps(Elements(heap) \ {c}, time)
      BY ONLY <3>1, <3>2, Zenon
    <3>4. called \in [Calls -> BOOLEAN] /\ cancelled \in [Calls -> BOOLEAN]
      BY DEF TimerInvariant, TimerFlags
    <3>5. /\ called' \in [Calls -> BOOLEAN] /\ called'[c]
          /\ \A d \in Calls : d # c => called'[d] = called[d]
      BY ONLY <3>3, <3>4, c \in Calls, Zenon
    <3>6. TimerFlags'
      BY ONLY <1>1, <3>4, <3>5, Zenon DEF TimerFlags
    <3> WITNESS Elements(heap) \ {c} \in SUBSET Elements(heap)
    <3> QED BY ONLY <3>2, <3>3, <3>5, <3>6, Zenon
  <2>3. CASE Compact
    <3>1. called' = called /\ heap' \in Heaps(Survivors, time)
      BY <2>3 DEF Compact
    <3>2. TimerFlags'
      BY <1>1, <3>1 DEF TimerInvariant, TimerFlags
    <3>3. Survivors \in SUBSET Elements(heap) /\ \A c \in Elements(heap) \ Survivors : cancelled[c]
      BY DEF Survivors
    <3>4. Survivors \in SUBSET Elements(heap)
      BY ONLY <3>3
    <3> QED BY ONLY <3>1, <3>2, <3>3, <3>4, Zenon
  <2> QED BY <2>1, <2>2, <2>3
<1>3. PICK S \in SUBSET Elements(heap) :
         /\ heap' \in Heaps(S, time)
         /\ \A c \in Elements(heap) \ S : cancelled[c] \/ called'[c]
         /\ \A c \in Calls : called'[c] => called[c] \/ c \in Elements(heap) \ S
         /\ \A c \in Calls : called[c] => called'[c]
         /\ TimerFlags'
  BY <1>2
<1>4. HeapOf(S, heap', time')
  BY <1>1, <1>3, RestOfHeap
<1>5. Elements(heap') = S
  BY ONLY <1>4 DEF HeapOf
<1>6. TimerTypes'
  BY <1>1 DEF TimerInvariant, TimerTypes
<1>7. TimerHeap'
  BY ONLY <1>4, <1>5, Zenon DEF TimerHeap
<1>8. TimerNew'
  BY <1>1, <1>5 DEF TimerInvariant, TimerNew
<1>9. TimerHeld'
  <2> SUFFICES ASSUME NEW c \in Calls
               PROVE  /\ c \in S \cup Elements(newCalls) => c \in made /\ ~called'[c]
                      /\ (c \in made /\ ~cancelled[c] /\ ~called'[c]) => c \in S \cup Elements(newCalls)
                      /\ called'[c] => c \in made
    BY <1>1, <1>5 DEF TimerHeld, Active
  <2>1. /\ c \in Elements(heap) \cup Elements(newCalls) => c \in made /\ ~called[c]
        /\ (c \in made /\ ~cancelled[c] /\ ~called[c]) => c \in Elements(heap) \cup Elements(newCalls)
        /\ called[c] => c \in made
        /\ c \in Elements(newCalls) => c \notin Elements(heap)
    BY ONLY TimerInvariant, c \in Calls, Zenon DEF TimerInvariant, TimerHeld, TimerNew, Active
  <2> QED BY ONLY <1>3, <2>1, c \in Calls, S \in SUBSET Elements(heap), Zenon
<1>10. TimerSleep'
  BY <1>1 DEF TimerSleep
<1> QED BY <1>3, <1>6, <1>7, <1>8, <1>9, <1>10 DEF TimerInvariant

\* timeout(): the deadline is the time of the top of the heap, or earlier.
LEMMA TimerTimeout == ASSUME TimerInvariant, Timeout PROVE TimerInvariant'
<1>1. /\ newCalls = <<>> /\ pc' = "poll"
      /\ deadline' = IF heap = <<>> THEN -1 ELSE clock + Clip(time[heap[1]] - clock)
      /\ UNCHANGED <<clock, made, time, delayed, cancelled, called, newCalls, heap, now>>
  BY DEF Timeout, NewCallsInserted, Earliest, Goto
<1>2. CASE heap = <<>>
  <2>1. deadline' = -1
    BY <1>1, <1>2
  <2>2. TimerTypes'
    BY <1>1, <2>1 DEF TimerInvariant, TimerTypes
  <2>3. TimerSleep'
    BY <1>1, <1>2 DEF TimerSleep
  <2>4. TimerFlags' /\ TimerHeap' /\ TimerNew'
    BY <1>1 DEF TimerInvariant, TimerFlags, TimerHeap, TimerNew
  <2>5. TimerHeld'
    BY <1>1 DEF TimerInvariant, TimerHeld, Active
  <2> QED BY <2>2, <2>3, <2>4, <2>5 DEF TimerInvariant
<1>3. CASE heap # <<>>
  <2>1. PICK t \in Int : t = time[heap[1]]
    BY <1>3, TopOfHeap DEF TimerInvariant, TimerTypes
  <2>2. clock \in Nat /\ Longest \in Nat /\ Longest > 0
    BY TimedCallsAssumption DEF TimedCallsAssumption, TimerInvariant, TimerTypes
  <2>3. deadline' = clock + Clip(t - clock)
    BY <1>1, <1>3, <2>1
  <2>4. deadline' \in Nat /\ (deadline' <= clock \/ deadline' <= t)
    BY ONLY <2>2, <2>3, t \in Int DEF Clip
  <2>5. TimerTypes'
    BY <1>1, <2>4 DEF TimerInvariant, TimerTypes
  <2>6. TimerSleep'
    BY <1>1, <2>1, <2>4 DEF TimerSleep
  <2>7. TimerFlags' /\ TimerHeap' /\ TimerNew'
    BY <1>1 DEF TimerInvariant, TimerFlags, TimerHeap, TimerNew
  <2>8. TimerHeld'
    BY <1>1 DEF TimerInvariant, TimerHeld, Active
  <2> QED BY <2>5, <2>6, <2>7, <2>8 DEF TimerInvariant
<1> QED BY <1>2, <1>3

LEMMA TimerStep == TimerInvariant /\ [Next]_vars => TimerInvariant'
<1> SUFFICES ASSUME TimerInvariant, [Next]_vars PROVE TimerInvariant'
  OBVIOUS
<1>1. CASE \E c \in Calls :
               \/ Cancel(c)
               \/ \E s \in Seconds : CallLater(c, s) \/ ResetSooner(c, s) \/ ResetLater(c, s)
               \/ \E s \in Shifts : DelayLater(c, s) \/ DelaySooner(c, s)
  BY <1>1, TimerCallLater, TimerOperations
<1>2. CASE DropCancelled \/ InsertNew
  BY <1>2, TimerInserts
<1>3. CASE PopDelayed
  BY <1>3, TimerPopDelayed
<1>4. CASE PopCancelled \/ PopAndCall \/ Compact
  BY <1>4, TimerPops
<1>5. CASE Timeout
  BY <1>5, TimerTimeout
<1>6. CASE RunUntilCurrent \/ ReadClock \/ CallReturns \/ LoopEnds \/ PollTimesOut \/ PollHasEvent
  <2>1. /\ pc' # "poll" /\ now' \in {now, clock}
        /\ UNCHANGED <<clock, made, time, delayed, cancelled, called, newCalls, heap, deadline>>
    BY <1>6 DEF RunUntilCurrent, ReadClock, CallReturns, LoopEnds, PollTimesOut, PollHasEvent,
                Still, Goto
  <2>2. TimerTypes'
    BY <2>1 DEF TimerInvariant, TimerTypes
  <2>3. TimerFlags' /\ \A c \in Calls : cancelled[c] => cancelled'[c]
    BY <2>1 DEF TimerInvariant, TimerFlags
  <2> QED BY <2>1, <2>2, <2>3, TimerStays
<1>7. ASSUME clock' \in {clock, clock + 1},
             UNCHANGED <<made, time, delayed, cancelled, called, newCalls, heap, pc, now, deadline>>
      PROVE  TimerInvariant'
  <2>1. TimerTypes'
    BY <1>7 DEF TimerInvariant, TimerTypes
  <2>2. TimerFlags' /\ TimerHeap' /\ TimerNew'
    BY <1>7 DEF TimerInvariant, TimerFlags, TimerHeap, TimerNew
  <2>3. TimerHeld'
    BY <1>7 DEF TimerInvariant, TimerHeld, Active
  <2>4. clock \in Nat /\ deadline \in Int
    BY DEF TimerInvariant, TimerTypes
  <2>5. deadline <= clock => deadline' <= clock'
    BY <1>7, <2>4
  <2>6. TimerSleep'
    BY <1>7, <2>5 DEF TimerInvariant, TimerSleep
  <2> QED BY <2>1, <2>2, <2>3, <2>6 DEF TimerInvariant
<1>8. CASE Tick
  BY <1>7, <1>8 DEF Tick
<1>9. CASE UNCHANGED vars
  BY <1>7, <1>9 DEF vars
<1>10. CASE Reactor
  BY ONLY <1>2, <1>3, <1>4, <1>5, <1>6, <1>10 DEF Reactor
<1>11. CASE Next
  BY ONLY <1>1, <1>6, <1>8, <1>10, <1>11, Zenon DEF Next
<1> QED BY <1>9, <1>11

\* A call is in the sequence at one place at most, and at one if it is an element.
LEMMA OnePlace ==
    ASSUME NEW A, NEW s \in Seq(A), NoRepeat(s), NEW c
    PROVE  /\ c \in Elements(s) => \E p \in 1..Len(s) : {i \in DOMAIN s : s[i] = c} = {p}
           /\ c \notin Elements(s) => {i \in DOMAIN s : s[i] = c} = {}
<1>1. DOMAIN s = 1..Len(s)
  OBVIOUS
<1>2. ASSUME c \in Elements(s) PROVE \E p \in 1..Len(s) : {i \in DOMAIN s : s[i] = c} = {p}
  <2>1. PICK p \in 1..Len(s) : s[p] = c
    BY <1>1, <1>2 DEF Elements
  <2>2. {i \in DOMAIN s : s[i] = c} = {p}
    BY <1>1, <2>1 DEF NoRepeat
  <2> QED BY <2>2
<1>3. ASSUME c \notin Elements(s) PROVE {i \in DOMAIN s : s[i] = c} = {}
  BY <1>3 DEF Elements
<1> QED BY <1>2, <1>3

LEMMA TimerPlacesCount ==
    ASSUME TimerInvariant, NEW c \in Calls
    PROVE  /\ c \in Elements(heap) \cup Elements(newCalls) => Cardinality(Places(c)) = 1
           /\ c \notin Elements(heap) \cup Elements(newCalls) =>
                 Places(c) = {} /\ Cardinality(Places(c)) = 0
<1> DEFINE P == {i \in DOMAIN heap : heap[i] = c}
           Q == {j \in DOMAIN newCalls : newCalls[j] = c}
<1>1. heap \in Seq(Calls) /\ NoRepeat(heap) /\ newCalls \in Seq(Calls) /\ NoRepeat(newCalls)
  BY DEF TimerInvariant, TimerHeap, TimerNew, HeapOf
<1>2. /\ c \in Elements(heap) => \E p : P = {p}
      /\ c \notin Elements(heap) => P = {}
  <2>1. /\ c \in Elements(heap) => \E p \in 1..Len(heap) : P = {p}
        /\ c \notin Elements(heap) => P = {}
    BY <1>1, OnePlace
  <2> QED BY ONLY <2>1, Zenon
<1>3. /\ c \in Elements(newCalls) => \E p : Q = {p}
      /\ c \notin Elements(newCalls) => Q = {}
  <2>1. /\ c \in Elements(newCalls) => \E p \in 1..Len(newCalls) : Q = {p}
        /\ c \notin Elements(newCalls) => Q = {}
    BY <1>1, OnePlace
  <2> QED BY ONLY <2>1, Zenon
<1>4. Places(c) = P \cup {Len(heap) + i : i \in Q}
  BY DEF Places
<1> HIDE DEF P, Q
<1>5. c \in Elements(newCalls) => c \notin Elements(heap)
  BY DEF TimerInvariant, TimerNew
<1>6. ASSUME c \in Elements(heap) \cup Elements(newCalls) PROVE \E p : Places(c) = {p}
  <2>1. CASE c \in Elements(heap)
    <3>1. Q = {} /\ \E p : P = {p}
      BY ONLY <1>2, <1>3, <1>5, <2>1
    <3> QED BY ONLY <1>4, <3>1
  <2>2. CASE c \in Elements(newCalls)
    <3>1. P = {}
      BY ONLY <1>2, <1>5, <2>2
    <3>2. PICK q : Q = {q}
      BY ONLY <1>3, <2>2
    <3>3. Places(c) = {Len(heap) + q}
      BY ONLY <1>4, <3>1, <3>2
    <3> QED BY ONLY <3>3
  <2> QED BY <1>6, <2>1, <2>2
<1>7. ASSUME c \notin Elements(heap) \cup Elements(newCalls) PROVE Places(c) = {}
  BY ONLY <1>2, <1>3, <1>4, <1>7
<1> QED BY <1>6, <1>7, FS_Singleton, FS_EmptySet

(***************************************************************************)
(* Whatever the application schedules, cancels, resets and delays, in an   *)
(* event handler or inside a timed call, the reactor's calls stay a heap,  *)
(* none is lost or doubled, and the poll never sleeps past one of them.    *)
(***************************************************************************)
THEOREM TimersAreAlwaysSound == Spec => []TimersAreSound
<1>1. Spec => []TimerInvariant
  BY TimerInit, TimerStep, PTL DEF Spec
<1>2. TimerInvariant => TimersAreSound
  <2> SUFFICES ASSUME TimerInvariant PROVE TimersAreSound
    OBVIOUS
  <2>1. HeapOrdered
    BY DEF HeapOrdered, TimerInvariant, TimerHeap, HeapOf
  <2>2. NothingLost
    <3> SUFFICES ASSUME NEW c \in Calls
                 PROVE  /\ Active(c) => Cardinality(Places(c)) = 1
                        /\ called[c] => Places(c) = {}
                        /\ cancelled[c] => Cardinality(Places(c)) <= 1
      BY DEF NothingLost
    <3>1. /\ Active(c) => c \in Elements(heap) \cup Elements(newCalls)
          /\ called[c] => c \notin Elements(heap) \cup Elements(newCalls)
      BY ONLY TimerInvariant, c \in Calls, Zenon DEF TimerInvariant, TimerHeld
    <3>2. Cardinality(Places(c)) = 1 \/ (Places(c) = {} /\ Cardinality(Places(c)) = 0)
      BY TimerPlacesCount
    <3>3. Cardinality(Places(c)) <= 1
      BY ONLY <3>2
    <3>4. /\ Active(c) => Cardinality(Places(c)) = 1
          /\ called[c] => Places(c) = {}
      BY ONLY <3>1, TimerPlacesCount, TimerInvariant, c \in Calls, Zenon
    <3> QED BY ONLY <3>3, <3>4
  <2>3. NoOversleep
    <3> SUFFICES ASSUME pc = "poll", NEW c \in Calls, Active(c)
                 PROVE  deadline # -1 /\ (deadline <= clock \/ deadline <= GetTime(c))
      BY DEF NoOversleep
    <3>1. newCalls = <<>>
      BY DEF TimerInvariant, TimerSleep
    <3>2. c \in Elements(heap)
      BY <3>1, NoElements DEF TimerInvariant, TimerHeld
    <3>3. heap # <<>>
      BY <3>2, NoElements
    <3>4. deadline # -1 /\ (deadline <= clock \/ deadline <= time[heap[1]])
      BY <3>3 DEF TimerInvariant, TimerSleep
    <3>5. time[heap[1]] <= time[c] /\ heap[1] \in Calls
      BY <3>2, <3>3, TopOfHeap
    <3>6. /\ time[heap[1]] \in Int /\ time[c] \in Int /\ delayed[c] \in Nat
          /\ deadline \in Int /\ clock \in Int
      BY <3>5 DEF TimerInvariant, TimerTypes
    <3> QED BY ONLY <3>4, <3>5, <3>6 DEF GetTime
  <2> QED BY <2>1, <2>2, <2>3 DEF TimersAreSound
<1> QED BY <1>1, <1>2, PTL

(***************************************************************************)
(* runUntilCurrent makes a call only when it is due by the clock, never    *)
(* one that was cancelled or put off, and none before an earlier one that  *)
(* the heap has.                                                           *)
(***************************************************************************)
THEOREM CallsAreOnTime == Spec => CallsOnTime
<1> DEFINE OnTime == \A c \in Calls : called'[c] /\ ~called[c] =>
                        /\ Active(c) /\ GetTime(c) <= clock
                        /\ \A d \in Elements(heap) : Active(d) => GetTime(c) <= GetTime(d)
<1>1. Spec => []TimerInvariant
  BY TimerInit, TimerStep, PTL DEF Spec
<1>2. TimerInvariant /\ [Next]_vars => [OnTime]_vars
  <2> SUFFICES ASSUME TimerInvariant, Next, NEW c \in Calls, called'[c], ~called[c]
               PROVE  /\ Active(c) /\ GetTime(c) <= clock
                      /\ \A d \in Elements(heap) : Active(d) => GetTime(c) <= GetTime(d)
    OBVIOUS
  <2>1. PopAndCall
    <3>1. called' # called
      OBVIOUS
    <3> QED BY <3>1 DEF Next, Reactor, DropCancelled, InsertNew, RunUntilCurrent, ReadClock,
               PopCancelled, PopDelayed, CallReturns, Compact, LoopEnds, Timeout, PollTimesOut,
               PollHasEvent, Tick, Cancel, CallLater, ResetSooner, ResetLater, DelayLater,
               DelaySooner, Application
  <2>2. /\ heap # <<>> /\ time[heap[1]] <= now /\ ~cancelled[heap[1]] /\ ~(delayed[heap[1]] > 0)
        /\ called' = [called EXCEPT ![heap[1]] = TRUE]
    BY <2>1 DEF PopAndCall, Due, PutOff
  <2>3. /\ heap[1] \in Calls /\ heap[1] \in made /\ ~called[heap[1]]
        /\ \A d \in Elements(heap) : d \in Calls /\ time[heap[1]] <= time[d]
    BY <2>2, TopOfHeap
  <2>4. c = heap[1]
    BY ONLY <2>2, <2>3, called'[c], ~called[c], c \in Calls, TimerInvariant
       DEF TimerInvariant, TimerFlags
  <2>5. Active(c)
    BY ONLY <2>2, <2>3, <2>4, Zenon DEF Active
  <2>6. /\ time[c] \in Int /\ delayed[c] \in Nat /\ clock \in Nat /\ now \in Nat /\ now <= clock
        /\ \A d \in Calls : time[d] \in Int /\ delayed[d] \in Nat
    BY DEF TimerInvariant, TimerTypes
  <2>7. delayed[c] = 0 /\ time[c] <= now
    BY ONLY <2>2, <2>4, <2>6
  <2>8. GetTime(c) <= clock
    BY ONLY <2>6, <2>7 DEF GetTime
  <2>9. ASSUME NEW d \in Elements(heap) PROVE GetTime(c) <= GetTime(d)
    <3>1. time[d] \in Int /\ delayed[d] \in Nat /\ time[c] <= time[d]
      BY ONLY <2>3, <2>4, <2>6, <2>9, Zenon
    <3> QED BY ONLY <2>6, <2>7, <3>1 DEF GetTime
  <2> QED BY <2>5, <2>8, <2>9
<1> QED BY <1>1, <1>2, PTL DEF Spec, CallsOnTime

-------------------------------------------------------------------------------
(***************************************************************************)
(* HTTPChannel.  What ServerIsSound says of the reactor is said here of    *)
(* every step of the parsing loop.  The list of requests holds those that  *)
(* are not over, in the order of their numbers, and headers and bodies are *)
(* those of its last one.  The transport pauses the channel only when its  *)
(* buffer is full, so that the channel waits for it only then.  As long as *)
(* no two requests are at hand at once the list has at most one request,   *)
(* the idle timeout runs between requests, and a call that will abort the  *)
(* connection is there only once the connection is being closed.           *)
(***************************************************************************)
SrvParts == {"first", "get", "post", "body"}

SrvFlags ==
    /\ netReading \in BOOLEAN /\ netFull \in BOOLEAN /\ netProducer \in BOOLEAN
    /\ lineMode \in BOOLEAN /\ busy \in BOOLEAN /\ firstLine \in BOOLEAN
    /\ handlingRequest \in BOOLEAN /\ persistent \in BOOLEAN /\ dropping \in BOOLEAN
    /\ waitingForTransport \in BOOLEAN /\ timeOut \in BOOLEAN /\ idleCall \in BOOLEAN
    /\ savedTimeOut \in BOOLEAN /\ abortingCall \in BOOLEAN /\ mixed \in BOOLEAN
    /\ doubled \in BOOLEAN

SrvTypes ==
    /\ SrvFlags
    /\ net \in {"open", "losing", "lost"}
    /\ inApp \in {"no", "line", "raw"}
    /\ lineBuffer \in Seq(SrvParts) /\ extra \in Seq(SrvParts) /\ dataBuffer \in Seq(SrvParts)
    /\ lastSent \in SrvParts
    /\ requests \in Seq(Server!Numbers)
    /\ status \in [Server!Numbers -> {"new", "received", "processed", "finished", "told"}]
    /\ queuedRequest \in [Server!Numbers -> BOOLEAN]
    /\ startedWriting \in [Server!Numbers -> BOOLEAN]
    /\ respProducer \in {"none", "push", "pull"}
    /\ pauses \in Nat /\ abortCalls \in Int

\* Requests are numbered as they are created.
SrvNumbering ==
    \E n \in 0..MaxParsed : \A r \in Server!Numbers : status[r] # "new" <=> r <= n

\* The list holds each request that is not over, once; those that came when
\* others were there are "queued".
SrvList ==
    /\ \A i \in 1..Len(requests) : status[requests[i]] # "new"
    /\ \A i, j \in 1..Len(requests) : requests[i] = requests[j] => i = j
    /\ \A i \in 2..Len(requests) : queuedRequest[requests[i]]
    /\ \A r \in Server!Numbers : status[r] \in {"received", "processed"} =>
          \E i \in 1..Len(requests) : requests[i] = r

\* Headers and bodies belong to the last request.
SrvLines ==
    /\ (~firstLine /\ net # "lost") =>
          requests # <<>> /\ status[requests[Len(requests)]] = "received"
    /\ (~lineMode /\ firstLine) => lineBuffer = <<>> /\ handlingRequest
    /\ (~busy /\ net = "open") => lineBuffer = <<>>

SrvTimes ==
    /\ idleCall => timeOut
    /\ net = "open" => idleCall \/ savedTimeOut

SrvReads == (net = "open" /\ ~netReading) => handlingRequest \/ waitingForTransport

SrvPress ==
    /\ (waitingForTransport /\ netProducer) => netFull
    /\ (pauses > 0 /\ netProducer /\ ~doubled) => waitingForTransport /\ pauses = 1

SrvLost ==
    net = "lost" =>
        /\ ~busy /\ ~netProducer /\ ~idleCall /\ ~abortingCall
        /\ \A r \in Server!Numbers : status[r] \notin {"received", "processed"}

\* As long as no request is left in the parser behind another one.
SrvTurn ==
    ~mixed =>
        /\ handlingRequest => lineBuffer = <<>>
        /\ extra # <<>> => handlingRequest
        /\ ~handlingRequest => dataBuffer = <<>>
        /\ Len(requests) <= 1
        /\ \A i \in 1..Len(requests) : ~queuedRequest[requests[i]]
        /\ (~handlingRequest /\ firstLine) => requests = <<>>
        /\ \A r \in Server!Numbers : Server!Handled(r) => handlingRequest /\ ~idleCall
        /\ (handlingRequest /\ net = "open") => requests # <<>> /\ Server!Handled(requests[1])
        /\ (~handlingRequest /\ net = "open") => idleCall
        /\ abortCalls = IF abortingCall THEN 1 ELSE 0
        /\ abortingCall =>
              net # "open" /\ ~busy /\ ~idleCall /\ \A r \in Server!Numbers : ~Server!Handled(r)

SrvState == SrvNumbering /\ SrvList /\ SrvLines
SrvRest == SrvTimes /\ SrvReads /\ SrvPress /\ SrvLost /\ SrvTurn
SrvInvariant == SrvTypes /\ SrvState /\ SrvRest

LEMMA SrvInit == Server!Init => SrvInvariant
<1> SUFFICES ASSUME Server!Init PROVE SrvInvariant
  OBVIOUS
<1> USE ServerAssumption DEF Server!HTTPServerAssumption, Server!Init
<1>1. SrvTypes
  <2>1. SrvFlags
    BY DEF SrvFlags
  <2>2. <<>> \in Seq(SrvParts) /\ <<>> \in Seq(Server!Numbers)
    OBVIOUS
  <2>3. lastSent \in SrvParts
    BY DEF SrvParts
  <2> QED BY <2>1, <2>2, <2>3 DEF SrvTypes
<1>2. SrvState
  <2>1. SrvNumbering
    BY DEF SrvNumbering, Server!Numbers
  <2> QED BY <2>1 DEF SrvState, SrvList, SrvLines
<1>3. SrvRest
  BY DEF SrvRest, SrvTimes, SrvReads, SrvPress, SrvLost, SrvTurn, Server!Handled
<1> QED BY <1>1, <1>2, <1>3 DEF SrvInvariant

-------------------------------------------------------------------------------
LEMMA SrvCardinality == ASSUME NEW S PROVE Server!Cardinality(S) = Cardinality(S)
BY DEF Server!Cardinality, Cardinality

\* The next number.
LEMMA SrvCreated ==
    ASSUME SrvTypes, SrvNumbering
    PROVE  /\ Server!Created \in 0..MaxParsed
           /\ \A r \in Server!Numbers : status[r] # "new" <=> r <= Server!Created
<1>1. PICK n \in 0..MaxParsed : \A r \in Server!Numbers : status[r] # "new" <=> r <= n
  BY DEF SrvNumbering
<1>2. {r \in Server!Numbers : status[r] # "new"} = 1..n
  BY <1>1, ServerAssumption DEF Server!Numbers, Server!HTTPServerAssumption
<1>3. Cardinality(1..n) = n
  <2>1. 1 \in Int /\ n \in Int /\ (IF 1 > n THEN 0 ELSE n - 1 + 1) = n
    BY <1>1, ServerAssumption DEF Server!HTTPServerAssumption
  <2> QED BY <2>1, FS_Interval
<1>4. Server!Created = n
  BY <1>2, <1>3, SrvCardinality DEF Server!Created
<1> QED BY <1>1, <1>4

LEMMA SrvAppend ==
    ASSUME NEW A, NEW s \in Seq(A), NEW e \in A
    PROVE  /\ Append(s, e) \in Seq(A) /\ Len(Append(s, e)) = Len(s) + 1
           /\ \A i \in 1..Len(s) : Append(s, e)[i] = s[i]
           /\ Append(s, e)[Len(s) + 1] = e
OBVIOUS

LEMMA SrvTail ==
    ASSUME NEW A, NEW s \in Seq(A), s # <<>>
    PROVE  /\ Tail(s) \in Seq(A) /\ Len(Tail(s)) = Len(s) - 1
           /\ \A i \in 1..(Len(s) - 1) : Tail(s)[i] = s[i + 1]
OBVIOUS

\* A Request is created: it is the last of the list.
LEMMA SrvNew ==
    ASSUME SrvTypes, SrvState, Server!NewRequest
    PROVE  /\ requests' \in Seq(Server!Numbers) /\ requests' # <<>> /\ Len(requests') = Len(requests) + 1
           /\ status' \in [Server!Numbers -> {"new", "received", "processed", "finished", "told"}]
           /\ queuedRequest' \in [Server!Numbers -> BOOLEAN]
           /\ status'[requests'[Len(requests')]] = "received"
           /\ \A r \in Server!Numbers : status'[r] = "processed" <=> status[r] = "processed"
           /\ requests = <<>> => ~queuedRequest'[requests'[1]]
           /\ SrvNumbering' /\ SrvList'
<1>1. PICK n : n = Server!Created + 1
  OBVIOUS
<1>2. /\ n \in Server!Numbers /\ requests' = Append(requests, n)
      /\ status' = [status EXCEPT ![n] = "received"]
      /\ queuedRequest' = [queuedRequest EXCEPT ![n] = requests # <<>>]
  BY <1>1 DEF Server!NewRequest
<1>3. /\ n - 1 \in 0..MaxParsed /\ n \in 1..MaxParsed /\ status[n] = "new"
      /\ \A r \in Server!Numbers : status[r] # "new" <=> r <= n - 1
  BY <1>1, <1>2, SrvCreated, ServerAssumption
     DEF SrvState, Server!Numbers, Server!HTTPServerAssumption
<1>4. /\ requests' \in Seq(Server!Numbers) /\ Len(requests') = Len(requests) + 1
      /\ \A i \in 1..Len(requests) : requests'[i] = requests[i]
      /\ requests'[Len(requests) + 1] = n
  BY <1>2, SrvAppend DEF SrvTypes
<1>5. Len(requests) \in Nat /\ \A i \in 1..Len(requests) : requests[i] \in Server!Numbers
  BY DEF SrvTypes
<1>6. PICK q \in BOOLEAN : q = (requests # <<>>) /\ (q <=> requests # <<>>)
  OBVIOUS
<1>7. queuedRequest' = [queuedRequest EXCEPT ![n] = q]
  BY <1>2, <1>6
<1>8. SrvNumbering'
  <2>1. \A r \in Server!Numbers : status'[r] # "new" <=> r <= n
    BY <1>2, <1>3, ServerAssumption DEF SrvTypes, Server!Numbers, Server!HTTPServerAssumption
  <2>2. n \in 0..MaxParsed
    BY <1>3
  <2> QED BY <2>1, <2>2 DEF SrvNumbering
<1>9. SrvList'
  <2>0. \A i \in 1..Len(requests) : requests[i] # n
    BY <1>3 DEF SrvState, SrvList
  <2>1. \A i \in 1..Len(requests') : i \in 1..Len(requests) \/ i = Len(requests) + 1
    BY <1>4, <1>5
  <2>2. \A i \in 1..Len(requests') : status'[requests'[i]] # "new"
    BY <1>2, <1>4, <1>5, <2>0, <2>1 DEF SrvTypes, SrvState, SrvList
  <2>3. \A i, j \in 1..Len(requests') : requests'[i] = requests'[j] => i = j
    BY <1>4, <1>5, <2>0, <2>1 DEF SrvState, SrvList
  <2>4. \A i \in 2..Len(requests') : queuedRequest'[requests'[i]]
    <3> TAKE i \in 2..Len(requests')
    <3>1. CASE i \in 2..Len(requests)
      <4>1. i \in 1..Len(requests)
        BY <1>5, <3>1
      <4>2. requests'[i] = requests[i] /\ requests[i] \in Server!Numbers /\ requests[i] # n
        BY <1>4, <1>5, <2>0, <4>1
      <4>3. queuedRequest[requests[i]]
        BY <3>1 DEF SrvState, SrvList
      <4>4. queuedRequest'[requests[i]] = queuedRequest[requests[i]]
        BY <1>7, <4>2 DEF SrvTypes
      <4> QED BY <4>2, <4>3, <4>4
    <3>2. CASE i = Len(requests) + 1
      <4>1. requests # <<>>
        BY <1>5, <3>2 DEF SrvTypes
      <4> QED BY <1>3, <1>4, <1>6, <1>7, <3>2, <4>1 DEF SrvTypes, Server!Numbers
    <3> QED BY <1>4, <1>5, <3>1, <3>2
  <2>5. ASSUME NEW r \in Server!Numbers, status'[r] \in {"received", "processed"}
        PROVE  \E i \in 1..Len(requests') : requests'[i] = r
    <3>1. CASE r = n
      BY <1>4, <1>5, <3>1
    <3>2. CASE r # n
      <4>1. status[r] \in {"received", "processed"}
        BY <1>2, <2>5, <3>2 DEF SrvTypes
      <4>2. PICK i \in 1..Len(requests) : requests[i] = r
        BY <4>1 DEF SrvState, SrvList
      <4>3. i \in 1..Len(requests')
        BY <1>4, <1>5
      <4> QED BY <1>4, <4>2, <4>3
    <3> QED BY <3>1, <3>2
  <2> QED BY <2>2, <2>3, <2>4, <2>5 DEF SrvList
<1>10. requests' # <<>>
  BY <1>4, <1>5
<1>11. requests = <<>> => ~queuedRequest'[requests'[1]]
  BY <1>3, <1>4, <1>6, <1>7 DEF SrvTypes, Server!Numbers
<1>12. status'[requests'[Len(requests')]] = "received"
  BY <1>2, <1>4 DEF SrvTypes
<1>13. /\ status' \in [Server!Numbers -> {"new", "received", "processed", "finished", "told"}]
       /\ queuedRequest' \in [Server!Numbers -> BOOLEAN]
       /\ \A r \in Server!Numbers : status'[r] = "processed" <=> status[r] = "processed"
  BY <1>2, <1>3, <1>6, <1>7 DEF SrvTypes
<1> QED BY <1>4, <1>8, <1>9, <1>10, <1>11, <1>12, <1>13

-------------------------------------------------------------------------------
\* Writing to the transport pauses the channel and its producer.
LEMMA SrvPaused ==
    ASSUME SrvTypes, SrvPress, NEW n \in Nat, NEW k \in Server!Overfull(n),
           Server!PauseProducing(n, k)
    PROVE  /\ netFull' \in BOOLEAN /\ waitingForTransport' \in BOOLEAN /\ doubled' \in BOOLEAN
           /\ Server!PausesAfter(k) \in Nat
           /\ waitingForTransport => waitingForTransport'
           /\ (waitingForTransport' /\ netProducer) => netFull'
           /\ (Server!PausesAfter(k) > 0 /\ netProducer /\ ~doubled') =>
                 waitingForTransport' /\ Server!PausesAfter(k) = 1
<1>1. k \in Nat /\ (k = 0 \/ n > 0)
  BY DEF Server!Overfull
<1>2. PICK p : p = Server!PausesAfter(k)
  OBVIOUS
<1>3. /\ ~Server!Pausing(k) => p = pauses
      /\ Server!Pausing(k) => \/ respProducer = "none" /\ p = 0
                              \/ respProducer = "push" /\ p = 1
                              \/ respProducer = "pull" /\ p = pauses + k
  <2>1. ~Server!Pausing(k) => p = pauses
    BY <1>2 DEF Server!PausesAfter, Server!Pausing
  <2>2. (Server!Pausing(k) /\ respProducer = "none") => p = 0
    BY <1>2 DEF Server!PausesAfter, Server!Pausing
  <2>3. (Server!Pausing(k) /\ respProducer = "push") => p = 1
    BY <1>2 DEF Server!PausesAfter, Server!Pausing
  <2>4. (Server!Pausing(k) /\ respProducer = "pull") => p = pauses + k
    BY <1>2 DEF Server!PausesAfter, Server!Pausing
  <2> QED BY <2>1, <2>2, <2>3, <2>4 DEF SrvTypes
<1>4. p \in Nat
  BY <1>1, <1>3 DEF SrvTypes
<1>5. PICK yes \in BOOLEAN : (yes <=> k > 0 /\ netProducer) /\ (Server!Pausing(k) <=> yes)
  BY DEF Server!Pausing
<1>6. /\ netFull' <=> netFull \/ k > 0
      /\ waitingForTransport' <=> waitingForTransport \/ yes
      /\ doubled' <=> doubled \/ (netFull /\ n > 0) \/ k > 1
      /\ netFull' \in BOOLEAN /\ waitingForTransport' \in BOOLEAN /\ doubled' \in BOOLEAN
  BY <1>5 DEF Server!PauseProducing
<1>7. ASSUME p > 0, netProducer, ~doubled' PROVE waitingForTransport' /\ p = 1
  <2>1. CASE ~yes
    BY <1>3, <1>5, <1>6, <1>7, <2>1 DEF SrvPress, SrvTypes
  <2>2. CASE yes
    <3>1. ~netFull /\ k = 1 /\ ~doubled
      BY <1>1, <1>5, <1>6, <1>7, <2>2
    <3>2. pauses = 0
      BY <1>7, <3>1 DEF SrvPress, SrvTypes
    <3> QED BY <1>3, <1>5, <1>6, <1>7, <2>2, <3>1, <3>2
  <2> QED BY <2>1, <2>2
<1>8. (waitingForTransport' /\ netProducer) => netFull'
  BY <1>1, <1>5, <1>6 DEF SrvPress
<1> QED BY <1>2, <1>4, <1>6, <1>7, <1>8

LEMMA SrvReading ==
    ASSUME SrvTypes, NEW n \in Nat, NEW k \in Server!Overfull(n), Server!PauseProducing(n, k)
    PROVE  /\ Server!ReadingAfter(k) \in BOOLEAN
           /\ (netReading /\ ~Server!ReadingAfter(k)) => ~handlingRequest /\ waitingForTransport'
BY DEF SrvTypes, SrvFlags, Server!ReadingAfter, Server!PauseProducing, Server!Pausing

\* Nothing but the pressure on the transport changes.
LEMMA SrvWrites ==
    ASSUME SrvTypes, SrvPress, SrvReads, NEW n \in Nat, Server!WriteToTransport(n)
    PROVE  /\ netReading' \in BOOLEAN /\ netFull' \in BOOLEAN /\ waitingForTransport' \in BOOLEAN
           /\ doubled' \in BOOLEAN /\ pauses' \in Nat
           /\ (net = "open" /\ ~netReading') => handlingRequest \/ waitingForTransport'
           /\ UNCHANGED netProducer => SrvPress'
<1>1. PICK k \in Server!Overfull(n) :
         /\ Server!PauseProducing(n, k) /\ pauses' = Server!PausesAfter(k)
         /\ netReading' = Server!ReadingAfter(k)
  BY DEF Server!WriteToTransport
<1>2. /\ netReading' \in BOOLEAN
      /\ (netReading /\ ~netReading') => waitingForTransport'
  BY <1>1, SrvReading
<1>3. /\ netFull' \in BOOLEAN /\ waitingForTransport' \in BOOLEAN /\ doubled' \in BOOLEAN
      /\ pauses' \in Nat
      /\ waitingForTransport => waitingForTransport'
      /\ (waitingForTransport' /\ netProducer) => netFull'
      /\ (pauses' > 0 /\ netProducer /\ ~doubled') => waitingForTransport' /\ pauses' = 1
  BY <1>1, SrvPaused
<1> QED BY <1>2, <1>3 DEF SrvReads, SrvPress

\* What reads a chunk, or puts it aside.
LEMMA SrvChunk ==
    ASSUME NEW p \in SrvParts, NEW c \in Server!Chunks[p]
    PROVE  c \in Seq(SrvParts) /\ c # <<>> /\ c[Len(c)] \in SrvParts
<1>1. PICK n \in 1..MaxChunk : c \in [1..n -> SrvParts]
  BY DEF Server!Chunks, Server!Parts, SrvParts
<1>2. n \in Nat /\ n > 0
  BY <1>1, ServerAssumption DEF Server!HTTPServerAssumption
<1>3. c \in Seq(SrvParts) /\ Len(c) = n
  BY <1>1, <1>2
<1> QED BY <1>1, <1>2, <1>3

LEMMA SrvConcat ==
    ASSUME NEW A, NEW s \in Seq(A), NEW t \in Seq(A)
    PROVE  s \o t \in Seq(A) /\ (s \o t = <<>> <=> s = <<>> /\ t = <<>>) /\ (t = <<>> => s \o t = s)
           /\ (s = <<>> => s \o t = t)
<1>1. s \o t \in Seq(A) /\ Len(s \o t) = Len(s) + Len(t)
  OBVIOUS
<1>2. s \o t = <<>> <=> s = <<>> /\ t = <<>>
  BY <1>1
<1>3. t = <<>> => s \o t = s
  OBVIOUS
<1>4. s = <<>> => s \o t = t
  OBVIOUS
<1> QED BY <1>1, <1>2, <1>3, <1>4

LEMMA SrvClientSends == ASSUME SrvInvariant, Server!ClientSends PROVE SrvInvariant'
<1> USE DEF SrvInvariant
<1>1. PICK chunk \in Server!Chunks[lastSent] :
         /\ lastSent' = chunk[Len(chunk)]
         /\ IF dropping
            THEN UNCHANGED <<dataBuffer, netReading, lineBuffer, busy>>
            ELSE Server!DataReceived(chunk)
  BY DEF Server!ClientSends
<1>2. /\ ~busy /\ net = "open" /\ netReading
      /\ UNCHANGED <<net, netFull, netProducer, lineMode, firstLine, inApp, extra, requests,
                     handlingRequest, persistent, dropping, waitingForTransport, timeOut, idleCall,
                     savedTimeOut, abortingCall, abortCalls, status, queuedRequest, startedWriting,
                     respProducer, respOwner, pauses, writes, mixed, doubled>>
  BY DEF Server!ClientSends, Server!InReactor, Server!timeVars, Server!requestVars, Server!respVars
<1>3. chunk \in Seq(SrvParts) /\ lastSent' \in SrvParts
  BY <1>1, SrvChunk DEF SrvTypes
<1>4. /\ lineBuffer' \in Seq(SrvParts) /\ dataBuffer' \in Seq(SrvParts)
      /\ netReading' \in BOOLEAN /\ busy' \in BOOLEAN
      /\ ~busy' => lineBuffer' = lineBuffer
      /\ ~handlingRequest => dataBuffer' = dataBuffer /\ netReading' = netReading
      /\ handlingRequest => lineBuffer' = lineBuffer /\ busy' = busy
  <2>1. CASE dropping
    BY <1>1, <2>1 DEF SrvTypes, SrvFlags
  <2>2. CASE ~dropping /\ handlingRequest
    <3>1. dataBuffer' = dataBuffer \o chunk /\ UNCHANGED <<lineBuffer, busy>> /\ netReading' \in BOOLEAN
      BY <1>1, <2>2 DEF Server!DataReceived
    <3> QED BY <1>3, <2>2, <3>1, SrvConcat DEF SrvTypes, SrvFlags
  <2>3. CASE ~dropping /\ ~handlingRequest
    <3>1. lineBuffer' = lineBuffer \o chunk /\ busy' = TRUE /\ UNCHANGED <<dataBuffer, netReading>>
      BY <1>1, <2>3 DEF Server!DataReceived
    <3> QED BY <1>3, <2>3, <3>1, SrvConcat DEF SrvTypes, SrvFlags
  <2> QED BY <2>1, <2>2, <2>3
<1>5. SrvTypes'
  BY <1>2, <1>3, <1>4 DEF SrvTypes, SrvFlags
<1>6. SrvState'
  BY <1>2, <1>4 DEF SrvState, SrvNumbering, SrvList, SrvLines
<1>7. SrvTimes' /\ SrvReads' /\ SrvPress' /\ SrvLost'
  BY <1>2, <1>4 DEF SrvRest, SrvTimes, SrvReads, SrvPress, SrvLost
<1>8. SrvTurn'
  BY <1>2, <1>4 DEF SrvRest, SrvTurn, Server!Handled
<1> QED BY <1>5, <1>6, <1>7, <1>8 DEF SrvRest

-------------------------------------------------------------------------------
\* The loop that parses: where it is, nothing is being handled unless two
\* requests came at once.
LEMMA SrvParsing ==
    ASSUME SrvInvariant, Server!Parsing
    PROVE  /\ busy /\ inApp = "no" /\ lineBuffer # <<>> /\ net # "lost"
           /\ Tail(lineBuffer) \in Seq(SrvParts)
           /\ ~mixed => /\ ~handlingRequest /\ ~abortingCall
                        /\ \A r \in Server!Numbers : ~Server!Handled(r)
           /\ ~lineMode => ~firstLine
<1>1. busy /\ inApp = "no" /\ lineBuffer # <<>>
  BY DEF Server!Parsing
<1>2. Tail(lineBuffer) \in Seq(SrvParts)
  BY <1>1, SrvTail DEF SrvInvariant, SrvTypes
<1>3. net # "lost"
  BY <1>1 DEF SrvInvariant, SrvRest, SrvLost
<1> QED BY <1>1, <1>2, <1>3
        DEF SrvInvariant, SrvRest, SrvTurn, SrvState, SrvLines, SrvTypes, SrvFlags

LEMMA SrvNextLine ==
    ASSUME SrvInvariant, Server!Parsing, Server!NextLine
    PROVE  /\ lineBuffer' \in Seq(SrvParts) /\ busy' \in BOOLEAN /\ (busy' <=> net = "open")
BY SrvParsing DEF Server!NextLine

LEMMA SrvRequestLine == ASSUME SrvInvariant, Server!RequestLine PROVE SrvInvariant'
<1> USE DEF SrvInvariant
<1>0. Server!Parsing /\ lineMode /\ firstLine /\ Server!NewRequest /\ Server!NextLine /\ firstLine' = FALSE
  BY DEF Server!RequestLine, Server!RequestLineExpected
<1>1. UNCHANGED <<net, netReading, netFull, netProducer, lastSent, lineMode, inApp, extra,
                  handlingRequest, dataBuffer, persistent, dropping, waitingForTransport, timeOut,
                  idleCall, savedTimeOut, abortingCall, abortCalls, startedWriting, respProducer,
                  respOwner, pauses, writes, mixed, doubled>>
  BY DEF Server!RequestLine, Server!netVars, Server!timeVars, Server!respVars
<1>2. /\ requests' \in Seq(Server!Numbers) /\ requests' # <<>> /\ Len(requests') = Len(requests) + 1
      /\ status' \in [Server!Numbers -> {"new", "received", "processed", "finished", "told"}]
      /\ queuedRequest' \in [Server!Numbers -> BOOLEAN]
      /\ status'[requests'[Len(requests')]] = "received"
      /\ \A r \in Server!Numbers : status'[r] = "processed" <=> status[r] = "processed"
      /\ requests = <<>> => ~queuedRequest'[requests'[1]]
      /\ SrvNumbering' /\ SrvList'
  BY <1>0, SrvNew
<1>3. lineBuffer' \in Seq(SrvParts) /\ busy' \in BOOLEAN /\ (busy' <=> net = "open")
  BY <1>0, SrvNextLine
<1>4. /\ net # "lost"
      /\ ~mixed => /\ ~handlingRequest /\ ~abortingCall
                   /\ \A r \in Server!Numbers : ~Server!Handled(r)
  BY <1>0, SrvParsing
<1>5. SrvTypes'
  <2>0. firstLine' \in BOOLEAN
    BY <1>0
  <2>1. SrvFlags'
    BY <2>0, <1>1, <1>3 DEF SrvTypes, SrvFlags
  <2> QED BY <1>1, <1>2, <1>3, <2>1 DEF SrvTypes
<1>6. SrvLines'
  BY <1>0, <1>1, <1>2, <1>3 DEF SrvLines
<1>7. SrvTimes' /\ SrvReads' /\ SrvPress' /\ SrvLost'
  BY <1>1, <1>4 DEF SrvRest, SrvTimes, SrvReads, SrvPress, SrvLost
<1>8. SrvTurn'
  <2> SUFFICES ASSUME ~mixed PROVE SrvTurn'
    BY <1>1 DEF SrvTurn
  <2>1. requests = <<>> /\ Len(requests) = 0
    BY <1>0, <1>4 DEF SrvRest, SrvTurn
  <2>2. Len(requests') = 1 /\ \A i \in 1..Len(requests') : ~queuedRequest'[requests'[i]]
    BY <1>2, <2>1
  <2> QED BY <1>0, <1>1, <1>2, <1>4, <2>2 DEF SrvRest, SrvTurn, Server!Handled
<1> QED BY <1>2, <1>5, <1>6, <1>7, <1>8 DEF SrvState, SrvRest

\* The channel closes the transport; nothing more is expected of it.
LEMMA SrvLoses ==
    ASSUME SrvTypes, Server!LoseConnection
    PROVE  /\ netProducer' = FALSE /\ netReading' = FALSE /\ net' \in {"losing", "lost"}
           /\ net' = "lost" <=> net = "lost"
BY DEF Server!LoseConnection, SrvTypes

LEMMA SrvBad ==
    ASSUME SrvInvariant, Server!Parsing, Server!BadRequest
    PROVE  /\ netProducer' = FALSE /\ netReading' = FALSE /\ net' = "losing"
           /\ busy' = FALSE
           /\ netFull' \in BOOLEAN /\ waitingForTransport' \in BOOLEAN /\ doubled' \in BOOLEAN
           /\ pauses' \in Nat
           /\ UNCHANGED <<lastSent, lineMode, inApp, extra, handlingRequest, dataBuffer,
                          persistent, dropping, timeOut, idleCall, savedTimeOut, abortingCall,
                          abortCalls, startedWriting, respProducer, respOwner, writes, mixed>>
<1>1. PICK k \in Server!Overfull(1) : Server!PauseProducing(1, k) /\ pauses' = Server!PausesAfter(k)
  BY DEF Server!BadRequest
<1>2. /\ netFull' \in BOOLEAN /\ waitingForTransport' \in BOOLEAN /\ doubled' \in BOOLEAN
      /\ pauses' \in Nat
  BY <1>1, SrvPaused DEF SrvInvariant, SrvRest
<1>3. netProducer' = FALSE /\ netReading' = FALSE /\ net' = "losing"
  BY SrvLoses, SrvParsing DEF SrvInvariant, Server!BadRequest
<1> QED BY <1>2, <1>3 DEF Server!BadRequest, Server!timeVars

\* The connection is closed over a line or a body that makes no sense.
LEMMA SrvBadLine ==
    ASSUME SrvInvariant, Server!Parsing, Server!BadRequest, lineBuffer' \in Seq(SrvParts),
           \/ UNCHANGED <<firstLine, requests, status, queuedRequest>>
           \/ firstLine /\ Server!NewRequest /\ firstLine' = FALSE,
           lineMode \/ lineBuffer' = <<>>
    PROVE  SrvInvariant'
<1> USE DEF SrvInvariant
<1>1. /\ netProducer' = FALSE /\ netReading' = FALSE /\ net' = "losing"
      /\ busy' = FALSE
      /\ netFull' \in BOOLEAN /\ waitingForTransport' \in BOOLEAN /\ doubled' \in BOOLEAN
      /\ pauses' \in Nat
      /\ UNCHANGED <<lastSent, lineMode, inApp, extra, handlingRequest, dataBuffer,
                     persistent, dropping, timeOut, idleCall, savedTimeOut, abortingCall,
                     abortCalls, startedWriting, respProducer, respOwner, writes, mixed>>
  BY SrvBad
<1>2. /\ requests' \in Seq(Server!Numbers)
      /\ status' \in [Server!Numbers -> {"new", "received", "processed", "finished", "told"}]
      /\ queuedRequest' \in [Server!Numbers -> BOOLEAN]
      /\ firstLine' \in BOOLEAN
      /\ ~firstLine' => requests' # <<>> /\ status'[requests'[Len(requests')]] = "received"
      /\ firstLine' => firstLine /\ requests' = requests
      /\ \A r \in Server!Numbers : status'[r] = "processed" <=> status[r] = "processed"
      /\ SrvNumbering' /\ SrvList'
      /\ firstLine' = firstLine \/ firstLine
  <2>1. CASE UNCHANGED <<firstLine, requests, status, queuedRequest>>
    <3>1. net # "lost"
      BY SrvParsing
    <3> QED BY <2>1, <3>1 DEF SrvTypes, SrvFlags, SrvState, SrvNumbering, SrvList, SrvLines
  <2>2. CASE firstLine /\ Server!NewRequest /\ firstLine' = FALSE
    BY <2>2, SrvNew
  <2> QED BY <2>1, <2>2
<1>3. /\ ~mixed => /\ ~handlingRequest /\ ~abortingCall
                   /\ \A r \in Server!Numbers : ~Server!Handled(r)
      /\ net # "lost" /\ (~lineMode => ~firstLine)
  BY SrvParsing
<1>4. SrvTypes'
  <2>1. SrvFlags'
    BY <1>1, <1>2 DEF SrvTypes, SrvFlags
  <2> QED BY <1>1, <1>2, <2>1 DEF SrvTypes
<1>5. SrvState'
  BY <1>1, <1>2, <1>3 DEF SrvState, SrvLines
<1>6. SrvTimes' /\ SrvReads' /\ SrvPress' /\ SrvLost'
  BY <1>1 DEF SrvRest, SrvTimes, SrvReads, SrvPress, SrvLost
<1>7. SrvTurn'
  <2> SUFFICES ASSUME ~mixed PROVE SrvTurn'
    BY <1>1 DEF SrvTurn
  <2>1. Len(requests') <= 1 /\ \A i \in 1..Len(requests') : ~queuedRequest'[requests'[i]]
    <3>1. CASE UNCHANGED <<firstLine, requests, status, queuedRequest>>
      BY <3>1 DEF SrvRest, SrvTurn
    <3>2. CASE firstLine /\ Server!NewRequest /\ firstLine' = FALSE
      <4>1. requests = <<>> /\ Len(requests) = 0
        BY <1>3, <3>2 DEF SrvRest, SrvTurn
      <4>2. Len(requests') = 1 /\ ~queuedRequest'[requests'[1]]
        BY <3>2, <4>1, SrvNew
      <4> QED BY <4>2
    <3> QED BY <3>1, <3>2
  <2> QED BY <1>1, <1>2, <1>3, <2>1 DEF SrvRest, SrvTurn, Server!Handled
<1> QED BY <1>4, <1>5, <1>6, <1>7 DEF SrvRest

LEMMA SrvBadSteps ==
    ASSUME SrvInvariant, Server!BadRequestLine \/ Server!BadHeaders \/ Server!BadBody
    PROVE  SrvInvariant'
<1>1. CASE Server!BadRequestLine
  <2>1. Server!Parsing /\ lineMode /\ firstLine /\ Server!BadRequest /\ lineBuffer' = Tail(lineBuffer)
    BY <1>1 DEF Server!BadRequestLine, Server!RequestLineExpected
  <2>2. \/ UNCHANGED <<firstLine, requests, status, queuedRequest>>
        \/ firstLine /\ Server!NewRequest /\ firstLine' = FALSE
    BY <1>1, <2>1 DEF Server!BadRequestLine
  <2> QED BY <2>1, <2>2, SrvParsing, SrvBadLine
<1>2. CASE Server!BadHeaders
  <2>1. Server!Parsing /\ lineMode /\ Server!BadRequest /\ lineBuffer' = Tail(lineBuffer)
        /\ UNCHANGED <<firstLine, requests, status, queuedRequest>>
    BY <1>2 DEF Server!BadHeaders, Server!HeadersExpected
  <2> QED BY <2>1, SrvParsing, SrvBadLine
<1>3. CASE Server!BadBody
  <2>1. Server!Parsing /\ Server!BadRequest /\ lineBuffer' = <<>>
        /\ UNCHANGED <<firstLine, requests, status, queuedRequest>>
    BY <1>3 DEF Server!BadBody
  <2>2. lineBuffer' \in Seq(SrvParts)
    BY <2>1
  <2> QED BY <2>1, <2>2, SrvBadLine
<1> QED BY <1>1, <1>2, <1>3

LEMMA SrvOtherLines ==
    ASSUME SrvInvariant,
           Server!LineTooLong \/ Server!IgnoreRest \/ Server!LoopEnds \/ Server!ProcessReturns
    PROVE  SrvInvariant'
<1> USE DEF SrvInvariant
<1>1. CASE Server!LineTooLong
  <2>1. /\ Server!Parsing /\ lineMode
        /\ net' = "losing" /\ netReading' = FALSE /\ busy' = FALSE /\ lineBuffer' = <<>>
        /\ UNCHANGED <<netFull, netProducer, lastSent, lineMode, firstLine, inApp, extra,
                       requests, handlingRequest, dataBuffer, persistent, dropping,
                       waitingForTransport, timeOut, idleCall, savedTimeOut, abortingCall,
                       abortCalls, status, queuedRequest, startedWriting, respProducer, respOwner,
                       pauses, writes, mixed, doubled>>
    BY <1>1 DEF Server!LineTooLong, Server!channelVars, Server!timeVars, Server!requestVars,
       Server!respVars
  <2>2. /\ net # "lost"
        /\ ~mixed => /\ ~handlingRequest /\ ~abortingCall
                     /\ \A r \in Server!Numbers : ~Server!Handled(r)
    BY <2>1, SrvParsing
  <2>f. netReading' \in BOOLEAN /\ busy' \in BOOLEAN
    BY <2>1 DEF SrvTypes, SrvFlags
  <2>a. SrvFlags'
    BY <2>1, <2>f DEF SrvTypes, SrvFlags
  <2>b. <<>> \in Seq(SrvParts)
    OBVIOUS
  <2>3. SrvTypes'
    BY <2>1, <2>a, <2>b DEF SrvTypes
  <2>4. SrvState'
    BY <2>1, <2>2 DEF SrvState, SrvNumbering, SrvList, SrvLines
  <2>5. SrvTimes' /\ SrvReads' /\ SrvPress' /\ SrvLost'
    BY <2>1 DEF SrvRest, SrvTimes, SrvReads, SrvPress, SrvLost
  <2>6. SrvTurn'
    BY <2>1, <2>2 DEF SrvRest, SrvTurn, Server!Handled
  <2> QED BY <2>3, <2>4, <2>5, <2>6 DEF SrvRest
<1>2. CASE Server!IgnoreRest \/ Server!LoopEnds
  <2>1. /\ lineBuffer' = <<>> /\ busy' = FALSE /\ dropping' \in BOOLEAN
        /\ UNCHANGED <<net, netReading, netFull, netProducer, lastSent, lineMode, firstLine,
                       inApp, extra, requests, handlingRequest, dataBuffer, persistent,
                       waitingForTransport, timeOut, idleCall, savedTimeOut, abortingCall,
                       abortCalls, status, queuedRequest, startedWriting, respProducer, respOwner,
                       pauses, writes, mixed, doubled>>
    BY <1>2 DEF Server!IgnoreRest, Server!LoopEnds, Server!netVars, Server!channelVars,
       Server!timeVars, Server!requestVars, Server!respVars, SrvTypes, SrvFlags
  <2>2. <<>> \in Seq(SrvParts)
    OBVIOUS
  <2>f. netReading' \in BOOLEAN /\ busy' \in BOOLEAN
    BY <2>1 DEF SrvTypes, SrvFlags
  <2>a. SrvFlags'
    BY <2>1, <2>f DEF SrvTypes, SrvFlags
  <2>3. SrvTypes'
    BY <2>1, <2>2, <2>a DEF SrvTypes
  <2>4. SrvState'
    BY <2>1 DEF SrvState, SrvNumbering, SrvList, SrvLines
  <2>5. SrvTimes' /\ SrvReads' /\ SrvPress' /\ SrvLost'
    BY <2>1 DEF SrvRest, SrvTimes, SrvReads, SrvPress, SrvLost
  <2>6. SrvTurn'
    BY <2>1 DEF SrvRest, SrvTurn, Server!Handled
  <2> QED BY <2>3, <2>4, <2>5, <2>6 DEF SrvRest
<1>3. CASE Server!ProcessReturns
  <2>1. /\ inApp' = "no" /\ dataBuffer' = dataBuffer \o extra /\ extra' = <<>>
        /\ busy' \in BOOLEAN /\ (busy' <=> net = "open" \/ inApp = "raw") /\ busy
        /\ UNCHANGED <<net, netReading, netFull, netProducer, lastSent, lineBuffer, lineMode,
                       firstLine, requests, handlingRequest, persistent, dropping,
                       waitingForTransport, timeOut, idleCall, savedTimeOut, abortingCall,
                       abortCalls, status, queuedRequest, startedWriting, respProducer, respOwner,
                       pauses, writes, mixed, doubled>>
    BY <1>3 DEF Server!ProcessReturns, Server!netVars, Server!timeVars, Server!requestVars,
       Server!respVars
  <2>2. /\ <<>> \in Seq(SrvParts) /\ dataBuffer' \in Seq(SrvParts)
        /\ extra = <<>> => dataBuffer' = dataBuffer
    BY <2>1, SrvConcat DEF SrvTypes
  <2>f. netReading' \in BOOLEAN /\ busy' \in BOOLEAN
    BY <2>1 DEF SrvTypes, SrvFlags
  <2>a. SrvFlags'
    BY <2>1, <2>f DEF SrvTypes, SrvFlags
  <2>3. SrvTypes'
    BY <2>1, <2>2, <2>a DEF SrvTypes
  <2>4. SrvState'
    BY <2>1 DEF SrvState, SrvNumbering, SrvList, SrvLines
  <2>5. SrvTimes' /\ SrvReads' /\ SrvPress' /\ SrvLost'
    BY <2>1 DEF SrvRest, SrvTimes, SrvReads, SrvPress, SrvLost
  <2>6. SrvTurn'
    BY <2>1, <2>2 DEF SrvRest, SrvTurn, Server!Handled
  <2> QED BY <2>3, <2>4, <2>5, <2>6 DEF SrvRest
<1> QED BY <1>1, <1>2, <1>3

\* The last request is complete and is handled; what is left of the line
\* buffer tells whether others are at hand.
LEMMA SrvContent ==
    ASSUME SrvInvariant, Server!Parsing, ~firstLine, Server!AllContentReceived,
           lineBuffer' \in Seq(SrvParts), extra' \in Seq(SrvParts),
           mixed' \in BOOLEAN, ~mixed' => ~mixed /\ lineBuffer' = <<>>,
           lineMode' = lineMode, lineMode \/ lineBuffer' = <<>>,
           inApp' \in {"line", "raw"}, persistent' \in BOOLEAN, netReading' \in BOOLEAN,
           netFull' \in BOOLEAN, waitingForTransport' \in BOOLEAN, doubled' \in BOOLEAN,
           pauses' \in Nat, SrvPress'
    PROVE  SrvInvariant'
<1> USE DEF SrvInvariant
<1>0. UNCHANGED <<net, netProducer, lastSent, busy, requests, dataBuffer, dropping,
                  abortingCall, abortCalls, queuedRequest, startedWriting, respProducer,
                  respOwner, writes>>
  BY DEF Server!AllContentReceived
<1>1. /\ savedTimeOut' \in BOOLEAN /\ (savedTimeOut' <=> savedTimeOut \/ timeOut)
      /\ timeOut' = FALSE /\ idleCall' = FALSE
      /\ firstLine' = TRUE /\ handlingRequest' = TRUE
  <2>1. idleCall => timeOut
    BY DEF SrvRest, SrvTimes
  <2> QED BY <2>1 DEF Server!AllContentReceived, SrvTypes, SrvFlags
<1>2. PICK r : r = requests[Len(requests)] /\ status' = [status EXCEPT ![r] = "processed"]
  BY DEF Server!AllContentReceived
<1>3. /\ busy /\ net # "lost"
      /\ ~mixed => /\ ~handlingRequest /\ ~abortingCall
                   /\ \A s \in Server!Numbers : ~Server!Handled(s)
  BY SrvParsing
<1>4. requests # <<>> /\ status[r] = "received" /\ r \in Server!Numbers
      /\ Len(requests) \in 1..Len(requests)
  <2>1. requests # <<>> /\ status[r] = "received"
    BY <1>2, <1>3 DEF SrvState, SrvLines
  <2>2. Len(requests) \in 1..Len(requests)
    BY <2>1 DEF SrvTypes
  <2> QED BY <1>2, <2>1, <2>2 DEF SrvTypes
<1>5. SrvTypes'
  <2>2. status' \in [Server!Numbers -> {"new", "received", "processed", "finished", "told"}]
    BY <1>2 DEF SrvTypes
  <2>3. SrvFlags'
    BY <1>0, <1>1 DEF SrvTypes, SrvFlags
  <2> QED BY <1>0, <2>2, <2>3 DEF SrvTypes
<1>6. SrvNumbering' /\ SrvList'
  BY <1>0, <1>2, <1>4 DEF SrvTypes, SrvState, SrvNumbering, SrvList
<1>7. SrvLines'
  BY <1>0, <1>1, <1>3 DEF SrvLines
<1>8. SrvTimes' /\ SrvReads' /\ SrvLost'
  BY <1>0, <1>1, <1>3 DEF SrvRest, SrvTimes, SrvReads, SrvLost, SrvTypes, SrvFlags
<1>9. SrvTurn'
  <2> SUFFICES ASSUME ~mixed, lineBuffer' = <<>> PROVE SrvTurn'
    BY DEF SrvTurn
  <2>a. PICK n \in Nat : n = Len(requests) /\ n <= 1
    BY DEF SrvRest, SrvTurn, SrvTypes
  <2>2. Len(requests) = 1
    BY <1>4, <2>a
  <2>3. requests'[1] = r /\ status'[r] = "processed"
    BY <1>0, <1>2, <1>4, <2>2 DEF SrvTypes
  <2> QED BY <1>0, <1>1, <1>3, <1>4, <2>2, <2>3 DEF SrvRest, SrvTurn, Server!Handled
<1> QED BY <1>5, <1>6, <1>7, <1>8, <1>9 DEF SrvState, SrvRest

LEMMA SrvEndOfHeaders == ASSUME SrvInvariant, Server!EndOfHeaders PROVE SrvInvariant'
<1> USE DEF SrvInvariant
<1>1. /\ Server!Parsing /\ lineMode /\ ~firstLine /\ persistent' \in BOOLEAN
      /\ Server!AllContentReceived
      /\ lineBuffer' = Tail(lineBuffer) /\ inApp' = "line"
      /\ mixed' = (mixed \/ Tail(lineBuffer) # <<>>)
      /\ UNCHANGED <<lineMode, extra>>
  BY DEF Server!EndOfHeaders, Server!HeadersExpected, Server!AllHeadersReceived
<1>2. PICK n \in {0, 1} : Server!WriteToTransport(n)
  BY DEF Server!EndOfHeaders, Server!AllHeadersReceived
<1>3. UNCHANGED netProducer
  BY <1>1 DEF Server!AllContentReceived
<1>4. SrvPress /\ SrvReads /\ n \in Nat
  BY <1>2 DEF SrvRest
<1>5. /\ netReading' \in BOOLEAN /\ netFull' \in BOOLEAN /\ waitingForTransport' \in BOOLEAN
      /\ doubled' \in BOOLEAN /\ pauses' \in Nat /\ SrvPress'
  BY <1>2, <1>3, <1>4, SrvWrites
<1>6. Tail(lineBuffer) \in Seq(SrvParts)
  BY <1>1, SrvParsing
<1>7. mixed' \in BOOLEAN /\ (~mixed' => ~mixed /\ lineBuffer' = <<>>)
  BY <1>1
<1>8. lineBuffer' \in Seq(SrvParts) /\ extra' \in Seq(SrvParts)
  BY <1>1, <1>6 DEF SrvTypes
<1> QED BY <1>1, <1>5, <1>7, <1>8, SrvContent

LEMMA SrvBody == ASSUME SrvInvariant, Server!Body PROVE SrvInvariant'
<1> USE DEF SrvInvariant
<1>1. /\ Server!Parsing /\ ~lineMode
      /\ Server!AllContentReceived
      /\ lineBuffer' = <<>> /\ extra' = Tail(lineBuffer) /\ inApp' = "raw"
      /\ UNCHANGED <<lineMode, persistent, netReading, netFull, waitingForTransport, pauses,
                     mixed, doubled>>
  BY DEF Server!Body
<1>2. ~firstLine /\ Tail(lineBuffer) \in Seq(SrvParts)
  BY <1>1, SrvParsing
<1>3. UNCHANGED netProducer
  BY <1>1 DEF Server!AllContentReceived
<1>4. SrvPress'
  BY <1>1, <1>3 DEF SrvRest, SrvPress
<1>5. /\ persistent' \in BOOLEAN /\ netReading' \in BOOLEAN /\ netFull' \in BOOLEAN
      /\ waitingForTransport' \in BOOLEAN /\ doubled' \in BOOLEAN /\ pauses' \in Nat
  BY <1>1 DEF SrvTypes, SrvFlags
<1>6. mixed' \in BOOLEAN /\ (~mixed' => ~mixed)
  BY <1>1 DEF SrvTypes, SrvFlags
<1>7. lineBuffer' \in Seq(SrvParts) /\ extra' \in Seq(SrvParts)
  <2>1. <<>> \in Seq(SrvParts)
    OBVIOUS
  <2> QED BY <1>1, <1>2, <2>1
<1> QED BY <1>1, <1>2, <1>4, <1>5, <1>6, <1>7, SrvContent

LEMMA SrvBodyFollows == ASSUME SrvInvariant, Server!BodyFollows PROVE SrvInvariant'
<1> USE DEF SrvInvariant
<1>1. /\ Server!Parsing /\ lineMode /\ ~firstLine /\ persistent' \in BOOLEAN
      /\ Server!NextLine /\ lineMode' = FALSE
      /\ UNCHANGED <<net, netProducer, lastSent, firstLine, inApp, extra, requests,
                     handlingRequest, dataBuffer, dropping, timeOut, idleCall, savedTimeOut,
                     abortingCall, abortCalls, status, queuedRequest, startedWriting,
                     respProducer, respOwner, writes, mixed>>
  BY DEF Server!BodyFollows, Server!HeadersExpected, Server!AllHeadersReceived,
     Server!timeVars, Server!requestVars
<1>2. PICK n \in {0, 1} : Server!WriteToTransport(n)
  BY DEF Server!BodyFollows, Server!AllHeadersReceived
<1>3. SrvPress /\ SrvReads /\ n \in Nat
  BY <1>2 DEF SrvRest
<1>4. /\ netReading' \in BOOLEAN /\ netFull' \in BOOLEAN /\ waitingForTransport' \in BOOLEAN
      /\ doubled' \in BOOLEAN /\ pauses' \in Nat /\ SrvPress'
      /\ (net = "open" /\ ~netReading') => handlingRequest \/ waitingForTransport'
  BY <1>1, <1>2, <1>3, SrvWrites
<1>5. lineBuffer' \in Seq(SrvParts) /\ busy' \in BOOLEAN /\ (busy' <=> net = "open")
  BY <1>1, SrvNextLine
<1>6. /\ net # "lost"
      /\ ~mixed => /\ ~handlingRequest /\ ~abortingCall
                   /\ \A r \in Server!Numbers : ~Server!Handled(r)
  BY <1>1, SrvParsing
<1>7. SrvTypes'
  <2>0. lineMode' \in BOOLEAN
    BY <1>1
  <2>1. SrvFlags'
    BY <2>0, <1>1, <1>4, <1>5 DEF SrvTypes, SrvFlags
  <2> QED BY <1>1, <1>4, <1>5, <2>1 DEF SrvTypes
<1>8. SrvState'
  BY <1>1, <1>5, <1>6 DEF SrvState, SrvNumbering, SrvList, SrvLines
<1>9. SrvTimes' /\ SrvReads' /\ SrvLost'
  BY <1>1, <1>4, <1>6 DEF SrvRest, SrvTimes, SrvReads, SrvLost
<1>10. SrvTurn'
  BY <1>1, <1>6 DEF SrvRest, SrvTurn, Server!Handled
<1> QED BY <1>4, <1>7, <1>8, <1>9, <1>10 DEF SrvRest

-------------------------------------------------------------------------------
\* The application writes, or registers a producer of a response.
LEMMA SrvResponds ==
    ASSUME SrvInvariant,
           UNCHANGED <<net, netProducer, lastSent, lineBuffer, lineMode, busy, firstLine, inApp,
                       extra, requests, handlingRequest, dataBuffer, persistent, dropping,
                       timeOut, idleCall, savedTimeOut, abortingCall, abortCalls, status,
                       queuedRequest, mixed>>,
           startedWriting' \in [Server!Numbers -> BOOLEAN],
           respProducer' \in {"none", "push", "pull"}, pauses' \in Nat,
           netReading' \in BOOLEAN, netFull' \in BOOLEAN, waitingForTransport' \in BOOLEAN,
           doubled' \in BOOLEAN,
           (net = "open" /\ ~netReading') => handlingRequest \/ waitingForTransport',
           SrvPress'
    PROVE  SrvInvariant'
<1> USE DEF SrvInvariant
<1>1. SrvTypes'
  <2>1. SrvFlags'
    BY DEF SrvTypes, SrvFlags
  <2> QED BY <2>1 DEF SrvTypes
<1>2. SrvState'
  BY DEF SrvState, SrvNumbering, SrvList, SrvLines
<1>3. SrvTimes' /\ SrvReads' /\ SrvLost'
  BY DEF SrvRest, SrvTimes, SrvReads, SrvLost
<1>4. SrvTurn'
  BY DEF SrvRest, SrvTurn, Server!Handled
<1> QED BY <1>1, <1>2, <1>3, <1>4 DEF SrvRest

LEMMA SrvWrite ==
    ASSUME SrvInvariant, NEW r \in Server!Numbers, Server!Write(r)
    PROVE  SrvInvariant'
<1> USE DEF SrvInvariant
<1>1. UNCHANGED <<net, netProducer, lastSent, lineBuffer, lineMode, busy, firstLine, inApp,
                  extra, requests, handlingRequest, dataBuffer, persistent, dropping,
                  timeOut, idleCall, savedTimeOut, abortingCall, abortCalls, status,
                  queuedRequest, respProducer, mixed>>
  BY DEF Server!Write, Server!lineVars, Server!channelVars, Server!timeVars
<1>2. PICK n \in {1, 2} : Server!WriteToTransport(n)
  BY DEF Server!Write
<1>3. SrvPress /\ SrvReads /\ n \in Nat
  BY <1>2 DEF SrvRest
<1>4. /\ netReading' \in BOOLEAN /\ netFull' \in BOOLEAN /\ waitingForTransport' \in BOOLEAN
      /\ doubled' \in BOOLEAN /\ pauses' \in Nat /\ SrvPress'
      /\ (net = "open" /\ ~netReading') => handlingRequest \/ waitingForTransport'
  BY <1>1, <1>2, <1>3, SrvWrites
<1>5. startedWriting' \in [Server!Numbers -> BOOLEAN]
  BY DEF Server!Write, SrvTypes
<1>6. respProducer' \in {"none", "push", "pull"}
  BY <1>1 DEF SrvTypes
<1> QED BY <1>1, <1>4, <1>5, <1>6, SrvResponds

LEMMA SrvProducer ==
    ASSUME SrvInvariant, NEW r \in Server!Numbers,
           \/ Server!UnregisterProducer(r)
           \/ \E k \in {"push", "pull"} : Server!RegisterProducer(r, k)
    PROVE  SrvInvariant'
<1> USE DEF SrvInvariant
<1>1. /\ respProducer' \in {"none", "push", "pull"} /\ pauses' = 0
      /\ UNCHANGED <<net, netReading, netFull, netProducer, lastSent, lineBuffer, lineMode, busy,
                     firstLine, inApp, extra, requests, handlingRequest, dataBuffer, persistent,
                     dropping, waitingForTransport, timeOut, idleCall, savedTimeOut, abortingCall,
                     abortCalls, status, queuedRequest, startedWriting, mixed, doubled>>
  <2>1. CASE Server!UnregisterProducer(r)
    BY <2>1 DEF Server!UnregisterProducer, Server!Unregistered, Server!netVars, Server!lineVars,
       Server!channelVars, Server!timeVars, Server!requestVars
  <2>2. CASE \E k \in {"push", "pull"} : Server!RegisterProducer(r, k)
    BY <2>2 DEF Server!RegisterProducer, Server!netVars, Server!lineVars,
       Server!channelVars, Server!timeVars, Server!requestVars
  <2> QED BY <2>1, <2>2
<1>2. /\ startedWriting' \in [Server!Numbers -> BOOLEAN] /\ pauses' \in Nat
      /\ netReading' \in BOOLEAN /\ netFull' \in BOOLEAN /\ waitingForTransport' \in BOOLEAN
      /\ doubled' \in BOOLEAN
  BY <1>1 DEF SrvTypes, SrvFlags
<1>3. (net = "open" /\ ~netReading') => handlingRequest \/ waitingForTransport'
  BY <1>1 DEF SrvRest, SrvReads
<1>4. SrvPress'
  BY <1>1 DEF SrvRest, SrvPress
<1> QED BY <1>1, <1>2, <1>3, <1>4, SrvResponds

\* The channel closes the connection, for the application or after a timeout.
LEMMA SrvCloses ==
    ASSUME SrvInvariant,
           \/ \E r \in Server!Numbers : Server!Lose(r)
           \/ Server!TimesOut
           \/ Server!ForceAbort
    PROVE  SrvInvariant'
<1> USE DEF SrvInvariant
<1>1. /\ netReading' = FALSE /\ net' \in {"losing", "lost"} /\ (net' = "lost" <=> net = "lost")
      /\ netProducer' \in BOOLEAN /\ (netProducer' => netProducer)
      /\ UNCHANGED <<netFull, lastSent, lineBuffer, lineMode, busy, firstLine, inApp, extra,
                     requests, handlingRequest, dataBuffer, persistent, dropping,
                     waitingForTransport, timeOut, savedTimeOut, status, queuedRequest,
                     startedWriting, respProducer, respOwner, pauses, writes, mixed, doubled>>
  <2>1. CASE \E r \in Server!Numbers : Server!Lose(r)
    BY <2>1 DEF Server!Lose, Server!LoseConnection, Server!lineVars, Server!channelVars,
       Server!timeVars, Server!requestVars, Server!respVars, SrvTypes
  <2>2. CASE Server!TimesOut
    BY <2>2 DEF Server!TimesOut, Server!LoseConnection, Server!lineVars, Server!channelVars,
       Server!requestVars, Server!respVars, SrvTypes
  <2>3. CASE Server!ForceAbort
    BY <2>3 DEF Server!ForceAbort, Server!lineVars, Server!channelVars,
       Server!requestVars, Server!respVars, SrvTypes, SrvFlags
  <2> QED BY <2>1, <2>2, <2>3
<1>2. /\ idleCall' \in BOOLEAN /\ (idleCall' => idleCall)
      /\ abortingCall' \in BOOLEAN /\ abortCalls' \in Int
      /\ net = "lost" => ~abortingCall'
      /\ ~mixed => /\ abortCalls' = IF abortingCall' THEN 1 ELSE 0
                   /\ abortingCall' => /\ ~busy /\ ~idleCall'
                                       /\ \A r \in Server!Numbers : ~Server!Handled(r)
  <2>1. CASE \E r \in Server!Numbers : Server!Lose(r)
    <3>1. UNCHANGED <<idleCall, abortingCall, abortCalls>>
      BY <2>1 DEF Server!Lose, Server!timeVars
    <3> QED BY <3>1 DEF SrvTypes, SrvFlags, SrvRest, SrvTurn, SrvLost
  <2>2. CASE Server!TimesOut
    <3>1. /\ idleCall /\ ~busy /\ idleCall' = FALSE /\ abortingCall' = TRUE
          /\ abortCalls' = abortCalls + 1
      BY <2>2 DEF Server!TimesOut, Server!InReactor
    <3>2. ~mixed => abortCalls = 0 /\ \A r \in Server!Numbers : ~Server!Handled(r)
      BY <3>1 DEF SrvTypes, SrvFlags, SrvRest, SrvTurn
    <3>3. idleCall' \in BOOLEAN /\ abortingCall' \in BOOLEAN /\ ~idleCall' /\ abortingCall'
      BY <3>1
    <3>4. abortCalls' \in Int /\ (~mixed => abortCalls' = 1)
      BY <3>1, <3>2 DEF SrvTypes
    <3>5. net # "lost"
      BY <3>1 DEF SrvRest, SrvLost
    <3> QED BY <3>1, <3>2, <3>3, <3>4, <3>5
  <2>3. CASE Server!ForceAbort
    <3>1. /\ abortCalls > 0 /\ abortingCall' = FALSE /\ abortCalls' = abortCalls - 1
          /\ UNCHANGED idleCall
      BY <2>3 DEF Server!ForceAbort
    <3>2. ~mixed => abortCalls = 1
      BY <3>1 DEF SrvTypes, SrvFlags, SrvRest, SrvTurn
    <3>3. abortingCall' \in BOOLEAN /\ ~abortingCall'
      BY <3>1
    <3>4. abortCalls' \in Int /\ (~mixed => abortCalls' = 0)
      BY <3>1, <3>2 DEF SrvTypes
    <3>5. idleCall' \in BOOLEAN /\ (idleCall' => idleCall)
      BY <3>1 DEF SrvTypes, SrvFlags
    <3> QED BY <3>3, <3>4, <3>5
  <2> QED BY <2>1, <2>2, <2>3
<1>3. SrvTypes'
  <2>0. netReading' \in BOOLEAN
    BY <1>1
  <2>1. SrvFlags'
    BY <1>1, <1>2, <2>0 DEF SrvTypes, SrvFlags
  <2> QED BY <1>1, <1>2, <2>1 DEF SrvTypes
<1>4. SrvState'
  BY <1>1 DEF SrvState, SrvNumbering, SrvList, SrvLines
<1>5. SrvTimes' /\ SrvReads' /\ SrvPress' /\ SrvLost'
  BY <1>1, <1>2 DEF SrvRest, SrvTimes, SrvReads, SrvPress, SrvLost
<1>6. SrvTurn'
  BY <1>1, <1>2 DEF SrvRest, SrvTurn, Server!Handled
<1> QED BY <1>3, <1>4, <1>5, <1>6 DEF SrvRest

\* The connection is lost: each request of the list is told.
LEMMA SrvEnds ==
    ASSUME SrvInvariant, ~busy, Server!ConnectionLost, waitingForTransport' \in BOOLEAN,
           UNCHANGED <<lastSent, lineBuffer, lineMode, busy, firstLine, inApp, extra, requests,
                       handlingRequest, dataBuffer, persistent, dropping, queuedRequest,
                       startedWriting, respProducer, respOwner, pauses, mixed, doubled>>
    PROVE  SrvInvariant'
<1> USE DEF SrvInvariant
<1>1. /\ net' = "lost" /\ netReading' = FALSE /\ netProducer' = FALSE
      /\ timeOut' = FALSE /\ idleCall' = FALSE /\ abortingCall' = FALSE
      /\ abortCalls' = IF abortingCall THEN abortCalls - 1 ELSE abortCalls
      /\ UNCHANGED <<netFull, savedTimeOut>>
  BY DEF Server!ConnectionLost
<1>2. status' = [r \in Server!Numbers |->
         IF \E i \in 1..Len(requests) : requests[i] = r THEN "told" ELSE status[r]]
  BY DEF Server!ConnectionLost
<1>3. /\ \A r \in Server!Numbers : status'[r] \notin {"received", "processed"}
      /\ \A r \in Server!Numbers : status'[r] = "new" <=> status[r] = "new"
      /\ status' \in [Server!Numbers -> {"new", "received", "processed", "finished", "told"}]
  <2>1. \A r \in Server!Numbers :
           (\E i \in 1..Len(requests) : requests[i] = r) => status[r] # "new"
    BY DEF SrvState, SrvList
  <2>2. \A r \in Server!Numbers : status[r] \in {"received", "processed"} =>
           \E i \in 1..Len(requests) : requests[i] = r
    BY DEF SrvState, SrvList
  <2> QED BY <1>2, <2>1, <2>2 DEF SrvTypes
<1>4. abortCalls' \in Int /\ (~mixed => abortCalls' = 0)
  <2>1. CASE abortingCall
    BY <1>1, <2>1 DEF SrvTypes, SrvRest, SrvTurn
  <2>2. CASE ~abortingCall
    BY <1>1, <2>2 DEF SrvTypes, SrvRest, SrvTurn
  <2> QED BY <2>1, <2>2
<1>5. SrvTypes'
  <2>0. /\ netReading' \in BOOLEAN /\ netProducer' \in BOOLEAN /\ timeOut' \in BOOLEAN
        /\ idleCall' \in BOOLEAN /\ abortingCall' \in BOOLEAN
    BY <1>1
  <2>1. SrvFlags'
    BY <1>1, <2>0 DEF SrvTypes, SrvFlags
  <2> QED BY <1>1, <1>3, <1>4, <2>1 DEF SrvTypes
<1>6. SrvState'
  <2>1. SrvNumbering'
    BY <1>3 DEF SrvState, SrvNumbering
  <2>2. SrvList'
    BY <1>3 DEF SrvState, SrvList, SrvTypes
  <2> QED BY <1>1, <2>1, <2>2 DEF SrvState, SrvLines
<1>7. SrvTimes' /\ SrvReads' /\ SrvPress' /\ SrvLost'
  BY <1>1, <1>3 DEF SrvTimes, SrvReads, SrvPress, SrvLost
<1>8. SrvTurn'
  BY <1>1, <1>3, <1>4 DEF SrvRest, SrvTurn, Server!Handled
<1> QED BY <1>5, <1>6, <1>7, <1>8 DEF SrvRest

LEMMA SrvTransportEnds == ASSUME SrvInvariant, Server!TransportEnds PROVE SrvInvariant'
<1>1. /\ ~busy /\ Server!ConnectionLost
      /\ UNCHANGED <<lastSent, lineBuffer, lineMode, busy, firstLine, inApp, extra, requests,
                     handlingRequest, dataBuffer, persistent, dropping, waitingForTransport,
                     queuedRequest, startedWriting, respProducer, respOwner, pauses, mixed,
                     doubled>>
  BY DEF Server!TransportEnds, Server!InReactor, Server!lineVars, Server!channelVars,
     Server!respVars
<1>2. waitingForTransport' \in BOOLEAN
  BY <1>1 DEF SrvInvariant, SrvTypes, SrvFlags
<1> QED BY <1>1, <1>2, SrvEnds

LEMMA SrvDrained == ASSUME SrvInvariant, Server!Drained PROVE SrvInvariant'
<1> USE DEF SrvInvariant
<1>1. /\ ~busy
      /\ UNCHANGED <<lastSent, lineBuffer, lineMode, busy, firstLine, inApp, extra, requests,
                     handlingRequest, dataBuffer, persistent, dropping, queuedRequest,
                     startedWriting, respProducer, respOwner, mixed, doubled>>
  BY DEF Server!Drained, Server!InReactor, Server!lineVars, Server!channelVars
<1>2. CASE ~netProducer
  <2>1. /\ netFull' = FALSE
        /\ UNCHANGED <<net, netReading, netProducer, waitingForTransport, pauses, timeOut,
                       idleCall, savedTimeOut, abortingCall, abortCalls, status>>
    BY <1>2 DEF Server!Drained, Server!timeVars
  <2>2. /\ startedWriting' \in [Server!Numbers -> BOOLEAN] /\ pauses' \in Nat
        /\ respProducer' \in {"none", "push", "pull"}
        /\ netReading' \in BOOLEAN /\ netFull' \in BOOLEAN /\ waitingForTransport' \in BOOLEAN
        /\ doubled' \in BOOLEAN
    BY <1>1, <2>1 DEF SrvTypes, SrvFlags
  <2>3. (net = "open" /\ ~netReading') => handlingRequest \/ waitingForTransport'
    BY <2>1 DEF SrvRest, SrvReads
  <2>4. SrvPress'
    BY <1>2, <2>1 DEF SrvPress
  <2> QED BY <1>1, <2>1, <2>2, <2>3, <2>4, SrvResponds
<1>3. CASE netProducer /\ respProducer = "pull" /\ pauses = 0
  <2>1. Server!ConnectionLost /\ waitingForTransport' = FALSE /\ UNCHANGED pauses
    BY <1>3 DEF Server!Drained
  <2>2. waitingForTransport' \in BOOLEAN
    BY <2>1
  <2> QED BY <1>1, <2>1, <2>2, SrvEnds
<1>4. CASE netProducer /\ ~(respProducer = "pull" /\ pauses = 0)
  <2>1. /\ netFull' = FALSE /\ Server!ResumeProducing
        /\ UNCHANGED <<net, netProducer, timeOut, idleCall, savedTimeOut, abortingCall,
                       abortCalls, status>>
    BY <1>4 DEF Server!Drained, Server!timeVars
  <2>2. /\ pauses' \in Nat
        /\ pauses' = 0 \/ pauses > 1
    <3>1. CASE respProducer = "pull"
      <4>1. pauses' = pauses - 1 /\ pauses # 0
        BY <1>4, <2>1, <3>1 DEF Server!ResumeProducing
      <4> QED BY <4>1 DEF SrvTypes
    <3>2. CASE respProducer # "pull"
      <4>1. pauses' = 0
        BY <2>1, <3>2 DEF Server!ResumeProducing
      <4> QED BY <4>1
    <3> QED BY <3>1, <3>2
  <2>3. /\ waitingForTransport' = FALSE
        /\ netReading' \in BOOLEAN /\ (netReading' <=> netReading \/ (~handlingRequest /\ net = "open"))
    BY <2>1 DEF Server!ResumeProducing, SrvTypes, SrvFlags
  <2>4. /\ startedWriting' \in [Server!Numbers -> BOOLEAN]
        /\ respProducer' \in {"none", "push", "pull"}
        /\ netFull' \in BOOLEAN /\ waitingForTransport' \in BOOLEAN /\ doubled' \in BOOLEAN
    BY <1>1, <2>1, <2>3 DEF SrvTypes, SrvFlags
  <2>5. SrvPress'
    <3>1. ~doubled => ~(pauses > 1)
      BY <1>4 DEF SrvRest, SrvPress, SrvTypes
    <3> QED BY <1>1, <2>1, <2>2, <2>3, <3>1 DEF SrvPress
  <2> QED BY <1>1, <2>1, <2>2, <2>3, <2>4, <2>5, SrvResponds
<1> QED BY <1>2, <1>3, <1>4 DEF SrvTypes, SrvFlags

-------------------------------------------------------------------------------
\* A response is finished: what that does to the pressure on the transport.
LEMMA SrvFinishes ==
    ASSUME SrvInvariant, NEW r \in Server!Numbers, Server!Finish(r)
    PROVE  \E k \in Nat :
              /\ IF queuedRequest[r] THEN Server!Queued(k) ELSE Server!Cleanup(r, k)
              /\ netFull' \in BOOLEAN /\ waitingForTransport' \in BOOLEAN /\ doubled' \in BOOLEAN
              /\ Server!PausesAfter(k) \in Nat
              /\ (waitingForTransport' /\ netProducer) => netFull'
              /\ (Server!PausesAfter(k) > 0 /\ netProducer /\ ~doubled') =>
                    waitingForTransport' /\ Server!PausesAfter(k) = 1
              /\ Server!ReadingAfter(k) \in BOOLEAN
              /\ (net = "open" /\ ~Server!ReadingAfter(k)) => handlingRequest \/ waitingForTransport'
<1>0. PICK n \in Server!LastWrites(r) : \E k \in Server!Overfull(n) :
         /\ Server!PauseProducing(n, k)
         /\ IF queuedRequest[r] THEN Server!Queued(k) ELSE Server!Cleanup(r, k)
  BY DEF Server!Finish
<1>1. PICK k \in Server!Overfull(n) :
         /\ Server!PauseProducing(n, k)
         /\ IF queuedRequest[r] THEN Server!Queued(k) ELSE Server!Cleanup(r, k)
  BY <1>0
<1>2. n \in Nat
  BY <1>0 DEF Server!LastWrites
<1>3. k \in Nat
  BY <1>1, <1>2 DEF Server!Overfull
<1>4. SrvTypes /\ SrvPress /\ SrvReads
  BY DEF SrvInvariant, SrvRest
<1>5. /\ netFull' \in BOOLEAN /\ waitingForTransport' \in BOOLEAN /\ doubled' \in BOOLEAN
      /\ Server!PausesAfter(k) \in Nat
      /\ waitingForTransport => waitingForTransport'
      /\ (waitingForTransport' /\ netProducer) => netFull'
      /\ (Server!PausesAfter(k) > 0 /\ netProducer /\ ~doubled') =>
            waitingForTransport' /\ Server!PausesAfter(k) = 1
  BY <1>1, <1>2, <1>4, SrvPaused
<1>6. /\ Server!ReadingAfter(k) \in BOOLEAN
      /\ (netReading /\ ~Server!ReadingAfter(k)) => waitingForTransport'
  BY <1>1, <1>2, <1>4, SrvReading
<1>7. (net = "open" /\ ~Server!ReadingAfter(k)) => handlingRequest \/ waitingForTransport'
  BY <1>4, <1>5, <1>6 DEF SrvReads
<1> QED BY <1>1, <1>3, <1>5, <1>6, <1>7

\* The request is at its place in the list, and the connection is there.
LEMMA SrvFinished ==
    ASSUME SrvInvariant, NEW r \in Server!Numbers, Server!Finish(r)
    PROVE  /\ status[r] = "processed" /\ net # "lost"
           /\ \E i \in 1..Len(requests) : requests[i] = r
           /\ status' = [status EXCEPT ![r] = "finished"]
           /\ status' \in [Server!Numbers -> {"new", "received", "processed", "finished", "told"}]
           /\ startedWriting' \in [Server!Numbers -> BOOLEAN]
           /\ SrvNumbering'
           /\ mixed' \in BOOLEAN /\ (~mixed' => ~mixed /\ (persistent => extra = <<>>))
           /\ UNCHANGED <<lastSent, firstLine, inApp, extra, persistent, dropping, savedTimeOut,
                          abortingCall, abortCalls, queuedRequest, writes>>
<1> USE DEF SrvInvariant
<1>1. /\ status[r] = "processed"
      /\ status' = [status EXCEPT ![r] = "finished"]
      /\ startedWriting' = [startedWriting EXCEPT ![r] = TRUE]
      /\ mixed' = (mixed \/ (persistent /\ extra # <<>>))
      /\ UNCHANGED <<lastSent, firstLine, inApp, extra, persistent, dropping, savedTimeOut,
                     abortingCall, abortCalls, queuedRequest, writes>>
  BY DEF Server!Finish, Server!Handled
<1>2. net # "lost"
  BY <1>1 DEF SrvRest, SrvLost
<1>3. \E i \in 1..Len(requests) : requests[i] = r
  BY <1>1 DEF SrvState, SrvList
<1>4. /\ status' \in [Server!Numbers -> {"new", "received", "processed", "finished", "told"}]
      /\ startedWriting' \in [Server!Numbers -> BOOLEAN]
  BY <1>1 DEF SrvTypes
<1>5. \A q \in Server!Numbers : status'[q] = "new" <=> status[q] = "new"
  BY <1>1 DEF SrvTypes
<1>6. SrvNumbering'
  BY <1>5 DEF SrvState, SrvNumbering
<1>7. mixed' \in BOOLEAN /\ (~mixed' => ~mixed /\ (persistent => extra = <<>>))
  BY <1>1
<1> QED BY <1>1, <1>2, <1>3, <1>4, <1>6, <1>7

\* A request that is "queued" stays in the list.
LEMMA SrvFinishQueued ==
    ASSUME SrvInvariant, NEW r \in Server!Numbers, Server!Finish(r), queuedRequest[r]
    PROVE  SrvInvariant'
<1> USE DEF SrvInvariant
<1>1. PICK k \in Nat :
         /\ Server!Queued(k)
         /\ netFull' \in BOOLEAN /\ waitingForTransport' \in BOOLEAN /\ doubled' \in BOOLEAN
         /\ Server!PausesAfter(k) \in Nat
         /\ (waitingForTransport' /\ netProducer) => netFull'
         /\ (Server!PausesAfter(k) > 0 /\ netProducer /\ ~doubled') =>
               waitingForTransport' /\ Server!PausesAfter(k) = 1
         /\ Server!ReadingAfter(k) \in BOOLEAN
         /\ (net = "open" /\ ~Server!ReadingAfter(k)) => handlingRequest \/ waitingForTransport'
  BY SrvFinishes
<1>2. /\ netReading' \in BOOLEAN /\ pauses' \in Nat
      /\ (net = "open" /\ ~netReading') => handlingRequest \/ waitingForTransport'
      /\ (pauses' > 0 /\ netProducer /\ ~doubled') => waitingForTransport' /\ pauses' = 1
      /\ UNCHANGED <<net, netProducer, requests, handlingRequest, timeOut, idleCall,
                     dataBuffer, lineMode, lineBuffer, busy, respProducer, respOwner>>
  BY <1>1 DEF Server!Queued
<1>3. /\ status[r] = "processed" /\ net # "lost"
      /\ \E i \in 1..Len(requests) : requests[i] = r
      /\ status' = [status EXCEPT ![r] = "finished"]
      /\ status' \in [Server!Numbers -> {"new", "received", "processed", "finished", "told"}]
      /\ startedWriting' \in [Server!Numbers -> BOOLEAN]
      /\ SrvNumbering'
      /\ mixed' \in BOOLEAN /\ (~mixed' => ~mixed /\ (persistent => extra = <<>>))
      /\ UNCHANGED <<lastSent, firstLine, inApp, extra, persistent, dropping, savedTimeOut,
                     abortingCall, abortCalls, queuedRequest, writes>>
  BY SrvFinished
<1>4. SrvTypes'
  <2>1. SrvFlags'
    BY <1>1, <1>2, <1>3 DEF SrvTypes, SrvFlags
  <2> QED BY <1>2, <1>3, <2>1 DEF SrvTypes
<1>5. SrvList'
  <2>1. \A q \in Server!Numbers : /\ status'[q] = "new" <=> status[q] = "new"
                                  /\ status'[q] \in {"received", "processed"} => status'[q] = status[q]
    BY <1>3 DEF SrvTypes
  <2>2. \A i \in 1..Len(requests) : requests[i] \in Server!Numbers
    BY DEF SrvTypes
  <2> QED BY <1>2, <1>3, <2>1, <2>2 DEF SrvState, SrvList
<1>6. SrvLines'
  <2>1. \A q \in Server!Numbers : status[q] = "received" => status'[q] = "received"
    BY <1>3 DEF SrvTypes
  <2>2. requests # <<>> => requests[Len(requests)] \in Server!Numbers
    BY DEF SrvTypes
  <2> QED BY <1>2, <1>3, <2>1, <2>2 DEF SrvState, SrvLines
<1>7. SrvTimes' /\ SrvReads' /\ SrvPress' /\ SrvLost'
  BY <1>1, <1>2, <1>3 DEF SrvRest, SrvTimes, SrvReads, SrvPress, SrvLost
<1>8. mixed
  BY <1>3 DEF SrvRest, SrvTurn, SrvTypes, SrvFlags
<1>9. SrvTurn'
  BY <1>3, <1>8 DEF SrvTurn
<1> QED BY <1>3, <1>4, <1>5, <1>6, <1>7, <1>9 DEF SrvState, SrvRest

\* One that is not is the first of the list, and leaves it.
LEMMA SrvLeaves ==
    ASSUME SrvInvariant, NEW r \in Server!Numbers, Server!Finish(r), ~queuedRequest[r]
    PROVE  /\ requests' \in Seq(Server!Numbers) /\ SrvList'
           /\ ~firstLine => requests' # <<>> /\ status'[requests'[Len(requests')]] = "received"
           /\ ~mixed => requests' = <<>> /\ \A q \in Server!Numbers : status'[q] # "processed"
<1> USE DEF SrvInvariant
<1>1. requests' = Tail(requests) /\ UNCHANGED queuedRequest
  BY DEF Server!Finish, Server!Cleanup, Server!RequestDone
<1>2. /\ status[r] = "processed" /\ net # "lost"
      /\ status' = [status EXCEPT ![r] = "finished"]
  BY SrvFinished
<1>3. PICK i \in 1..Len(requests) : requests[i] = r
  BY SrvFinished
<1>4. PICK n \in Nat : n = Len(requests) /\ n > 0 /\ i \in 1..n
  BY <1>3 DEF SrvTypes
<1>5. requests[1] = r
  <2>1. i \notin 2..n
    BY <1>3, <1>4 DEF SrvState, SrvList
  <2> QED BY <1>3, <1>4, <2>1
<1>6. /\ requests # <<>>
      /\ requests' \in Seq(Server!Numbers) /\ Len(requests') = n - 1
      /\ \A j \in 1..(n - 1) : requests'[j] = requests[j + 1]
  <2>1. requests # <<>>
    BY <1>4
  <2> QED BY <1>1, <1>4, <2>1, SrvTail DEF SrvTypes
<1>7. \A j \in 2..n : requests[j] \in Server!Numbers /\ requests[j] # r
  <2> TAKE j \in 2..n
  <2>1. j \in 1..n /\ 1 \in 1..n /\ j # 1
    BY <1>4
  <2> QED BY <1>4, <1>5, <2>1 DEF SrvTypes, SrvState, SrvList
<1>8. \A j \in 1..(n - 1) : j + 1 \in 2..n /\ j + 1 \in 1..n
  BY <1>4
<1>9. \A q \in Server!Numbers : q # r => status'[q] = status[q]
  BY <1>2 DEF SrvTypes
<1>10. status'[r] = "finished"
  BY <1>2 DEF SrvTypes
<1>11. SrvList'
  <2>1. \A j \in 1..(n - 1) : status'[requests'[j]] # "new"
    BY <1>4, <1>6, <1>7, <1>8, <1>9 DEF SrvState, SrvList
  <2>2. \A j, l \in 1..(n - 1) : requests'[j] = requests'[l] => j = l
    <3> TAKE j, l \in 1..(n - 1)
    <3> HAVE requests'[j] = requests'[l]
    <3>0. requests[j + 1] = requests[l + 1] /\ j + 1 \in 1..n /\ l + 1 \in 1..n
      BY <1>6, <1>8
    <3>a. \A x, y \in 1..n : requests[x] = requests[y] => x = y
      BY <1>4 DEF SrvState, SrvList
    <3>1. j + 1 = l + 1
      BY ONLY <3>0, <3>a
    <3> QED BY <1>4, <3>1
  <2>3. \A j \in 2..(n - 1) : queuedRequest'[requests'[j]]
    <3> TAKE j \in 2..(n - 1)
    <3>1. j \in 1..(n - 1) /\ j + 1 \in 2..n
      BY <1>4
    <3> QED BY <1>1, <1>4, <1>6, <3>1 DEF SrvState, SrvList
  <2>4. ASSUME NEW q \in Server!Numbers, status'[q] \in {"received", "processed"}
        PROVE  \E j \in 1..(n - 1) : requests'[j] = q
    <3>1. q # r /\ status[q] \in {"received", "processed"}
      BY <1>9, <1>10, <2>4
    <3>2. PICK j \in 1..n : requests[j] = q
      BY <1>4, <3>1 DEF SrvState, SrvList
    <3>3. j # 1
      BY <1>5, <3>1, <3>2
    <3>4. j - 1 \in 1..(n - 1) /\ (j - 1) + 1 = j
      BY <1>4, <3>2, <3>3
    <3>5. requests'[j - 1] = q
      BY <1>6, <3>2, <3>4
    <3> QED BY <3>4, <3>5
  <2> QED BY <1>6, <2>1, <2>2, <2>3, <2>4 DEF SrvList
<1>12. ASSUME ~firstLine
       PROVE  requests' # <<>> /\ status'[requests'[Len(requests')]] = "received"
  <2>1. status[requests[n]] = "received"
    BY <1>2, <1>4, <1>12 DEF SrvState, SrvLines
  <2>2. n # 1
    BY <1>2, <1>5, <2>1
  <2>3. n - 1 \in 1..(n - 1) /\ (n - 1) + 1 = n /\ n \in 2..n
    BY <1>4, <2>2
  <2>4. requests'[n - 1] = requests[n]
    BY <1>6, <2>3
  <2>5. requests' # <<>>
    BY <1>6, <2>3
  <2> QED BY <1>6, <1>7, <1>9, <2>1, <2>3, <2>4, <2>5
<1>13. ASSUME ~mixed
       PROVE  requests' = <<>> /\ \A q \in Server!Numbers : status'[q] # "processed"
  <2>1. n = 1
    BY <1>4, <1>13 DEF SrvRest, SrvTurn
  <2>2. requests' = <<>>
    BY <1>6, <2>1
  <2>3. \A q \in Server!Numbers : status'[q] \in {"received", "processed"} =>
           \E j \in 1..(n - 1) : requests'[j] = q
    BY <1>6, <1>11 DEF SrvList
  <2>4. 1..(n - 1) = {}
    BY <2>1
  <2> QED BY <2>2, <2>3, <2>4
<1> QED BY <1>6, <1>11, <1>12, <1>13

LEMMA SrvCleanup ==
    ASSUME SrvInvariant, NEW r \in Server!Numbers, Server!Finish(r), ~queuedRequest[r]
    PROVE  SrvInvariant'
<1> USE DEF SrvInvariant
<1>1. PICK k \in Nat :
         /\ Server!Cleanup(r, k)
         /\ netFull' \in BOOLEAN /\ waitingForTransport' \in BOOLEAN /\ doubled' \in BOOLEAN
         /\ Server!PausesAfter(k) \in Nat
         /\ (waitingForTransport' /\ netProducer) => netFull'
         /\ (Server!PausesAfter(k) > 0 /\ netProducer /\ ~doubled') =>
               waitingForTransport' /\ Server!PausesAfter(k) = 1
         /\ Server!ReadingAfter(k) \in BOOLEAN
         /\ (net = "open" /\ ~Server!ReadingAfter(k)) => handlingRequest \/ waitingForTransport'
  BY SrvFinishes
<1>2. /\ status[r] = "processed" /\ net # "lost"
      /\ status' = [status EXCEPT ![r] = "finished"]
      /\ status' \in [Server!Numbers -> {"new", "received", "processed", "finished", "told"}]
      /\ startedWriting' \in [Server!Numbers -> BOOLEAN]
      /\ SrvNumbering'
      /\ mixed' \in BOOLEAN /\ (~mixed' => ~mixed /\ (persistent => extra = <<>>))
      /\ UNCHANGED <<lastSent, firstLine, inApp, extra, persistent, dropping, savedTimeOut,
                     abortingCall, abortCalls, queuedRequest, writes>>
  BY SrvFinished
<1>3. /\ requests' \in Seq(Server!Numbers) /\ SrvList'
      /\ ~firstLine => requests' # <<>> /\ status'[requests'[Len(requests')]] = "received"
      /\ ~mixed => requests' = <<>> /\ \A q \in Server!Numbers : status'[q] # "processed"
  BY SrvLeaves
<1>4. /\ pauses' \in Nat /\ respProducer' \in {"none", "push", "pull"}
      /\ (pauses' > 0 /\ netProducer /\ ~doubled') => waitingForTransport' /\ pauses' = 1
  <2>1. CASE respOwner = r
    <3>1. pauses' = 0 /\ respProducer' = "none"
      BY <1>1, <2>1 DEF Server!Cleanup, Server!Unregistered
    <3> QED BY <3>1
  <2>2. CASE respOwner # r
    <3>1. pauses' = Server!PausesAfter(k) /\ respProducer' = respProducer
      BY <1>1, <2>2 DEF Server!Cleanup
    <3> QED BY <1>1, <3>1 DEF SrvTypes
  <2> QED BY <2>1, <2>2
<1>5. Server!RequestDone(k)
  BY <1>1 DEF Server!Cleanup
<1>6. ~mixed => ~abortingCall
  BY <1>2 DEF SrvRest, SrvTurn, Server!Handled
<1>7. CASE persistent
  <2>1. Server!ReceiveBuffered /\ Server!ResumeReading(k) /\ UNCHANGED <<net, netProducer>>
    BY <1>5, <1>7 DEF Server!RequestDone
  <2>2. /\ handlingRequest' = FALSE /\ dataBuffer' = <<>> /\ lineMode' = TRUE
        /\ timeOut' \in BOOLEAN /\ (timeOut' <=> timeOut \/ savedTimeOut)
        /\ idleCall' \in BOOLEAN /\ (idleCall' <=> idleCall \/ savedTimeOut)
        /\ lineBuffer' = IF dropping THEN lineBuffer ELSE lineBuffer \o dataBuffer
        /\ busy' \in BOOLEAN /\ (busy' <=> busy \/ (dataBuffer # <<>> /\ ~dropping))
    BY <2>1 DEF Server!ReceiveBuffered, Server!RestoreTimeout, SrvTypes, SrvFlags
  <2>3. /\ netReading' \in BOOLEAN
        /\ (net = "open" /\ ~netReading') => waitingForTransport'
    BY <1>1, <2>1 DEF Server!ResumeReading
  <2>4. /\ lineBuffer' \in Seq(SrvParts)
        /\ (lineBuffer = <<>> /\ (dataBuffer = <<>> \/ dropping)) => lineBuffer' = <<>>
    <3>1. CASE dropping
      BY <2>2, <3>1 DEF SrvTypes
    <3>2. CASE ~dropping
      BY <2>2, <3>2, SrvConcat DEF SrvTypes
    <3> QED BY <3>1, <3>2
  <2>5. SrvTypes'
    <3>0. handlingRequest' \in BOOLEAN /\ lineMode' \in BOOLEAN /\ <<>> \in Seq(SrvParts)
      <4>1. <<>> \in Seq(SrvParts)
        OBVIOUS
      <4> QED BY <2>2, <4>1
    <3>1. SrvFlags'
      BY <1>1, <1>2, <2>1, <2>2, <2>3, <3>0 DEF SrvTypes, SrvFlags
    <3> QED BY <1>2, <1>3, <1>4, <2>1, <2>2, <2>4, <3>0, <3>1 DEF SrvTypes
  <2>6. SrvLines'
    BY <1>2, <1>3, <2>1, <2>2, <2>4 DEF SrvState, SrvLines
  <2>7. SrvTimes' /\ SrvReads' /\ SrvPress' /\ SrvLost'
    BY <1>1, <1>2, <1>4, <2>1, <2>2, <2>3 DEF SrvRest, SrvTimes, SrvReads, SrvPress, SrvLost
  <2>8. SrvTurn'
    <3> SUFFICES ASSUME ~mixed, extra = <<>> PROVE SrvTurn'
      BY <1>2, <1>7 DEF SrvTurn
    <3>1. requests' = <<>> /\ Len(requests') = 0
      BY <1>3
    <3>2. net = "open" => idleCall'
      BY <2>2 DEF SrvRest, SrvTimes
    <3> QED BY <1>2, <1>3, <1>6, <2>1, <2>2, <3>1, <3>2 DEF SrvRest, SrvTurn, Server!Handled
  <2> QED BY <1>2, <1>3, <2>5, <2>6, <2>7, <2>8 DEF SrvState, SrvRest
<1>8. CASE ~persistent
  <2>1. /\ Server!LoseConnection
        /\ UNCHANGED <<handlingRequest, timeOut, idleCall, dataBuffer, lineMode, lineBuffer, busy>>
    BY <1>5, <1>8 DEF Server!RequestDone
  <2>2. netProducer' = FALSE /\ netReading' = FALSE /\ net' = "losing"
    BY <1>2, <2>1, SrvLoses
  <2>3. SrvTypes'
    <3>0. netProducer' \in BOOLEAN /\ netReading' \in BOOLEAN
      BY <2>2
    <3>1. SrvFlags'
      BY <1>1, <1>2, <2>1, <3>0 DEF SrvTypes, SrvFlags
    <3> QED BY <1>2, <1>3, <1>4, <2>1, <2>2, <3>1 DEF SrvTypes
  <2>4. SrvLines'
    BY <1>2, <1>3, <2>1, <2>2 DEF SrvState, SrvLines
  <2>5. SrvTimes' /\ SrvReads' /\ SrvPress' /\ SrvLost'
    BY <2>1, <2>2 DEF SrvRest, SrvTimes, SrvReads, SrvPress, SrvLost
  <2>6. SrvTurn'
    <3> SUFFICES ASSUME ~mixed PROVE SrvTurn'
      BY <1>2 DEF SrvTurn
    <3>1. requests' = <<>> /\ Len(requests') = 0
      BY <1>3
    <3> QED BY <1>2, <1>3, <1>6, <2>1, <2>2, <3>1 DEF SrvRest, SrvTurn, Server!Handled
  <2> QED BY <1>2, <1>3, <2>3, <2>4, <2>5, <2>6 DEF SrvState, SrvRest
<1> QED BY <1>7, <1>8

-------------------------------------------------------------------------------
LEMMA SrvParseSteps == ASSUME SrvInvariant, Server!Parse PROVE SrvInvariant'
<1>1. CASE Server!RequestLine
  BY <1>1, SrvRequestLine
<1>2. CASE Server!BadRequestLine \/ Server!BadHeaders \/ Server!BadBody
  BY <1>2, SrvBadSteps
<1>3. CASE Server!LineTooLong \/ Server!IgnoreRest \/ Server!LoopEnds \/ Server!ProcessReturns
  BY <1>3, SrvOtherLines
<1>4. CASE Server!EndOfHeaders
  BY <1>4, SrvEndOfHeaders
<1>5. CASE Server!BodyFollows
  BY <1>5, SrvBodyFollows
<1>6. CASE Server!Body
  BY <1>6, SrvBody
<1> QED BY <1>1, <1>2, <1>3, <1>4, <1>5, <1>6 DEF Server!Parse

LEMMA SrvAppSteps == ASSUME SrvInvariant, Server!App PROVE SrvInvariant'
<1>1. PICK r \in Server!Numbers :
         \/ Server!Write(r) \/ Server!UnregisterProducer(r) \/ Server!Finish(r) \/ Server!Lose(r)
         \/ \E k \in {"push", "pull"} : Server!RegisterProducer(r, k)
  BY DEF Server!App
<1>2. CASE Server!Write(r)
  BY <1>2, SrvWrite
<1>3. CASE Server!UnregisterProducer(r)
  BY <1>3, SrvProducer
<1>4. CASE Server!Finish(r)
  BY <1>4, SrvFinishQueued, SrvCleanup
<1>5. CASE Server!Lose(r)
  BY <1>5, SrvCloses
<1>6. CASE \E k \in {"push", "pull"} : Server!RegisterProducer(r, k)
  BY <1>6, SrvProducer
<1> QED BY <1>1, <1>2, <1>3, <1>4, <1>5, <1>6

LEMMA SrvUnchanged == ASSUME SrvInvariant, UNCHANGED Server!httpdVars PROVE SrvInvariant'
<1>1. UNCHANGED <<net, netReading, netFull, netProducer, lastSent, lineBuffer, lineMode, busy,
                  firstLine, inApp, extra, requests, handlingRequest, dataBuffer, persistent,
                  dropping, waitingForTransport, timeOut, idleCall, savedTimeOut, abortingCall,
                  abortCalls, status, queuedRequest, startedWriting, respProducer, pauses, mixed,
                  doubled>>
  BY DEF Server!httpdVars, Server!netVars, Server!lineVars, Server!channelVars, Server!timeVars,
     Server!requestVars, Server!respVars
<1>2. SrvTypes'
  <2>1. SrvFlags'
    BY <1>1 DEF SrvInvariant, SrvTypes, SrvFlags
  <2> QED BY <1>1, <2>1 DEF SrvInvariant, SrvTypes
<1>3. SrvState'
  BY <1>1 DEF SrvInvariant, SrvState, SrvNumbering, SrvList, SrvLines
<1>4. SrvRest'
  BY <1>1 DEF SrvInvariant, SrvRest, SrvTimes, SrvReads, SrvPress, SrvLost, SrvTurn, Server!Handled
<1> QED BY <1>2, <1>3, <1>4 DEF SrvInvariant

LEMMA SrvStep == SrvInvariant /\ [Server!Next]_(Server!httpdVars) => SrvInvariant'
<1> SUFFICES ASSUME SrvInvariant, [Server!Next]_(Server!httpdVars) PROVE SrvInvariant'
  OBVIOUS
<1>1. CASE Server!ClientSends
  BY <1>1, SrvClientSends
<1>2. CASE Server!Parse
  BY <1>2, SrvParseSteps
<1>3. CASE Server!App
  BY <1>3, SrvAppSteps
<1>4. CASE Server!Drained
  BY <1>4, SrvDrained
<1>5. CASE Server!TimesOut \/ Server!ForceAbort
  BY <1>5, SrvCloses
<1>6. CASE Server!TransportEnds
  BY <1>6, SrvTransportEnds
<1>7. CASE UNCHANGED Server!httpdVars
  BY <1>7, SrvUnchanged
<1> QED BY <1>1, <1>2, <1>3, <1>4, <1>5, <1>6, <1>7 DEF Server!Next

\* Requests are in the list, which holds at most one.
LEMMA SrvOneAtATime == ASSUME SrvInvariant, ~mixed PROVE Server!OneAtATime
<1> USE DEF SrvInvariant
<1> DEFINE H == {r \in Server!Numbers : Server!Handled(r)}
<1>1. PICK n \in Nat : n = Len(requests) /\ n <= 1
  BY DEF SrvTypes, SrvRest, SrvTurn
<1>2. H \subseteq {requests[1]}
  <2> SUFFICES ASSUME NEW r \in H PROVE r = requests[1]
    OBVIOUS
  <2>1. \E i \in 1..Len(requests) : requests[i] = r
    BY DEF SrvState, SrvList, Server!Handled
  <2>2. \A i \in 1..n : i = 1
    BY <1>1
  <2> QED BY <1>1, <2>1, <2>2
<1>3. IsFiniteSet({requests[1]}) /\ Cardinality({requests[1]}) = 1
  BY FS_Singleton
<1>4. Cardinality(H) <= Cardinality({requests[1]})
  BY <1>2, <1>3, FS_Subset
<1>5. Server!Cardinality(H) = Cardinality(H)
  BY SrvCardinality
<1> QED BY <1>3, <1>4, <1>5 DEF Server!OneAtATime

LEMMA SrvImplies == SrvInvariant => ServerIsSound
<1> SUFFICES ASSUME SrvInvariant PROVE ServerIsSound
  OBVIOUS
<1> USE DEF SrvInvariant
<1>1. mixed \/ Server!HandlesInTurn
  <2> SUFFICES ASSUME ~mixed PROVE Server!HandlesInTurn
    OBVIOUS
  <2>1. Server!OneAtATime
    BY SrvOneAtATime
  <2>2. ASSUME ~busy, net = "open", handlingRequest PROVE \E r \in Server!Numbers : Server!Handled(r)
    <3>1. requests # <<>> /\ Server!Handled(requests[1])
      BY <2>2 DEF SrvRest, SrvTurn
    <3>2. requests[1] \in Server!Numbers
      BY <3>1 DEF SrvTypes
    <3> QED BY <3>1, <3>2
  <2>3. ASSUME NEW r \in Server!Numbers, Server!Handled(r) PROVE handlingRequest
    BY <2>3 DEF SrvRest, SrvTurn
  <2>4. ASSUME ~busy, net = "open", ~handlingRequest
        PROVE  dataBuffer = <<>> /\ lineBuffer = <<>> /\ idleCall
    BY <2>4 DEF SrvState, SrvLines, SrvRest, SrvTurn
  <2> QED BY <2>1, <2>2, <2>3, <2>4 DEF Server!HandlesInTurn, Server!InReactor
<1>2. (Server!InReactor /\ net = "open" /\ ~netReading) => handlingRequest \/ waitingForTransport
  BY DEF SrvRest, SrvReads
<1>3. /\ (waitingForTransport /\ netProducer /\ net # "lost") => netFull
      /\ (pauses > 0 /\ netProducer /\ ~doubled) => waitingForTransport
  BY DEF SrvRest, SrvPress
<1>4. net = "lost" =>
          /\ \A r \in Server!Numbers : status[r] \notin {"received", "processed"}
          /\ ~idleCall /\ (mixed \/ abortCalls = 0)
  <2> SUFFICES ASSUME net = "lost"
               PROVE  /\ \A r \in Server!Numbers : status[r] \notin {"received", "processed"}
                      /\ ~idleCall /\ (mixed \/ abortCalls = 0)
    OBVIOUS
  <2> QED BY DEF SrvRest, SrvLost, SrvTurn
<1> QED BY <1>1, <1>2, <1>3, <1>4 DEF ServerIsSound, Server!ServerIsSound

(***************************************************************************)
(* In whatever order data, responses, back-pressure, timeouts and the end  *)
(* of the connection reach HTTPChannel: it does not stop reading unless a  *)
(* request is being handled or the transport is full, it waits for the     *)
(* transport only while that is full, pauses no producer that is not       *)
(* resumed, handles requests in turn unless two were at hand at once, and  *)
(* leaves neither a request nor a timer behind when the connection ends.   *)
(***************************************************************************)
THEOREM ServerIsAlwaysSound == Server!Spec => []ServerIsSound
<1>1. Server!Spec => []SrvInvariant
  BY SrvInit, SrvStep, PTL DEF Server!Spec
<1> QED BY <1>1, SrvImplies, PTL
===============================================================================
