------------------------ MODULE DeferredSemaphoreProofs ------------------------
(***************************************************************************)
(* DeferredSemaphore keeps its tokens, for any limit and any finite set of *)
(* users.  The inductive invariant adds that nobody is in the list twice,  *)
(* or in the list and a holder: without it, passing a token on might not   *)
(* make a new holder.                                                      *)
(***************************************************************************)
EXTENDS DeferredSemaphore, SequenceTheorems, FiniteSetTheorems, TLAPS

Distinct ==
    /\ \A i, j \in 1..Len(waiting) : waiting[i] = waiting[j] => i = j
    /\ \A i \in 1..Len(waiting) : waiting[i] \notin holders

IInv == TypeOK /\ TokensAreConserved /\ NoIdleToken /\ Distinct

LEMMA Removal ==
    ASSUME NEW S, NEW s \in Seq(S), NEW i \in 1..Len(s)
    PROVE  LET r == SubSeq(s, 1, i - 1) \o SubSeq(s, i + 1, Len(s))
           IN  /\ r \in Seq(S)
               /\ Len(r) = Len(s) - 1
               /\ \A k \in 1..Len(s) - 1 : r[k] = IF k < i THEN s[k] ELSE s[k + 1]
<1> DEFINE a == SubSeq(s, 1, i - 1)
           b == SubSeq(s, i + 1, Len(s))
           r == a \o b
<1>1. a \in Seq(S) /\ Len(a) = i - 1 /\ \A k \in 1..i - 1 : a[k] = s[k]
  BY SubSeqProperties
<1>2. b \in Seq(S) /\ Len(b) = Len(s) - i
  BY SubSeqProperties
<1>3. \A k \in 1..Len(s) - i : b[k] = s[k + i]
  BY SubSeqProperties
<1> HIDE DEF a, b
<1>4. /\ r \in Seq(S) /\ Len(r) = Len(a) + Len(b)
      /\ \A k \in 1..Len(a) + Len(b) : r[k] = IF k <= Len(a) THEN a[k] ELSE b[k - Len(a)]
  BY <1>1, <1>2, ConcatProperties
<1> HIDE DEF r
<1>5. Len(r) = Len(s) - 1
  BY <1>1, <1>2, <1>4
<1>6. ASSUME NEW k \in 1..Len(s) - 1 PROVE r[k] = IF k < i THEN s[k] ELSE s[k + 1]
  <2>1. k \in 1..Len(a) + Len(b)
    BY <1>1, <1>2
  <2>2. CASE k < i
    <3>1. r[k] = a[k]
      BY <1>1, <1>4, <2>1, <2>2
    <3> QED BY <1>1, <2>2, <3>1
  <2>3. CASE ~(k < i)
    <3>1. r[k] = b[k - (i - 1)]
      BY <1>1, <1>4, <2>1, <2>3
    <3>2. k - (i - 1) \in 1..Len(s) - i /\ (k - (i - 1)) + i = k + 1
      BY <2>3
    <3>3. b[k - (i - 1)] = s[(k - (i - 1)) + i]
      BY <1>3, <3>2
    <3> QED BY <2>3, <3>1, <3>2, <3>3
  <2> QED BY <2>2, <2>3
<1> QED BY <1>4, <1>5, <1>6 DEF r, a, b

LEMMA Cancelled ==
    ASSUME waiting \in Seq(Users), NEW u \in Users, CancelAcquire(u)
    PROVE  \E i \in 1..Len(waiting) :
              waiting' = SubSeq(waiting, 1, i - 1) \o SubSeq(waiting, i + 1, Len(waiting))
<1> DEFINE i == CHOOSE j \in DOMAIN waiting : waiting[j] = u
<1>1. \E j \in DOMAIN waiting : waiting[j] = u
  BY DEF CancelAcquire, Queued
<1>2. i \in DOMAIN waiting
  BY <1>1
<1>3. waiting' = SubSeq(waiting, 1, i - 1) \o SubSeq(waiting, i + 1, Len(waiting))
  BY DEF CancelAcquire, Without
<1>4. DOMAIN waiting = 1..Len(waiting)
  OBVIOUS
<1> HIDE DEF i
<1> QED BY <1>2, <1>3, <1>4

LEMMA Initially == Init => IInv
<1> SUFFICES ASSUME Init PROVE IInv
  OBVIOUS
<1> USE SemaphoreAssumption DEF Init
<1>1. TypeOK
  BY DEF TypeOK
<1>2. TokensAreConserved
  BY FS_EmptySet DEF TokensAreConserved
<1>3. NoIdleToken /\ Distinct
  BY DEF NoIdleToken, Distinct
<1> QED BY <1>1, <1>2, <1>3 DEF IInv

(***************************************************************************)
(* acquire() on a free semaphore: one token becomes one more holder.       *)
(***************************************************************************)
LEMMA AcquireKeeps ==
    ASSUME IInv, NEW u \in Users, Acquire(u)
    PROVE  IInv'
<1> USE SemaphoreAssumption DEF IInv, TypeOK
<1>1. CASE tokens = 0
  <2>1. waiting' = Append(waiting, u) /\ tokens' = tokens /\ holders' = holders
    BY <1>1 DEF Acquire
  <2>2. TypeOK' /\ TokensAreConserved' /\ NoIdleToken'
    BY <1>1, <2>1 DEF TokensAreConserved, NoIdleToken
  <2>3. u \notin holders /\ \A i \in 1..Len(waiting) : waiting[i] # u
    BY DEF Acquire, Queued
  <2>4. Distinct'
    BY <2>1, <2>3 DEF Distinct
  <2> QED BY <2>2, <2>4
<1>2. CASE tokens # 0
  <2>1. waiting' = waiting /\ tokens' = tokens - 1 /\ holders' = holders \cup {u}
    BY <1>2 DEF Acquire
  <2>2. u \notin holders /\ \A i \in 1..Len(waiting) : waiting[i] # u
    BY DEF Acquire, Queued
  <2>3. IsFiniteSet(holders)
    BY FS_Subset
  <2>4. Cardinality(holders') = Cardinality(holders) + 1 /\ Cardinality(holders) \in Nat
    BY <2>1, <2>2, <2>3, FS_AddElement, FS_CardinalityType
  <2>5. TokensAreConserved'
    BY <1>2, <2>1, <2>4 DEF TokensAreConserved
  <2>6. TypeOK' /\ NoIdleToken' /\ Distinct'
    BY <1>2, <2>1, <2>2 DEF NoIdleToken, Distinct
  <2> QED BY <2>5, <2>6
<1> QED BY <1>1, <1>2

(***************************************************************************)
(* release(): a holder becomes one more token, or hands it to the first    *)
(* who waits.                                                              *)
(***************************************************************************)
LEMMA ReleaseKeeps ==
    ASSUME IInv, NEW u \in Users, Release(u)
    PROVE  IInv'
<1> USE SemaphoreAssumption DEF IInv, TypeOK
<1>1. IsFiniteSet(holders) /\ u \in holders
  BY FS_Subset DEF Release
<1>2. IsFiniteSet(holders \ {u}) /\ Cardinality(holders \ {u}) = Cardinality(holders) - 1
      /\ Cardinality(holders) \in Nat
  BY <1>1, FS_RemoveElement, FS_CardinalityType
<1>3. CASE waiting = <<>>
  <2>1. waiting' = waiting /\ tokens' = tokens + 1 /\ holders' = holders \ {u} /\ tokens < Limit
    BY <1>3 DEF Release, Hand, GiveBack
  <2>2. TokensAreConserved'
    BY <1>2, <2>1 DEF TokensAreConserved
  <2>3. TypeOK' /\ NoIdleToken' /\ Distinct'
    BY <1>3, <2>1 DEF NoIdleToken, Distinct
  <2> QED BY <2>2, <2>3
<1>4. CASE waiting # <<>>
  <2> DEFINE h == Head(waiting)
  <2>1. waiting' = Tail(waiting) /\ tokens' = tokens /\ holders' = (holders \ {u}) \cup {h}
    BY <1>4 DEF Release, Hand, PassOn
  <2>2. h = waiting[1] /\ 1 \in 1..Len(waiting) /\ h \in Users /\ h \notin holders
    BY <1>4 DEF Distinct
  <2>3. Cardinality(holders') = Cardinality(holders)
    <3>1. h \notin holders \ {u}
      BY <2>2
    <3>2. Cardinality((holders \ {u}) \cup {h}) = Cardinality(holders \ {u}) + 1
      BY <1>2, <3>1, FS_AddElement
    <3> QED BY <1>2, <2>1, <3>2
  <2>4. TokensAreConserved'
    BY <2>1, <2>3 DEF TokensAreConserved
  <2>5. waiting' \in Seq(Users) /\ Len(waiting') = Len(waiting) - 1
        /\ \A i \in 1..Len(waiting') : waiting'[i] = waiting[i + 1]
    BY <1>4, <2>1, HeadTailProperties
  <2>6. Distinct'
    <3>1. ASSUME NEW i \in 1..Len(waiting') PROVE waiting'[i] \notin holders'
      BY <2>1, <2>2, <2>5, <3>1 DEF Distinct
    <3>2. ASSUME NEW i \in 1..Len(waiting'), NEW j \in 1..Len(waiting'), waiting'[i] = waiting'[j]
          PROVE i = j
      BY <2>5, <3>2 DEF Distinct
    <3> QED BY <3>1, <3>2 DEF Distinct
  <2>7. TypeOK' /\ NoIdleToken'
    BY <1>4, <2>1, <2>2, <2>5 DEF NoIdleToken
  <2> QED BY <2>4, <2>6, <2>7
<1> QED BY <1>3, <1>4

(***************************************************************************)
(* _cancelAcquire: the list loses one entry and keeps its order.           *)
(***************************************************************************)
LEMMA CancelKeeps ==
    ASSUME IInv, NEW u \in Users, CancelAcquire(u)
    PROVE  IInv'
<1> USE DEF IInv, TypeOK
<1>1. PICK i \in 1..Len(waiting) :
          waiting' = SubSeq(waiting, 1, i - 1) \o SubSeq(waiting, i + 1, Len(waiting))
  BY Cancelled
<1>2. waiting \in Seq(Users)
  OBVIOUS
<1>3. /\ waiting' \in Seq(Users) /\ Len(waiting') = Len(waiting) - 1
      /\ \A k \in 1..Len(waiting) - 1 : waiting'[k] = IF k < i THEN waiting[k] ELSE waiting[k + 1]
  BY <1>1, <1>2, Removal
<1>4. tokens' = tokens /\ holders' = holders
  BY DEF CancelAcquire
<1>5. waiting # <<>>
  BY <1>1, <1>2
<1>6. TypeOK' /\ TokensAreConserved' /\ NoIdleToken'
  BY <1>3, <1>4, <1>5 DEF TokensAreConserved, NoIdleToken
<1>7. Distinct'
  <2>1. ASSUME NEW j \in 1..Len(waiting') PROVE waiting'[j] \notin holders'
    BY <1>2, <1>3, <1>4 DEF Distinct
  <2>2. ASSUME NEW j \in 1..Len(waiting'), NEW k \in 1..Len(waiting'), waiting'[j] = waiting'[k]
        PROVE j = k
    <3> DEFINE Old(m) == IF m < i THEN m ELSE m + 1
    <3>1. Old(j) \in 1..Len(waiting) /\ Old(k) \in 1..Len(waiting)
      BY <1>2, <1>3
    <3>2. waiting[Old(j)] = waiting[Old(k)]
      BY <1>2, <1>3, <2>2
    <3>3. Old(j) = Old(k)
      BY <3>1, <3>2 DEF Distinct
    <3> QED BY <1>2, <1>3, <3>3
  <2> QED BY <2>1, <2>2 DEF Distinct
<1> QED BY <1>6, <1>7

LEMMA Step == IInv /\ [Next]_vars => IInv'
<1> SUFFICES ASSUME IInv, [Next]_vars PROVE IInv'
  OBVIOUS
<1>1. CASE Next
  BY <1>1, AcquireKeeps, ReleaseKeeps, CancelKeeps DEF Next
<1>2. CASE UNCHANGED vars
  BY <1>2 DEF vars, IInv, TypeOK, TokensAreConserved, NoIdleToken, Distinct
<1> QED BY <1>1, <1>2

LEMMA Invariant == Safety => []IInv
BY Initially, Step, PTL DEF Safety

(***************************************************************************)
(* No order of acquisitions, releases and cancellations loses or invents a *)
(* token.                                                                  *)
(***************************************************************************)
THEOREM Tokens == Safety => []TokensAreConserved
<1>1. IInv => TokensAreConserved
  BY DEF IInv
<1> QED BY Invariant, <1>1, PTL

(***************************************************************************)
(* Nobody waits for a token that is free.                                  *)
(***************************************************************************)
THEOREM IdleTokens == Safety => []NoIdleToken
<1>1. IInv => NoIdleToken
  BY DEF IInv
<1> QED BY Invariant, <1>1, PTL

(***************************************************************************)
(* Every token is with a holder or free, and none is free while somebody   *)
(* waits: what acquire, release and the canceller keep between them.       *)
(***************************************************************************)
THEOREM TokensInUse == Safety => []TokensAreUsed
<1>1. TokensAreConserved /\ NoIdleToken => TokensAreUsed
  BY DEF TokensAreUsed
<1> QED BY Tokens, IdleTokens, <1>1, PTL

(***************************************************************************)
(* Users get their tokens first come, first served.                        *)
(***************************************************************************)
THEOREM Turns == Safety => NoOvertaking
<1> DEFINE Turn == \A u \in Users : u \in holders' /\ u \notin holders =>
                        waiting = <<>> \/ u = waiting[1]
<1>1. ASSUME IInv, Next, NEW u \in Users, u \in holders', u \notin holders, waiting # <<>>
      PROVE  u = waiting[1]
  <2> USE SemaphoreAssumption DEF IInv, TypeOK
  <2>1. ASSUME NEW v \in Users, Acquire(v) PROVE FALSE
    BY <1>1, <2>1 DEF Acquire, NoIdleToken
  <2>2. ASSUME NEW v \in Users, Release(v) PROVE u = waiting[1]
    BY <1>1, <2>2 DEF Release, Hand, PassOn
  <2>3. ASSUME NEW v \in Users, CancelAcquire(v) PROVE FALSE
    BY <1>1, <2>3 DEF CancelAcquire
  <2> QED BY <1>1, <2>1, <2>2, <2>3 DEF Next
<1>2. IInv /\ [Next]_vars => [Turn]_vars
  BY <1>1 DEF vars
<1> QED BY Invariant, <1>2, PTL DEF Safety, NoOvertaking
===============================================================================
