-------------------------- MODULE ThreadCallsProofs --------------------------
(***************************************************************************)
(* Proofs about ThreadCalls: whatever the number of threads and calls, no  *)
(* wakeup is lost and the calls are run in the order of the queue.         *)
(***************************************************************************)
EXTENDS ThreadCalls, TLAPS

(***************************************************************************)
(* The part of the queue that runUntilCurrent has run and not yet deleted. *)
(***************************************************************************)
Done == IF pc = "loop" THEN count ELSE IF pc = "call" THEN count + 1 ELSE 0

Counts ==
    /\ pc \in {"loop", "call"} => count <= total /\ total <= Len(queue)
    /\ pc = "call" => count < total

(***************************************************************************)
(* Calls that the reactor will not look at before its next sleep have a    *)
(* byte in the pipe, or a thread about to write one.                       *)
(***************************************************************************)
Covered == pipe > 0 \/ writing # {}

Wakeups ==
    /\ pc \in {"loop", "call"} /\ Len(queue) > total => Covered
    /\ pc \in {"left", "poll"} /\ queue # <<>> => Covered

(***************************************************************************)
(* What was queued is what was run followed by what is left.               *)
(***************************************************************************)
Order ==
    /\ Done <= Len(made) /\ Done <= Len(queue)
    /\ Len(queued) = Len(made) - Done + Len(queue)
    /\ \A i \in 1..Len(made) : made[i] = queued[i]
    /\ \A i \in 1..Len(queue) : queue[i] = queued[Len(made) - Done + i]

IInv == TypeOK /\ Counts /\ Wakeups /\ Order

LEMMA InitInv == Init => IInv
<1> SUFFICES ASSUME Init PROVE IInv
  OBVIOUS
<1>a. Capacity \in Nat
  BY ThreadCallsAssumption DEF ThreadCallsAssumption
<1>b. pipe \in 0..Capacity
  BY <1>a DEF Init
<1>c. queue \in Seq(Calls) /\ queued \in Seq(Calls) /\ made \in Seq(Calls)
      /\ count \in Nat /\ total \in Nat
  BY DEF Init
<1>d. /\ pc \in {"run", "loop", "call", "left", "poll", "read"}
      /\ writing \in SUBSET Threads /\ ready \in BOOLEAN
  BY Zenon DEF Init
<1>1. TypeOK
  BY <1>b, <1>c, <1>d, Zenon DEF TypeOK
<1>2. Counts /\ Wakeups
  BY DEF Init, Counts, Wakeups
<1>3. Done = 0
  BY DEF Init, Done
<1>4. Order
  BY <1>3 DEF Init, Order
<1>5. QED BY <1>1, <1>2, <1>4 DEF IInv

(***************************************************************************)
(* The pipe is never overfull, and not empty after a write.                *)
(***************************************************************************)
LEMMA WakeUpFills ==
    ASSUME pipe \in 0..Capacity, WakeUp
    PROVE  pipe' \in 0..Capacity /\ pipe' > 0
BY ThreadCallsAssumption DEF ThreadCallsAssumption, WakeUp

(***************************************************************************)
(* One more call at the end of the queue keeps the order.                  *)
(***************************************************************************)
LEMMA AppendKeepsOrder ==
    ASSUME TypeOK, Order, NEW c \in Calls, AppendCall(c),
           made' = made, Done' = Done, Done \in Nat
    PROVE  Order' /\ queue' \in Seq(Calls) /\ queued' \in Seq(Calls)
           /\ Len(queue') = Len(queue) + 1
<1> USE DEF TypeOK
<1>1. /\ Len(queue') = Len(queue) + 1 /\ Len(queued') = Len(queued) + 1
      /\ queue' \in Seq(Calls) /\ queued' \in Seq(Calls)
      /\ \A i \in 1..Len(queue) : queue'[i] = queue[i]
      /\ \A i \in 1..Len(queued) : queued'[i] = queued[i]
      /\ queue'[Len(queue) + 1] = c /\ queued'[Len(queued) + 1] = c
  BY DEF AppendCall
<1>2. Len(made) \in Nat /\ Len(queue) \in Nat /\ Len(queued) \in Nat
  OBVIOUS
<1>3. \A i \in 1..Len(made) : made'[i] = queued'[i]
  <2>1. Len(made) <= Len(queued)
    BY <1>2 DEF Order
  <2>2. \A i \in 1..Len(made) : i \in 1..Len(queued) /\ made[i] = queued[i]
    BY <1>2, <2>1 DEF Order
  <2>3. \A i \in 1..Len(made) : made[i] = queued'[i]
    BY <1>1, <2>2
  <2>4. QED BY <2>3
<1>4. \A i \in 1..Len(queue') : queue'[i] = queued'[Len(made) - Done + i]
  <2>1. TAKE i \in 1..Len(queue')
  <2>2. CASE i \in 1..Len(queue)
    <3>1. queue[i] = queued[Len(made) - Done + i] /\ Len(made) - Done + i \in 1..Len(queued)
      BY <1>2, <2>2 DEF Order
    <3>2. QED BY <1>1, <2>2, <3>1
  <2>3. CASE i = Len(queue) + 1
    BY <1>1, <1>2, <2>3 DEF Order
  <2>4. QED BY <1>1, <1>2, <2>2, <2>3
<1>5. QED BY <1>1, <1>2, <1>3, <1>4 DEF Order

(***************************************************************************)
(* Types, apart from the flag `ready' that SMT is better off without.      *)
(***************************************************************************)
Sorts ==
    /\ queue \in Seq(Calls) /\ queued \in Seq(Calls) /\ made \in Seq(Calls)
    /\ pipe \in 0..Capacity /\ count \in Nat /\ total \in Nat

Rest ==
    /\ writing \in SUBSET Threads /\ ready \in BOOLEAN
    /\ pc \in {"run", "loop", "call", "left", "poll", "read"}

LEMMA TypeParts == TypeOK <=> Sorts /\ Rest
BY Zenon DEF TypeOK, Sorts, Rest

LEMMA DoneIsNat == ASSUME TypeOK PROVE Done \in Nat
BY DEF TypeOK, Done

(***************************************************************************)
(* callFromThread, in another thread.                                      *)
(***************************************************************************)
LEMMA CallFromThreadStep ==
    ASSUME IInv, NEW t \in Threads, NEW c \in Calls, CallFromThread(t, c)
    PROVE  IInv'
<1>1. /\ AppendCall(c) /\ writing' = writing \cup {t} /\ pipe' = pipe /\ pc' = pc
      /\ ready' = ready /\ count' = count /\ total' = total /\ made' = made
  BY Zenon DEF CallFromThread
<1>2. Done' = Done
  BY <1>1, Zenon DEF Done
<1>3. TypeOK /\ Order /\ Done \in Nat /\ Sorts /\ Rest
  BY DoneIsNat, TypeParts DEF IInv
<1>4. Order' /\ queue' \in Seq(Calls) /\ queued' \in Seq(Calls) /\ Len(queue') = Len(queue) + 1
  BY <1>1, <1>2, <1>3, AppendKeepsOrder
<1>5. Sorts' /\ Rest'
  <2>1. Sorts'
    BY <1>1, <1>3, <1>4, Zenon DEF Sorts
  <2>2. Rest'
    BY <1>1, <1>3, Zenon DEF Rest
  <2>3. QED BY <2>1, <2>2
<1>6. Covered'
  BY <1>1, Zenon DEF Covered
<1>7. Wakeups'
  BY <1>6, Zenon DEF Wakeups
<1>8. Counts'
  BY <1>1, <1>3, <1>4 DEF Counts, IInv, Sorts
<1>9. TypeOK'
  BY <1>5, Zenon DEF TypeOK, Sorts, Rest
<1>10. QED BY <1>4, <1>7, <1>8, <1>9 DEF IInv

(***************************************************************************)
(* The write that follows.                                                 *)
(***************************************************************************)
LEMMA WriteStep ==
    ASSUME IInv, NEW t \in Threads, Write(t)
    PROVE  IInv'
<1>1. /\ WakeUp /\ writing' = writing \ {t} /\ queue' = queue /\ pc' = pc
      /\ ready' = ready /\ count' = count /\ total' = total
      /\ queued' = queued /\ made' = made
  BY Zenon DEF Write, WakeReactor
<1>2. Sorts /\ Rest
  BY TypeParts DEF IInv
<1>3. pipe' \in 0..Capacity /\ pipe' > 0
  BY <1>1, <1>2, WakeUpFills DEF Sorts
<1>4. Covered'
  BY <1>3, Zenon DEF Covered
<1>5. Sorts' /\ Rest'
  BY <1>1, <1>2, <1>3, Zenon DEF Sorts, Rest
<1>6. TypeOK'
  BY <1>5, Zenon DEF TypeOK, Sorts, Rest
<1>7. Wakeups'
  BY <1>4, Zenon DEF Wakeups
<1>8. Counts' /\ Order'
  BY <1>1, Zenon DEF Counts, Order, Done, IInv
<1>9. QED BY <1>6, <1>7, <1>8 DEF IInv

(***************************************************************************)
(* The start of runUntilCurrent: every call that is there will be run.     *)
(***************************************************************************)
LEMMA RunStep ==
    ASSUME IInv, RunUntilCurrent
    PROVE  IInv'
<1>1. /\ pc = "run" /\ count' = 0 /\ total' = Len(queue)
      /\ pc' = (IF queue = <<>> THEN "poll" ELSE "loop")
      /\ queue' = queue /\ pipe' = pipe /\ writing' = writing /\ ready' = ready
      /\ queued' = queued /\ made' = made
  BY Zenon DEF RunUntilCurrent, Goto
<1>2. Sorts /\ Rest /\ Order
  BY TypeParts DEF IInv
<1>3. Len(queue) \in Nat
  BY <1>2 DEF Sorts
<1>4. Sorts' /\ Rest'
  <2>1. Sorts'
    BY <1>1, <1>2, <1>3 DEF Sorts
  <2>2. Rest'
    BY <1>1, <1>2, Zenon DEF Rest
  <2>3. QED BY <2>1, <2>2
<1>5. TypeOK'
  BY <1>4, Zenon DEF TypeOK, Sorts, Rest
<1>6. Counts' /\ Wakeups'
  BY <1>1, <1>3 DEF Counts, Wakeups
<1>7. Done = 0 /\ Done' = 0
  BY <1>1 DEF Done
<1>8. Order'
  BY <1>1, <1>2, <1>7, Zenon DEF Order
<1>9. QED BY <1>5, <1>6, <1>8 DEF IInv

(***************************************************************************)
(* The call of queue[count + 1].                                           *)
(***************************************************************************)
LEMMA MakeCallStep ==
    ASSUME IInv, MakeCall
    PROVE  IInv'
<1>1. /\ pc = "loop" /\ count < total /\ made' = Append(made, queue[count + 1])
      /\ pc' = "call" /\ queue' = queue /\ pipe' = pipe /\ writing' = writing
      /\ ready' = ready /\ count' = count /\ total' = total /\ queued' = queued
  BY Zenon DEF MakeCall, Goto
<1>2. Sorts /\ Rest /\ Order /\ Counts /\ Wakeups
  BY TypeParts DEF IInv
<1>3. /\ Len(queue) \in Nat /\ Len(made) \in Nat /\ Len(queued) \in Nat
      /\ count \in Nat /\ total \in Nat /\ total <= Len(queue)
  BY <1>1, <1>2 DEF Sorts, Counts
<1>4. count + 1 \in 1..Len(queue)
  BY <1>1, <1>3
<1>5. queue[count + 1] \in Calls
  BY <1>2, <1>4 DEF Sorts
<1>6. /\ made' \in Seq(Calls) /\ Len(made') = Len(made) + 1
      /\ \A i \in 1..Len(made) : made'[i] = made[i]
      /\ made'[Len(made) + 1] = queue[count + 1]
  BY <1>1, <1>2, <1>5 DEF Sorts
<1>7. Sorts' /\ Rest'
  <2>1. Sorts'
    BY <1>1, <1>2, <1>6, Zenon DEF Sorts
  <2>2. Rest'
    BY <1>1, <1>2, Zenon DEF Rest
  <2>3. QED BY <2>1, <2>2
<1>8. TypeOK'
  BY <1>7, Zenon DEF TypeOK, Sorts, Rest
<1>9. Covered' = Covered
  BY <1>1, Zenon DEF Covered
<1>10. Counts' /\ Wakeups'
  <2>1. Counts'
    BY <1>1, <1>3 DEF Counts
  <2>2. Wakeups'
    BY <1>1, <1>2, <1>9 DEF Wakeups
  <2>3. QED BY <2>1, <2>2
<1>11. Done = count /\ Done' = count + 1
  BY <1>1 DEF Done
<1>12. Order'
  <2>1. /\ count <= Len(made) /\ Len(queued) = Len(made) - count + Len(queue)
        /\ \A i \in 1..Len(made) : made[i] = queued[i]
        /\ \A i \in 1..Len(queue) : queue[i] = queued[Len(made) - count + i]
    BY <1>2, <1>11 DEF Order
  <2>2. queue[count + 1] = queued[Len(made) + 1]
    BY <1>3, <1>4, <2>1
  <2>3. \A i \in 1..Len(made') : made'[i] = queued'[i]
    <3>1. TAKE i \in 1..Len(made')
    <3>2. CASE i \in 1..Len(made)
      BY <1>1, <1>6, <2>1, <3>2
    <3>3. CASE i = Len(made) + 1
      BY <1>1, <1>6, <2>2, <3>3
    <3>4. QED BY <1>3, <1>6, <3>2, <3>3
  <2>4. Len(made') - Done' = Len(made) - count
    BY <1>3, <1>6, <1>11
  <2>5. \A i \in 1..Len(queue') : queue'[i] = queued'[Len(made') - Done' + i]
    BY <1>1, <2>1, <2>4
  <2>6. /\ Done' <= Len(made') /\ Done' <= Len(queue')
        /\ Len(queued') = Len(made') - Done' + Len(queue')
    BY <1>1, <1>3, <1>4, <1>6, <1>11, <2>1
  <2>7. QED BY <2>3, <2>5, <2>6 DEF Order
<1>13. QED BY <1>8, <1>10, <1>12 DEF IInv

(***************************************************************************)
(* The end of a call, which may have queued another one.                   *)
(***************************************************************************)
LEMMA CallReturnsStep ==
    ASSUME IInv, CallReturns
    PROVE  IInv'
<1> DEFINE c == queue[count + 1]
<1>1. /\ pc = "call" /\ count' = count + 1 /\ pc' = "loop"
      /\ writing' = writing /\ ready' = ready /\ total' = total /\ made' = made
  BY Zenon DEF CallReturns, Goto
<1>2. TypeOK /\ Sorts /\ Rest /\ Order /\ Counts /\ Wakeups
  BY TypeParts DEF IInv
<1>3. /\ Len(queue) \in Nat /\ Len(made) \in Nat /\ count \in Nat /\ total \in Nat
      /\ count < total /\ total <= Len(queue)
  BY <1>1, <1>2 DEF Sorts, Counts
<1>4. Done = count + 1 /\ Done' = count + 1 /\ Done \in Nat
  BY <1>1, <1>3 DEF Done
<1>5. CASE c \in Nested
  <2>1. AppendCall(Child[c]) /\ WakeUp
    BY <1>5, Zenon DEF CallReturns
  <2>2. Child[c] \in Calls
    BY <1>5, ThreadCallsAssumption DEF ThreadCallsAssumption
  <2>3. /\ Order' /\ queue' \in Seq(Calls) /\ queued' \in Seq(Calls)
        /\ Len(queue') = Len(queue) + 1
    BY <1>1, <1>2, <1>4, <2>1, <2>2, AppendKeepsOrder
  <2>4. pipe' \in 0..Capacity /\ pipe' > 0
    BY <1>2, <2>1, WakeUpFills DEF Sorts
  <2>5. Sorts'
    BY <1>1, <1>2, <1>3, <2>3, <2>4 DEF Sorts
  <2>6. Rest'
    BY <1>1, <1>2, Zenon DEF Rest
  <2>7. Covered'
    BY <2>4, Zenon DEF Covered
  <2>8. Wakeups'
    BY <2>7, Zenon DEF Wakeups
  <2>9. Counts'
    BY <1>1, <1>3, <2>3 DEF Counts
  <2>10. TypeOK'
    BY <2>5, <2>6, Zenon DEF TypeOK, Sorts, Rest
  <2>11. QED BY <2>3, <2>8, <2>9, <2>10 DEF IInv
<1>6. CASE c \notin Nested
  <2>1. queue' = queue /\ queued' = queued /\ pipe' = pipe
    BY <1>6, Zenon DEF CallReturns
  <2>2. Sorts'
    BY <1>1, <1>2, <1>3, <2>1 DEF Sorts
  <2>3. Rest'
    BY <1>1, <1>2, Zenon DEF Rest
  <2>4. Covered' = Covered
    BY <1>1, <2>1, Zenon DEF Covered
  <2>5. Wakeups'
    BY <1>1, <1>2, <2>1, <2>4 DEF Wakeups
  <2>6. Counts'
    BY <1>1, <1>3, <2>1 DEF Counts
  <2>7. Order'
    BY <1>1, <1>2, <1>4, <2>1, Zenon DEF Order
  <2>8. TypeOK'
    BY <2>2, <2>3, Zenon DEF TypeOK, Sorts, Rest
  <2>9. QED BY <2>5, <2>6, <2>7, <2>8 DEF IInv
<1>7. QED BY <1>5, <1>6

(***************************************************************************)
(* del threadCallQueue[:count].                                            *)
(***************************************************************************)
LEMMA ForgetCallsStep ==
    ASSUME IInv, ForgetCalls
    PROVE  IInv'
<1>1. /\ pc = "loop" /\ count = total /\ queue' = SubSeq(queue, count + 1, Len(queue))
      /\ pc' = "left" /\ pipe' = pipe /\ writing' = writing /\ ready' = ready
      /\ count' = count /\ total' = total /\ queued' = queued /\ made' = made
  BY Zenon DEF ForgetCalls, ClearMade, Goto
<1>2. Sorts /\ Rest /\ Order /\ Counts /\ Wakeups
  BY TypeParts DEF IInv
<1>3. /\ Len(queue) \in Nat /\ Len(made) \in Nat /\ count \in Nat /\ count <= Len(queue)
  BY <1>1, <1>2 DEF Sorts, Counts
<1>4. /\ queue' \in Seq(Calls) /\ Len(queue') = Len(queue) - count
      /\ \A i \in 1..(Len(queue) - count) : queue'[i] = queue[count + i]
  BY <1>1, <1>2, <1>3 DEF Sorts
<1>5. Sorts'
  BY <1>1, <1>2, <1>4, Zenon DEF Sorts
<1>6. Rest'
  BY <1>1, <1>2, Zenon DEF Rest
<1>7. TypeOK'
  BY <1>5, <1>6, Zenon DEF TypeOK, Sorts, Rest
<1>8. Covered' = Covered
  BY <1>1, Zenon DEF Covered
<1>9. Wakeups'
  <2>1. SUFFICES ASSUME queue' # <<>> PROVE Covered
    BY <1>1, <1>8 DEF Wakeups
  <2>2. Len(queue') # 0
    BY <1>4, <2>1
  <2>3. Len(queue) > total
    BY <1>1, <1>3, <1>4, <2>2
  <2>4. QED BY <1>1, <1>2, <2>3 DEF Wakeups
<1>10. Counts'
  BY <1>1 DEF Counts
<1>11. Done = count /\ Done' = 0
  BY <1>1 DEF Done
<1>12. Order'
  <2>1. /\ count <= Len(made) /\ Len(queued) = Len(made) - count + Len(queue)
        /\ \A i \in 1..Len(made) : made[i] = queued[i]
        /\ \A i \in 1..Len(queue) : queue[i] = queued[Len(made) - count + i]
    BY <1>2, <1>11 DEF Order
  <2>2. \A i \in 1..Len(queue') : queue'[i] = queued'[Len(made') - Done' + i]
    <3>1. TAKE i \in 1..Len(queue')
    <3>2. i \in 1..(Len(queue) - count) /\ count + i \in 1..Len(queue)
      BY <1>3, <1>4
    <3>3. queue[count + i] = queued[Len(made) - count + (count + i)]
      BY <2>1, <3>2
    <3>4. Len(made) - count + (count + i) = Len(made') - Done' + i
      BY <1>1, <1>3, <1>11, <3>2
    <3>5. QED BY <1>1, <1>4, <3>2, <3>3, <3>4
  <2>3. /\ Done' <= Len(made') /\ Done' <= Len(queue')
        /\ Len(queued') = Len(made') - Done' + Len(queue')
    <3>1. Len(made') = Len(made) /\ Len(queued') = Len(queued)
      BY <1>1, Zenon
    <3>2. Len(queued) = Len(made) + (Len(queue) - count)
      BY <1>3, <2>1
    <3>3. QED BY <1>3, <1>4, <1>11, <3>1, <3>2
  <2>4. QED BY <1>1, <2>1, <2>2, <2>3 DEF Order
<1>13. QED BY <1>7, <1>9, <1>10, <1>12 DEF IInv

(***************************************************************************)
(* Steps outside of the loop, which leave the queue and the history alone. *)
(***************************************************************************)
Outside == {"run", "left", "poll", "read"}

LEMMA OutsideStep ==
    ASSUME IInv, pc \in Outside, pc' \in Outside, pipe' \in 0..Capacity, ready' \in BOOLEAN,
           UNCHANGED <<queue, writing, count, total, queued, made>>,
           pc' \in {"left", "poll"} /\ queue # <<>> => Covered'
    PROVE  IInv'
<1>1. Sorts /\ Rest /\ Order
  BY TypeParts DEF IInv
<1>2. Sorts' /\ Rest'
  BY <1>1, Zenon DEF Sorts, Rest, Outside
<1>3. TypeOK'
  BY <1>2, Zenon DEF TypeOK, Sorts, Rest
<1>4. pc' # "loop" /\ pc' # "call" /\ pc # "loop" /\ pc # "call"
  BY DEF Outside
<1>5. Counts'
  BY <1>4 DEF Counts
<1>6. Wakeups'
  BY <1>4, Zenon DEF Wakeups
<1>7. Done = 0 /\ Done' = 0
  BY <1>4 DEF Done
<1>8. Order'
  BY <1>1, <1>7, Zenon DEF Order
<1>9. QED BY <1>3, <1>5, <1>6, <1>8 DEF IInv

LEMMA OutsideSteps ==
    ASSUME IInv, CallsLeft \/ Poll \/ PollElse \/ DoRead
    PROVE  IInv'
<1>1. Sorts /\ Rest /\ Wakeups
  BY TypeParts DEF IInv
<1>2. Capacity \in Nat /\ Chunk \in Nat
  BY ThreadCallsAssumption DEF ThreadCallsAssumption
<1>3. CASE CallsLeft
  <2>1. /\ pc = "left" /\ pc' = "poll" /\ ready' = ready
        /\ UNCHANGED <<queue, writing, count, total, queued, made>>
    BY <1>3, Zenon DEF CallsLeft, Goto
  <2>2. ready' \in BOOLEAN
    BY <1>1, <2>1, Zenon DEF Rest
  <2>3. CASE queue # <<>>
    <3>1. WakeUp
      BY <1>3, <2>3, Zenon DEF CallsLeft
    <3>2. pipe' \in 0..Capacity /\ pipe' > 0
      BY <1>1, <3>1, WakeUpFills DEF Sorts
    <3>3. Covered'
      BY <3>2, Zenon DEF Covered
    <3>4. QED BY <2>1, <2>2, <3>2, <3>3, OutsideStep, Zenon DEF Outside
  <2>4. CASE queue = <<>>
    <3>1. pipe' = pipe
      BY <1>3, <2>4, Zenon DEF CallsLeft
    <3>2. pipe' \in 0..Capacity
      BY <1>1, <3>1, Zenon DEF Sorts
    <3>3. QED BY <2>1, <2>2, <2>4, <3>2, OutsideStep, Zenon DEF Outside
  <2>5. QED BY <2>3, <2>4
<1>4. CASE Poll \/ PollElse
  <2>a. ready' \in BOOLEAN
    <3>1. CASE Poll  BY <3>1, Zenon DEF Poll
    <3>2. CASE PollElse  BY <3>2, Zenon DEF PollElse
    <3>3. QED BY <1>4, <3>1, <3>2
  <2>1. /\ pc = "poll" /\ pc' = "read" /\ pipe' = pipe
        /\ UNCHANGED <<queue, writing, count, total, queued, made>>
    BY <1>4, Zenon DEF Poll, PollElse, Goto
  <2>2. pipe' \in 0..Capacity
    BY <1>1, <2>1, Zenon DEF Sorts
  <2>3. pc' # "left" /\ pc' # "poll"
    BY <2>1
  <2>4. QED BY <2>a, <2>1, <2>2, <2>3, OutsideStep, Zenon DEF Outside
<1>5. CASE DoRead
  <2>1. /\ pc = "read" /\ pc' = "run" /\ ready' = ready
        /\ UNCHANGED <<queue, writing, count, total, queued, made>>
    BY <1>5, Zenon DEF DoRead, Goto
  <2>2. pipe' = pipe \/ pipe' = 0 \/ (pipe > Chunk /\ pipe' = pipe - Chunk)
    BY <1>5, Zenon DEF DoRead
  <2>3. pipe' \in 0..Capacity
    BY <1>1, <1>2, <2>2 DEF Sorts
  <2>4. ready' \in BOOLEAN
    BY <1>1, <2>1, Zenon DEF Rest
  <2>5. pc' # "left" /\ pc' # "poll"
    BY <2>1
  <2>6. QED BY <2>1, <2>3, <2>4, <2>5, OutsideStep, Zenon DEF Outside
<1>6. QED BY <1>3, <1>4, <1>5

LEMMA StepInv == IInv /\ [Next]_vars => IInv'
<1> SUFFICES ASSUME IInv, [Next]_vars PROVE IInv'
  OBVIOUS
<1>1. CASE Reactor
  <2>1. CASE RunUntilCurrent  BY <2>1, RunStep
  <2>2. CASE MakeCall  BY <2>2, MakeCallStep
  <2>3. CASE CallReturns  BY <2>3, CallReturnsStep
  <2>4. CASE ForgetCalls  BY <2>4, ForgetCallsStep
  <2>5. CASE CallsLeft \/ Poll \/ DoRead  BY <2>5, OutsideSteps
  <2>6. QED BY <1>1, <2>1, <2>2, <2>3, <2>4, <2>5 DEF Reactor
<1>2. CASE PollElse  BY <1>2, OutsideSteps
<1>3. ASSUME NEW t \in Threads, Write(t) PROVE IInv'
  BY <1>3, WriteStep
<1>4. ASSUME NEW t \in Threads, NEW c \in Calls, CallFromThread(t, c) PROVE IInv'
  BY <1>4, CallFromThreadStep
<1>5. CASE UNCHANGED vars
  BY <1>5, Zenon DEF vars, IInv, TypeOK, Counts, Wakeups, Covered, Order, Done
<1>6. QED BY <1>1, <1>2, <1>3, <1>4, <1>5 DEF Next

THEOREM InductiveInvariant == Spec => []IInv
BY InitInv, StepInv, PTL DEF Spec

(***************************************************************************)
(* For any number of threads, calls and bytes in the pipe, the reactor     *)
(* never sleeps over a call that callFromThread has queued: append before  *)
(* write, and read before runUntilCurrent, are enough without a lock.      *)
(***************************************************************************)
THEOREM Wakes == Spec => []NoLostWakeup
<1>1. IInv => NoLostWakeup
  BY Zenon DEF IInv, Wakeups, Covered, NoLostWakeup
<1>2. QED BY <1>1, InductiveInvariant, PTL

(***************************************************************************)
(* For any number of threads and calls, calls are run in the order of the  *)
(* queue, once each, while threads append to the list that is iterated.    *)
(***************************************************************************)
THEOREM InOrder == Spec => []MadeInOrder
<1>1. IInv => MadeInOrder
  <2> SUFFICES ASSUME IInv PROVE MadeInOrder
    OBVIOUS
  <2>1. Sorts /\ Order /\ Done \in Nat
    BY TypeParts, DoneIsNat DEF IInv
  <2>2. Len(made) \in Nat /\ Len(queue) \in Nat /\ Len(queued) \in Nat
    BY <2>1 DEF Sorts
  <2>3. QED BY <2>1, <2>2 DEF Order, MadeInOrder
<1>2. QED BY <1>1, InductiveInvariant, PTL
===============================================================================
