---------------------------- MODULE DeferredProofs ----------------------------
(***************************************************************************)
(* Proofs about Deferred, for any set of Deferreds, any re-entrancy of     *)
(* application code and any values of the bounds.                          *)
(***************************************************************************)
EXTENDS Deferred, SequenceTheorems, TLAPS

\* The frames an activation can be in: it works on some Deferred, and only a
\* Deferred that has a canceller is inside one.
ActiveFrames ==
    {f \in Frames : /\ f.chain # <<>>
                    /\ f.pc = "canceller" => f.chain[Len(f.chain)] \in Cancellable}

Stacks == Seq(ActiveFrames)

\* The type invariant, except that the pause counter is only known to be an
\* integer: that it is never negative needs PauseBalance.
TypeInv ==
    /\ called \in [Deferreds -> BOOLEAN]
    /\ result \in [Deferreds -> Results]
    /\ paused \in [Deferreds -> Int]
    /\ suppress \in [Deferreds -> BOOLEAN]
    /\ running \in [Deferreds -> BOOLEAN]
    /\ chainedTo \in [Deferreds -> Deferreds \cup {NONE}]
    /\ callbacks \in [Deferreds -> Seq(Entries)]
    /\ failResult \in [Deferreds -> BOOLEAN]
    /\ stack \in Stacks
    /\ userPaused \in [Deferreds -> Nat]
    /\ attempts \in [Deferreds -> Nat]
    /\ refused \in [Deferreds -> BOOLEAN]
    /\ added \in [Deferreds -> Nat]

-------------------------------------------------------------------------------
(***************************************************************************)
(* Facts about the call stack.                                             *)
(***************************************************************************)

\* Leaving a frame (or dropping the last Deferred of a chain) keeps the rest.
LEMMA PopSeq ==
    ASSUME NEW S, NEW s \in Seq(S), s # <<>>
    PROVE  /\ Pop(s) \in Seq(S)
           /\ Len(s) \in Nat /\ Len(s) > 0
           /\ Len(Pop(s)) = Len(s) - 1
           /\ \A i \in 1..Len(s) - 1 : Pop(s)[i] = s[i]
  <1>1. Len(s) \in Nat /\ Len(s) > 0 /\ \A i \in 1..Len(s) - 1 : s[i] \in S
    OBVIOUS
  <1>a. Len(s) - 1 \in Int
    BY <1>1
  <1>2. PICK n \in Int : n = Len(s) - 1
    BY <1>a, Zenon
  <1>3. SubSeq(s, 1, n) \in Seq(S)
    BY <1>1, <1>2, SubSeqProperties
  <1>4. Len(SubSeq(s, 1, n)) = n
    BY <1>1, <1>2, SubSeqProperties
  <1>5. \A i \in 1..n : SubSeq(s, 1, n)[i] = s[i]
    BY <1>1, <1>2, SubSeqProperties
  <1>6. QED
    BY <1>1, <1>2, <1>3, <1>4, <1>5, Zenon DEF Pop

\* A chain of two or more Deferreds still has a current one after a pop.
LEMMA PopNonEmpty ==
    ASSUME NEW S, NEW s \in Seq(S), s # <<>>, Len(s) # 1
    PROVE  Pop(s) # <<>>
  <1>1. PICK t \in Seq(S) : t = Pop(s) /\ Len(t) = Len(s) - 1
    BY PopSeq, Zenon
  <1>2. Len(s) \in Nat /\ Len(s) > 0
    OBVIOUS
  <1>3. Len(t) # 0
    BY <1>1, <1>2
  <1>4. QED
    BY <1>1, <1>3

\* Leaving the innermost frame keeps a stack well-formed.
LEMMA PopStack ==
    ASSUME NEW s \in Stacks, s # <<>>
    PROVE  Pop(s) \in Stacks
  BY PopSeq, Zenon DEF Stacks

\* So does entering one.
LEMMA PushStack ==
    ASSUME NEW s \in Stacks, NEW f \in ActiveFrames
    PROVE  Append(s, f) \in Stacks
  BY DEF Stacks

\* So does replacing the innermost one.
LEMMA ReplaceStack ==
    ASSUME NEW s \in Stacks, s # <<>>, NEW f \in ActiveFrames
    PROVE  [s EXCEPT ![Len(s)] = f] \in Stacks
  BY DEF Stacks

\* The innermost frame and its current Deferred.
LEMMA TopType ==
    ASSUME TypeInv, stack # <<>>
    PROVE  /\ Len(stack) \in Nat /\ Len(stack) > 0
           /\ Top \in ActiveFrames /\ Top \in Frames
           /\ Top.chain \in Seq(Deferreds) /\ Top.chain # <<>>
           /\ Len(Top.chain) \in Nat /\ Len(Top.chain) > 0
           /\ Current \in Deferreds
  <1>1. Len(stack) \in Nat /\ Len(stack) > 0
    BY DEF TypeInv, Stacks
  <1>2. Top \in ActiveFrames
    BY <1>1 DEF TypeInv, Stacks, Top
  <1>3. Top \in Frames
    BY <1>2 DEF ActiveFrames
  <1>4. Top.chain \in Seq(Deferreds) /\ Top.chain # <<>>
    BY <1>2, <1>3 DEF Frames, ActiveFrames
  <1>5. Len(Top.chain) \in Nat /\ Len(Top.chain) > 0
    BY <1>4
  <1>6. QED
    BY <1>1, <1>2, <1>3, <1>4, <1>5 DEF Current

\* The frames that _runCallbacks and cancel start with.
LEMMA FrameTypes ==
    ASSUME NEW d \in Deferreds
    PROVE  RunFrame(d) \in ActiveFrames /\ CancelFrame(d) \in ActiveFrames
  BY DEF RunFrame, CancelFrame, ActiveFrames, Frames, RunPcs

\* Moving the innermost activation to another place in its code.
LEMMA GotoStack ==
    ASSUME TypeInv, stack # <<>>, NEW pc \in RunPcs \cup {"cancel", "canceller"},
           pc = "canceller" => Current \in Cancellable
    PROVE  /\ Goto(pc) = [stack EXCEPT ![Len(stack)] = [chain |-> Top.chain, pc |-> pc]]
           /\ Goto(pc) \in Stacks
  <1>1. Len(stack) \in Nat /\ Len(stack) > 0 /\ Top \in Frames /\ Top.chain # <<>>
    BY TopType
  <1>2. [Top EXCEPT !.pc = pc] = [chain |-> Top.chain, pc |-> pc]
    BY <1>1 DEF Frames
  <1>3. [chain |-> Top.chain, pc |-> pc] \in Frames
    BY <1>1 DEF Frames
  <1>4. [chain |-> Top.chain, pc |-> pc] \in ActiveFrames
    BY <1>1, <1>3 DEF ActiveFrames, Current
  <1>5. Goto(pc) = [stack EXCEPT ![Len(stack)] = [Top EXCEPT !.pc = pc]]
    BY DEF Goto, Top
  <1>6. stack \in Stacks
    BY DEF TypeInv
  <1>7. QED
    BY <1>1, <1>2, <1>4, <1>5, <1>6, ReplaceStack

\* _runCallbacks starts on a well-formed stack.
LEMMA EnterStack ==
    ASSUME NEW d \in Deferreds, NEW s \in Stacks
    PROVE  EnterRunCallbacks(d, s) \in Stacks
  BY FrameTypes, PushStack DEF EnterRunCallbacks

\* _startRunCallbacks keeps types, whatever stack it is called with.
LEMMA StartTypes ==
    ASSUME TypeInv, NEW d \in Deferreds, NEW r \in Results, NEW s \in Stacks,
           StartRunCallbacks(d, r, s)
    PROVE  /\ called' \in [Deferreds -> BOOLEAN]
           /\ result' \in [Deferreds -> Results]
           /\ stack' \in Stacks
  BY EnterStack DEF StartRunCallbacks, TypeInv

\* Dropping the current Deferred from the innermost chain.
LEMMA FinishedStack ==
    ASSUME TypeInv, stack # <<>>
    PROVE  FinishedFrame(stack) \in Stacks
  <1>1. stack \in Stacks
    BY DEF TypeInv
  <1>2. CASE Len(Top.chain) = 1
    BY <1>1, <1>2, PopStack DEF FinishedFrame
  <1>3. CASE Len(Top.chain) # 1
    <2>1. Top.chain \in Seq(Deferreds) /\ Top.chain # <<>>
      BY TopType
    <2>2. Pop(Top.chain) \in Seq(Deferreds) /\ Pop(Top.chain) # <<>>
      BY <1>3, <2>1, PopSeq, PopNonEmpty, Zenon
    <2>3. [chain |-> Pop(Top.chain), pc |-> "outer"] \in ActiveFrames
      BY <2>2 DEF ActiveFrames, Frames, RunPcs
    <2>4. QED
      BY <1>1, <1>3, <2>2, <2>3, ReplaceStack DEF FinishedFrame
  <1>4. QED
    BY <1>2, <1>3

\* The entry that the inner loop takes off the callback list, and the list
\* that is left.
LEMMA EntryType ==
    ASSUME TypeInv, NEW type, NextEntry(type)
    PROVE  /\ stack # <<>> /\ Current \in Deferreds
           /\ Head(callbacks[Current]) \in Entries
           /\ callbacks' \in [Deferreds -> Seq(Entries)]
  <1>1. stack # <<>> /\ Current \in Deferreds
    BY TopType DEF NextEntry, At
  <1>2. callbacks[Current] \in Seq(Entries) /\ callbacks[Current] # <<>>
    BY <1>1 DEF NextEntry, TypeInv
  <1>3. Head(callbacks[Current]) \in Entries /\ Tail(callbacks[Current]) \in Seq(Entries)
    BY <1>2
  <1>4. callbacks' = [callbacks EXCEPT ![Current] = Tail(callbacks[Current])]
    BY DEF NextEntry
  <1>5. QED
    BY <1>1, <1>3, <1>4 DEF TypeInv

\* A continuation and a chainDeferred entry carry a Deferred.
LEMMA EntryDeferred ==
    ASSUME NEW entry \in Entries, entry[1] \in {"continue", "fire"}
    PROVE  entry[2] \in Deferreds
  BY DEF Entries

-------------------------------------------------------------------------------
(***************************************************************************)
(* Type correctness.                                                       *)
(***************************************************************************)

\* Every step of the application or of defer.py keeps TypeInv.
LEMMA TypeStep ==
    ASSUME TypeInv, [Next]_vars
    PROVE  TypeInv'
  <1>s. stack \in Stacks
    BY DEF TypeInv
  <1>1. ASSUME NEW d \in Deferreds, NEW r \in {"ok", "fail"}, Call(d, r)
        PROVE  TypeInv'
    <2>1. CASE StartRunCallbacks(d, r, stack) /\ UNCHANGED <<suppress, refused>>
      <3>1. r \in Results
        BY DEF Results, Plain
      <3>2. called' \in [Deferreds -> BOOLEAN] /\ result' \in [Deferreds -> Results] /\ stack' \in Stacks
        BY <1>s, <2>1, <3>1, StartTypes
      <3>3. attempts' \in [Deferreds -> Nat]
        BY <1>1 DEF TypeInv, Call
      <3>4. QED
        BY <1>1, <2>1, <3>2, <3>3 DEF TypeInv, Call
    <2>2. CASE RefuseCall(d) /\ UNCHANGED <<called, result, stack>>
      BY <1>1, <2>2 DEF TypeInv, Call, RefuseCall
    <2>3. QED
      BY <1>1, <2>1, <2>2 DEF Call
  <1>2. ASSUME NEW d \in Deferreds, NEW entry \in Entries, AddEntry(d, entry),
               chainedTo' \in [Deferreds -> Deferreds \cup {NONE}]
        PROVE  TypeInv'
    <2>1. stack' \in Stacks
      BY <1>s, <1>2, EnterStack DEF AddEntry, RunIfCalled
    <2>2. callbacks' \in [Deferreds -> Seq(Entries)]
      BY <1>2 DEF AddEntry, TypeInv
    <2>3. QED
      BY <1>2, <2>1, <2>2 DEF TypeInv, AddEntry
  <1>3. ASSUME NEW d \in Deferreds, AddCallbacks(d)
        PROVE  TypeInv'
    <2>1. User(added[d]) \in Entries
      BY DEF User, Entries, TypeInv
    <2>2. QED
      BY <1>2, <1>3, <2>1 DEF AddCallbacks, TypeInv
  <1>4. ASSUME NEW d \in Deferreds, NEW e \in Deferreds, ChainDeferred(d, e)
        PROVE  TypeInv'
    <2>1. Fire(e) \in Entries
      BY DEF Fire, Entries
    <2>2. QED
      BY <1>2, <1>4, <2>1 DEF ChainDeferred, TypeInv
  <1>5. ASSUME NEW d \in Deferreds, Pause(d)
        PROVE  TypeInv'
    BY <1>5 DEF Pause, TypeInv
  <1>6. ASSUME NEW d \in Deferreds, Unpause(d)
        PROVE  TypeInv'
    <2>1. stack' \in Stacks
      BY <1>s, <1>6, EnterStack DEF Unpause
    <2>2. QED
      BY <1>6, <2>1 DEF Unpause, TypeInv
  <1>7. ASSUME NEW d \in Deferreds, Cancel(d)
        PROVE  TypeInv'
    <2>1. stack' \in Stacks
      BY <1>s, <1>7, FrameTypes, PushStack DEF Cancel
    <2>2. QED
      BY <1>7, <2>1 DEF Cancel, TypeInv
  <1>8. CASE CancelWithoutCanceller
    <2>1. stack # <<>> /\ Current \in Deferreds /\ "fail" \in Results
      BY <1>8, TopType DEF CancelWithoutCanceller, At, Results, Plain
    <2>2. Pop(stack) \in Stacks
      BY <1>s, <2>1, PopStack
    <2>3. called' \in [Deferreds -> BOOLEAN] /\ result' \in [Deferreds -> Results] /\ stack' \in Stacks
      BY <1>8, <2>1, <2>2, StartTypes DEF CancelWithoutCanceller
    <2>4. QED
      BY <1>8, <2>1, <2>3 DEF CancelWithoutCanceller, Suppressed, TypeInv
  <1>9. CASE CallCanceller
    <2>1. stack' \in Stacks
      BY <1>9, GotoStack DEF CallCanceller, At, RunPcs
    <2>2. QED
      BY <1>9, <2>1 DEF CallCanceller, TypeInv
  <1>10. CASE CancellerReturns
    <2>1. stack # <<>> /\ Current \in Deferreds /\ "fail" \in Results
      BY <1>10, TopType DEF CancellerReturns, At, Results, Plain
    <2>2. Pop(stack) \in Stacks
      BY <1>s, <2>1, PopStack
    <2>3. called' \in [Deferreds -> BOOLEAN] /\ result' \in [Deferreds -> Results] /\ stack' \in Stacks
      BY <1>10, <2>1, <2>2, StartTypes DEF CancellerReturns, TypeInv
    <2>4. QED
      BY <1>10, <2>3 DEF CancellerReturns, TypeInv
  <1>11. CASE CancellerRaises
    <2>1. stack' \in Stacks
      BY <1>s, <1>11, PopStack DEF CancellerRaises, At
    <2>2. QED
      BY <1>11, <2>1 DEF CancellerRaises, TypeInv
  <1>12. CASE ForwardCancel
    <2>1. stack # <<>> /\ Pop(stack) \in Stacks
      BY <1>s, <1>12, PopStack DEF ForwardCancel, At
    <2>2. stack' \in Stacks
      BY <1>12, <2>1, FrameTypes, PushStack DEF ForwardCancel
    <2>3. QED
      BY <1>12, <2>2 DEF ForwardCancel, TypeInv
  <1>13. CASE OuterLoop
    <2>1. stack # <<>> /\ Current \in Deferreds
      BY <1>13, TopType DEF OuterLoop, At
    <2>2. stack' \in Stacks
      BY <1>s, <1>13, <2>1, GotoStack, PopStack DEF OuterLoop, RunPcs
    <2>3. QED
      BY <1>13, <2>1, <2>2 DEF OuterLoop, TypeInv
  <1>14. CASE Finished
    <2>1. stack # <<>> /\ Current \in Deferreds
      BY <1>14, TopType DEF Finished, At
    <2>2. stack' \in Stacks
      BY <1>14, <2>1, FinishedStack DEF Finished
    <2>3. QED
      BY <1>14, <2>1, <2>2 DEF Finished, TypeInv
  <1>15. CASE HandOver
    <2> DEFINE chainee == Head(callbacks[Current])[2]
    <2>1. /\ stack # <<>> /\ Current \in Deferreds
          /\ callbacks' \in [Deferreds -> Seq(Entries)]
          /\ chainee \in Deferreds
      BY <1>15, EntryType, EntryDeferred DEF HandOver, NextEntry
    <2>2. Top.chain \in Seq(Deferreds)
      BY <2>1, TopType
    <2>3. Append(Top.chain, chainee) \in Seq(Deferreds) /\ Append(Top.chain, chainee) # <<>>
      BY <2>1, <2>2
    <2>4. [chain |-> Append(Top.chain, chainee), pc |-> "outer"] \in ActiveFrames
      BY <2>3 DEF ActiveFrames, Frames, RunPcs
    <2>5. stack' \in Stacks
      BY <1>s, <1>15, <2>1, <2>4, ReplaceStack DEF HandOver
    <2>6. result' \in [Deferreds -> Results]
      BY <1>15, <2>1 DEF HandOver, TypeInv, Results, Plain
    <2>7. paused' \in [Deferreds -> Int]
      <3>1. paused' = [paused EXCEPT ![chainee] = @ - 1]
        BY <1>15, Zenon DEF HandOver, Resume
      <3> HIDE DEF chainee
      <3>2. paused \in [Deferreds -> Int]
        BY DEF TypeInv
      <3>3. QED
        BY <2>1, <3>1, <3>2
    <2>8. failResult' \in [Deferreds -> BOOLEAN]
      BY <1>15, <2>1 DEF HandOver, ForgetFailure, TypeInv
    <2>9. QED
      BY <1>15, <2>1, <2>5, <2>6, <2>7, <2>8 DEF HandOver, TypeInv
  <1>16. CASE CallUser
    <2>1. /\ stack # <<>> /\ Current \in Deferreds
          /\ callbacks' \in [Deferreds -> Seq(Entries)]
      BY <1>16, EntryType DEF CallUser
    <2>2. stack' \in Stacks
      BY <1>16, <2>1, GotoStack DEF CallUser, RunPcs
    <2>3. QED
      BY <1>16, <2>1, <2>2 DEF CallUser, TypeInv
  <1>17. ASSUME NEW r \in Plain, UserReturns(r)
         PROVE  TypeInv'
    <2>1. stack # <<>> /\ Current \in Deferreds
      BY <1>17, TopType DEF UserReturns, At
    <2>2. stack' \in Stacks
      BY <1>17, <2>1, GotoStack DEF UserReturns, RunPcs
    <2>3. QED
      BY <1>17, <2>1, <2>2 DEF UserReturns, TypeInv, Results
  <1>18. ASSUME NEW e \in Deferreds, UserReturnsFired(e)
         PROVE  TypeInv'
    <2>1. stack # <<>> /\ Current \in Deferreds
      BY <1>18, TopType DEF UserReturnsFired, At
    <2>2. stack' \in Stacks
      BY <1>18, <2>1, GotoStack DEF UserReturnsFired, RunPcs
    <2>3. QED
      BY <1>18, <2>1, <2>2 DEF UserReturnsFired, ForgetFailure, TypeInv, Results, Plain
  <1>19. ASSUME NEW e \in Deferreds, UserReturnsWaiting(e)
         PROVE  TypeInv'
    <2>1. stack # <<>> /\ Current \in Deferreds
      BY <1>19, TopType DEF UserReturnsWaiting, At
    <2>2. stack' \in Stacks
      BY <1>19, <2>1, FinishedStack DEF UserReturnsWaiting
    <2>3. Continue(Current) \in Entries
      BY <2>1 DEF Continue, Entries
    <2>4. callbacks' \in [Deferreds -> Seq(Entries)]
      BY <1>19, <2>3 DEF UserReturnsWaiting, TypeInv
    <2>5. paused' \in [Deferreds -> Int]
      BY <1>19, <2>1 DEF UserReturnsWaiting, PauseToWait, TypeInv
    <2>6. result' \in [Deferreds -> Results]
      BY <1>19, <2>1 DEF UserReturnsWaiting, TypeInv, Results
    <2>7. QED
      BY <1>19, <2>1, <2>2, <2>4, <2>5, <2>6 DEF UserReturnsWaiting, TypeInv
  <1>20. CASE CallChained
    <2> DEFINE e == Head(callbacks[Current])[2]
    <2>1. /\ stack # <<>> /\ Current \in Deferreds
          /\ callbacks' \in [Deferreds -> Seq(Entries)]
          /\ e \in Deferreds
      BY <1>20, EntryType, EntryDeferred DEF CallChained, NextEntry
    <2>2. result[Current] \in Results /\ Goto("fire") \in Stacks
      BY <2>1, GotoStack DEF TypeInv, RunPcs
    <2>5. attempts' \in [Deferreds -> Nat]
      <3>1. attempts' = [attempts EXCEPT ![e] = @ + 1]
        BY <1>20, Zenon DEF CallChained
      <3> HIDE DEF e
      <3>2. attempts \in [Deferreds -> Nat]
        BY DEF TypeInv
      <3>3. QED
        BY <2>1, <3>1, <3>2
    <2>3. CASE StartRunCallbacks(e, result[Current], Goto("fire"))
                 /\ running' = [running EXCEPT ![Current] = TRUE]
                 /\ UNCHANGED <<suppress, refused>>
      <3>1. called' \in [Deferreds -> BOOLEAN] /\ result' \in [Deferreds -> Results] /\ stack' \in Stacks
        BY <2>1, <2>2, <2>3, StartTypes
      <3>2. QED
        BY <1>20, <2>1, <2>3, <2>5, <3>1 DEF CallChained, TypeInv
    <2>4. CASE /\ RefuseCall(e)
               /\ result' = [result EXCEPT ![Current] = IF suppress[e] THEN "none" ELSE "fail"]
               /\ UNCHANGED <<called, running, stack>>
      <3>1. result' \in [Deferreds -> Results]
        BY <2>1, <2>4 DEF TypeInv, Results, Plain
      <3>2. suppress' \in [Deferreds -> BOOLEAN] /\ refused' \in [Deferreds -> BOOLEAN]
        BY <2>1, <2>4 DEF TypeInv, RefuseCall
      <3>3. QED
        BY <1>20, <2>1, <2>4, <2>5, <3>1, <3>2 DEF CallChained, TypeInv
    <2>6. QED
      BY <1>20, <2>3, <2>4 DEF CallChained
  <1>21. CASE ChainedReturns
    <2>1. stack # <<>> /\ Current \in Deferreds
      BY <1>21, TopType DEF ChainedReturns, At
    <2>2. stack' \in Stacks
      BY <1>21, <2>1, GotoStack DEF ChainedReturns, RunPcs
    <2>3. QED
      BY <1>21, <2>1, <2>2 DEF ChainedReturns, TypeInv, Results, Plain
  <1>22. CASE UNCHANGED vars
    BY <1>22 DEF vars, TypeInv
  <1>23. QED
    BY <1>1, <1>3, <1>4, <1>5, <1>6, <1>7, <1>8, <1>9, <1>10, <1>11, <1>12, <1>13, <1>14,
       <1>15, <1>16, <1>17, <1>18, <1>19, <1>20, <1>21, <1>22
       DEF Next, Application, Machinery

\* Types hold in every reachable state.
THEOREM TypeCorrect == Spec => []TypeInv
  <1>1. Init => TypeInv
    <2> SUFFICES ASSUME Init
                 PROVE  TypeInv
      OBVIOUS
    <2>1. stack \in Stacks
      BY EmptySeq, Zenon DEF Init, Stacks
    <2>2. callbacks \in [Deferreds -> Seq(Entries)]
      BY EmptySeq, Zenon DEF Init
    <2>3. result \in [Deferreds -> Results]
      BY DEF Init, Results
    <2>4. /\ called = [d \in Deferreds |-> FALSE] /\ suppress = [d \in Deferreds |-> FALSE]
          /\ running = [d \in Deferreds |-> FALSE] /\ failResult = [d \in Deferreds |-> FALSE]
          /\ refused = [d \in Deferreds |-> FALSE] /\ chainedTo = [d \in Deferreds |-> NONE]
          /\ paused = [d \in Deferreds |-> 0] /\ userPaused = [d \in Deferreds |-> 0]
          /\ attempts = [d \in Deferreds |-> 0] /\ added = [d \in Deferreds |-> 0]
      BY Zenon DEF Init
    <2>5. QED
      BY <2>1, <2>2, <2>3, <2>4 DEF TypeInv
  <1>2. TypeInv /\ [Next]_vars => TypeInv'
    BY TypeStep
  <1>3. QED
    BY <1>1, <1>2, PTL DEF Spec

-------------------------------------------------------------------------------
(***************************************************************************)
(* A producer that fires once is never refused.                            *)
(***************************************************************************)

\* A Deferred without canceller that was called although nobody called
\* callback() or errback() was cancelled, and remembers to swallow the call
\* that is still to come.
SuppressInv ==
    \A d \in Deferreds \ Cancellable :
        /\ called[d] /\ attempts[d] = 0 => suppress[d]
        /\ attempts[d] <= 1 => ~refused[d]

\* An attempt on d, refused or not, keeps SuppressInv.
LEMMA AttemptStep ==
    ASSUME TypeInv, SuppressInv, NEW d \in Deferreds,
           attempts' = [attempts EXCEPT ![d] = @ + 1],
           \/ /\ ~called[d]
              /\ called' = [called EXCEPT ![d] = TRUE]
              /\ UNCHANGED <<suppress, refused>>
           \/ RefuseCall(d) /\ UNCHANGED called
    PROVE  SuppressInv'
  <1> SUFFICES ASSUME NEW x \in Deferreds \ Cancellable
               PROVE  /\ called'[x] /\ attempts'[x] = 0 => suppress'[x]
                      /\ attempts'[x] <= 1 => ~refused'[x]
    BY DEF SuppressInv
  <1>1. attempts[x] \in Nat /\ attempts'[x] = IF x = d THEN attempts[x] + 1 ELSE attempts[x]
    BY DEF TypeInv
  <1>2. CASE x # d
    BY <1>1, <1>2 DEF TypeInv, SuppressInv, RefuseCall
  <1>3. CASE x = d
    <2>1. attempts'[x] # 0
      BY <1>1, <1>3
    <2>2. ASSUME attempts'[x] <= 1
          PROVE  attempts[x] = 0 /\ ~refused[x] /\ (called[x] => suppress[x])
      BY <1>1, <1>3, <2>2 DEF SuppressInv
    <2>3. attempts'[x] <= 1 => ~refused'[x]
      BY <1>3, <2>2 DEF TypeInv, RefuseCall
    <2>4. QED
      BY <2>1, <2>3
  <1>4. QED
    BY <1>2, <1>3

\* Every step of the application or of defer.py keeps SuppressInv.
LEMMA SuppressStep ==
    ASSUME TypeInv, SuppressInv, [Next]_vars
    PROVE  SuppressInv'
  <1>1. ASSUME NEW d \in Deferreds, NEW r \in {"ok", "fail"}, Call(d, r)
        PROVE  SuppressInv'
    BY <1>1, AttemptStep DEF Call, StartRunCallbacks
  <1>2. CASE CallChained
    <2>1. Head(callbacks[Current])[2] \in Deferreds
      BY <1>2, EntryType, EntryDeferred DEF CallChained, NextEntry
    <2>2. QED
      BY <1>2, <2>1, AttemptStep DEF CallChained, StartRunCallbacks
  <1>3. CASE CancelWithoutCanceller
    <2>1. Current \in Deferreds
      BY <1>3, TopType DEF CancelWithoutCanceller, At
    <2>2. QED
      BY <1>3, <2>1 DEF CancelWithoutCanceller, StartRunCallbacks, Suppressed, TypeInv, SuppressInv
  <1>4. CASE CancellerReturns
    <2>1. Current \in Cancellable
      BY <1>4, TopType DEF CancellerReturns, At, ActiveFrames, Current
    <2>2. \A d \in Deferreds \ Cancellable : called'[d] = called[d]
      BY <1>4, <2>1 DEF CancellerReturns, StartRunCallbacks, TypeInv
    <2>3. UNCHANGED <<attempts, suppress, refused>>
      BY <1>4 DEF CancellerReturns
    <2>4. QED
      BY <2>2, <2>3 DEF SuppressInv
  <1>5. ASSUME UNCHANGED <<called, attempts, suppress, refused>>
        PROVE  SuppressInv'
    BY <1>5 DEF SuppressInv
  <1>6. ASSUME NEW d \in Deferreds,
               AddCallbacks(d) \/ (\E e \in Deferreds : ChainDeferred(d, e)) \/ Pause(d)
                 \/ Unpause(d) \/ Cancel(d)
        PROVE  SuppressInv'
    BY <1>5, <1>6 DEF AddCallbacks, ChainDeferred, AddEntry, Pause, Unpause, Cancel
  <1>7. CASE CallCanceller \/ CancellerRaises \/ ForwardCancel \/ OuterLoop \/ Finished
               \/ HandOver \/ CallUser \/ ChainedReturns
    BY <1>5, <1>7 DEF CallCanceller, CancellerRaises, ForwardCancel, OuterLoop, Finished,
                      HandOver, CallUser, ChainedReturns
  <1>8. CASE \/ \E r \in Plain : UserReturns(r)
             \/ \E e \in Deferreds : UserReturnsFired(e)
             \/ \E e \in Deferreds : UserReturnsWaiting(e)
    BY <1>5, <1>8 DEF UserReturns, UserReturnsFired, UserReturnsWaiting
  <1>9. CASE UNCHANGED vars
    BY <1>5, <1>9 DEF vars
  <1>10. QED
    BY <1>1, <1>2, <1>3, <1>4, <1>6, <1>7, <1>8, <1>9 DEF Next, Application, Machinery

\* Code that fires a Deferred without canceller once never gets
\* AlreadyCalledError, cancelled before or not (cancel, _startRunCallbacks).
THEOREM SingleCall == Spec => []SingleCallAccepted
  <1>1. Init => SuppressInv
    BY DEF Init, SuppressInv
  <1>2. TypeInv /\ SuppressInv /\ [Next]_vars => SuppressInv'
    BY SuppressStep
  <1>3. SuppressInv => SingleCallAccepted
    BY DEF SuppressInv, SingleCallAccepted
  <1>4. QED
    BY <1>1, <1>2, <1>3, TypeCorrect, PTL DEF Spec

-------------------------------------------------------------------------------
(***************************************************************************)
(* The call stack of defer.py, its chains of waiting Deferreds, their      *)
(* pause counters and what is left when the stack is empty, for any number *)
(* of Deferreds and any re-entrancy.                                       *)
(***************************************************************************)


Cur(f) == f.chain[Len(f.chain)]
Members(f) == {f.chain[k] : k \in 1..Len(f.chain)}
BusyFrame(f) == f.pc \in {"user", "fire"}

\* Only calls to application code and to the methods that chainDeferred
\* installed leave a frame below another one.
Waiting == \A i \in 1..Len(stack) - 1 : stack[i].pc \in {"user", "fire", "canceller"}

\* _runCallbacks works on Deferreds that were called.
RunsCalled ==
    \A i \in 1..Len(stack) : stack[i].pc \in RunPcs => \A x \in Members(stack[i]) : called[x]

\* A Deferred in the inner loop has a result of its own.
RunsPlain ==
    \A i \in 1..Len(stack) :
        stack[i].pc \in {"inner", "user", "fire"} => result[Cur(stack[i])] \in Plain

\* _runningCallbacks marks the Deferreds whose callback is being called.
RunningFrames ==
    \A d \in Deferreds :
        running[d] <=> \E i \in 1..Len(stack) : BusyFrame(stack[i]) /\ Cur(stack[i]) = d

\* A Deferred whose callback is being called is in no chain further in.
NotInChain ==
    \A i, j \in 1..Len(stack) :
        i < j /\ BusyFrame(stack[i]) /\ stack[j].pc \in RunPcs => Cur(stack[i]) \notin Members(stack[j])

StackInv == Waiting /\ RunsCalled /\ RunsPlain /\ RunningFrames /\ NotInChain

\* `result' is set exactly when `called' is.
CalledInv == \A d \in Deferreds : called[d] <=> result[d] # "no result"

\* The three parts of ChainIntegrity: a continuation stands where its Deferred
\* waits, every Deferred that waits has one, and none has two.
WaitsThere ==
    \A d, e \in Deferreds : \A i \in 1..Len(callbacks[e]) :
        callbacks[e][i] = Continue(d) => result[d] = e
HasContinuation ==
    \A d, e \in Deferreds :
        result[d] = e => \E i \in 1..Len(callbacks[e]) : callbacks[e][i] = Continue(d)
OneContinuation ==
    \A d, e \in Deferreds : \A i, j \in 1..Len(callbacks[e]) :
        callbacks[e][i] = Continue(d) /\ callbacks[e][j] = Continue(d) => i = j
ChainInv == WaitsThere /\ HasContinuation /\ OneContinuation

IInv == TypeInv /\ StackInv /\ CalledInv /\ ChainInv /\ PauseBalance

-------------------------------------------------------------------------------
(***************************************************************************)
(* Frames.                                                                 *)
(***************************************************************************)

\* The current Deferred of a frame is one of its chain.
LEMMA CurMember ==
    ASSUME NEW f \in ActiveFrames
    PROVE  Cur(f) \in Members(f) /\ Cur(f) \in Deferreds /\ Members(f) \subseteq Deferreds
  <1>1. f.chain \in Seq(Deferreds) /\ f.chain # <<>>
    BY DEF ActiveFrames, Frames
  <1>2. Len(f.chain) \in 1..Len(f.chain)
    BY <1>1
  <1>3. QED
    BY <1>1, <1>2 DEF Cur, Members

\* What the frames of the methods look like.
LEMMA NewFrames ==
    ASSUME NEW d \in Deferreds
    PROVE  /\ RunFrame(d).pc = "outer" /\ Members(RunFrame(d)) = {d}
           /\ CancelFrame(d).pc = "cancel"
  <1>1. \A k \in 1..Len(RunFrame(d).chain) : k = 1
    BY DEF RunFrame
  <1>2. RunFrame(d).chain[1] = d /\ 1 \in 1..Len(RunFrame(d).chain)
    BY DEF RunFrame
  <1>3. Members(RunFrame(d)) = {d}
    BY <1>1, <1>2 DEF Members
  <1>4. QED
    BY <1>3 DEF RunFrame, CancelFrame

\* The chain after _CONTINUE.
LEMMA ExtendedChain ==
    ASSUME NEW f \in ActiveFrames, NEW d \in Deferreds, NEW g,
           g = [chain |-> Append(f.chain, d), pc |-> "outer"]
    PROVE  Members(g) \subseteq Members(f) \cup {d}
  <1>1. f.chain \in Seq(Deferreds)
    BY DEF ActiveFrames, Frames
  <1>2. SUFFICES ASSUME NEW k \in 1..Len(g.chain)
                 PROVE  g.chain[k] \in Members(f) \cup {d}
    BY DEF Members
  <1>3. CASE k \in 1..Len(f.chain)
    BY <1>1, <1>3 DEF Members
  <1>4. CASE k = Len(f.chain) + 1
    BY <1>1, <1>4
  <1>5. QED
    BY <1>1, <1>2, <1>3, <1>4

\* The chain after the current Deferred was popped from it.
LEMMA ShortenedChain ==
    ASSUME NEW f \in ActiveFrames, NEW g, g = [chain |-> Pop(f.chain), pc |-> "outer"]
    PROVE  Members(g) \subseteq Members(f)
  <1>1. f.chain \in Seq(Deferreds) /\ f.chain # <<>>
    BY DEF ActiveFrames, Frames
  <1>2. /\ Len(Pop(f.chain)) = Len(f.chain) - 1
        /\ \A i \in 1..Len(f.chain) - 1 : Pop(f.chain)[i] = f.chain[i]
    BY <1>1, PopSeq, Zenon
  <1>3. g.chain = Pop(f.chain) /\ Len(f.chain) \in Nat
    BY <1>1
  <1>4. SUFFICES ASSUME NEW k \in 1..Len(g.chain)
                 PROVE  g.chain[k] \in Members(f)
    BY DEF Members
  <1>5. k \in 1..Len(f.chain) - 1 /\ k \in 1..Len(f.chain)
    BY <1>2, <1>3, <1>4
  <1>6. g.chain[k] = f.chain[k]
    BY <1>2, <1>3, <1>5
  <1>7. QED
    BY <1>5, <1>6 DEF Members

-------------------------------------------------------------------------------
(***************************************************************************)
(* Steps that leave the outermost m frames alone and put at most one new   *)
(* frame on them.                                                          *)
(***************************************************************************)

\* Such a step keeps StackInv when the new frame fits on the others.
LEMMA TopChange ==
    ASSUME TypeInv, StackInv, NEW m \in Nat, m <= Len(stack),
           stack' \in Stacks,
           Len(stack') = m \/ Len(stack') = m + 1,
           \A i \in 1..m : stack'[i] = stack[i],
           Len(stack') = m + 1 =>
               \A i \in 1..m : stack[i].pc \in {"user", "fire", "canceller"},
           \A x \in Deferreds : called[x] => called'[x],
           \A i \in 1..m : stack[i].pc \in {"inner", "user", "fire"} =>
               result'[Cur(stack[i])] \in Plain,
           Len(stack') = m + 1 /\ stack'[m + 1].pc \in RunPcs =>
               \A x \in Members(stack'[m + 1]) :
                   called'[x] /\ \A i \in 1..m : BusyFrame(stack[i]) => Cur(stack[i]) # x,
           Len(stack') = m + 1 /\ stack'[m + 1].pc \in {"inner", "user", "fire"} =>
               result'[Cur(stack'[m + 1])] \in Plain,
           RunningFrames'
    PROVE  StackInv'
  <1>t. /\ Len(stack) \in Nat /\ Len(stack') \in Nat
        /\ \A i \in 1..Len(stack) : stack[i] \in ActiveFrames
        /\ \A i \in 1..Len(stack') : stack'[i] \in ActiveFrames
    BY DEF TypeInv, Stacks
  <1>m. \A i \in 1..Len(stack') : i \in 1..m \/ (i = m + 1 /\ Len(stack') = m + 1)
    BY <1>t
  <1>l. \A i \in 1..m : i \in 1..Len(stack)
    BY <1>t
  <1>1. Waiting'
    <2>1. SUFFICES ASSUME NEW i \in 1..Len(stack') - 1
                   PROVE  stack'[i].pc \in {"user", "fire", "canceller"}
      BY DEF Waiting
    <2>2. i \in 1..m
      BY <1>t, <2>1
    <2>3. CASE Len(stack') = m + 1
      BY <2>2, <2>3
    <2>4. CASE Len(stack') = m
      <3>1. i \in 1..Len(stack) - 1
        BY <1>t, <2>1, <2>4
      <3>2. QED
        BY <2>2, <3>1 DEF StackInv, Waiting
    <2>5. QED
      BY <2>3, <2>4
  <1>2. RunsCalled'
    <2>1. SUFFICES ASSUME NEW i \in 1..Len(stack'), stack'[i].pc \in RunPcs,
                          NEW x \in Members(stack'[i])
                   PROVE  called'[x]
      BY DEF RunsCalled
    <2>2. CASE i \in 1..m
      <3>1. stack'[i] = stack[i] /\ stack[i] \in ActiveFrames
        BY <1>t, <1>l, <2>2
      <3>2. x \in Deferreds /\ called[x]
        BY <1>l, <2>1, <2>2, <3>1, CurMember DEF StackInv, RunsCalled
      <3>3. QED
        BY <3>2
    <2>3. QED
      BY <1>m, <2>1, <2>2
  <1>3. RunsPlain'
    <2>1. SUFFICES ASSUME NEW i \in 1..Len(stack'), stack'[i].pc \in {"inner", "user", "fire"}
                   PROVE  result'[Cur(stack'[i])] \in Plain
      BY DEF RunsPlain
    <2>2. QED
      BY <1>m, <2>1
  <1>4. NotInChain'
    <2>1. SUFFICES ASSUME NEW i \in 1..Len(stack'), NEW j \in 1..Len(stack'), i < j,
                          BusyFrame(stack'[i]), stack'[j].pc \in RunPcs,
                          Cur(stack'[i]) \in Members(stack'[j])
                   PROVE  FALSE
      BY DEF NotInChain
    <2>2. i \in 1..m
      BY <1>t, <1>m, <2>1
    <2>3. CASE j \in 1..m
      BY <1>l, <2>1, <2>2, <2>3 DEF StackInv, NotInChain
    <2>4. CASE j = m + 1 /\ Len(stack') = m + 1
      BY <2>1, <2>2, <2>4
    <2>5. QED
      BY <1>m, <2>3, <2>4
  <1>5. QED
    BY <1>1, <1>2, <1>3, <1>4 DEF StackInv

\* _runningCallbacks stays right when no frame begins or ends a callback.
LEMMA SameRunning ==
    ASSUME TypeInv, StackInv, NEW m \in Nat, stack' \in Stacks, UNCHANGED running,
           m = Len(stack) \/ (m = Len(stack) - 1 /\ ~BusyFrame(stack[Len(stack)])),
           Len(stack') = m \/ (Len(stack') = m + 1 /\ ~BusyFrame(stack'[m + 1])),
           \A i \in 1..m : stack'[i] = stack[i]
    PROVE  RunningFrames'
  <1>t. Len(stack) \in Nat /\ Len(stack') \in Nat
    BY DEF TypeInv, Stacks
  <1>1. SUFFICES ASSUME NEW d \in Deferreds
                 PROVE  running[d] <=> \E i \in 1..Len(stack') : BusyFrame(stack'[i]) /\ Cur(stack'[i]) = d
    BY DEF RunningFrames
  <1>2. running[d] <=> \E i \in 1..Len(stack) : BusyFrame(stack[i]) /\ Cur(stack[i]) = d
    BY DEF StackInv, RunningFrames
  <1>3. \A i \in 1..Len(stack) : BusyFrame(stack[i]) => i \in 1..m
    BY <1>t
  <1>4. \A i \in 1..Len(stack') : BusyFrame(stack'[i]) => i \in 1..m
    BY <1>t
  <1>5. \A i \in 1..m : i \in 1..Len(stack) /\ i \in 1..Len(stack')
    BY <1>t
  <1>6. QED
    BY <1>2, <1>3, <1>4, <1>5

\* In particular when the innermost frame is in no callback before and after.
LEMMA QuietTop ==
    ASSUME TypeInv, StackInv, stack # <<>>, ~BusyFrame(Top), stack' \in Stacks, UNCHANGED running,
           \/ Len(stack') = Len(stack) - 1
           \/ Len(stack') = Len(stack) /\ ~BusyFrame(stack'[Len(stack)]),
           \A i \in 1..Len(stack) - 1 : stack'[i] = stack[i]
    PROVE  RunningFrames'
  <1>1. Len(stack) \in Nat /\ Len(stack) > 0
    BY TopType
  <1>2. Len(stack) - 1 \in Nat /\ Len(stack) - 1 + 1 = Len(stack)
    BY <1>1
  <1>3. PICK m \in Nat : m = Len(stack) - 1 /\ m + 1 = Len(stack)
    BY <1>2, Zenon
  <1>4. QED
    BY <1>3, SameRunning DEF Top

\* It stays right when the innermost frame begins a callback.
LEMMA StartRunning ==
    ASSUME TypeInv, StackInv, stack # <<>>, ~BusyFrame(Top), stack' \in Stacks,
           Len(stack') = Len(stack), \A i \in 1..Len(stack) - 1 : stack'[i] = stack[i],
           BusyFrame(stack'[Len(stack)]), Cur(stack'[Len(stack)]) = Current,
           running' = [running EXCEPT ![Current] = TRUE]
    PROVE  RunningFrames'
  <1>t. Len(stack) \in Nat /\ Len(stack) > 0 /\ Current \in Deferreds
    BY TopType
  <1>1. SUFFICES ASSUME NEW d \in Deferreds
                 PROVE  running'[d] <=> \E i \in 1..Len(stack') : BusyFrame(stack'[i]) /\ Cur(stack'[i]) = d
    BY DEF RunningFrames
  <1>2. running[d] <=> \E i \in 1..Len(stack) : BusyFrame(stack[i]) /\ Cur(stack[i]) = d
    BY DEF StackInv, RunningFrames
  <1>3. CASE d = Current
    <2>1. running'[d]
      BY <1>t, <1>3 DEF TypeInv
    <2>2. Len(stack) \in 1..Len(stack')
      BY <1>t
    <2>3. QED
      BY <1>3, <2>1, <2>2
  <1>4. CASE d # Current
    <2>1. running'[d] = running[d]
      BY <1>t, <1>4 DEF TypeInv
    <2>2. \A i \in 1..Len(stack) : i \in 1..Len(stack) - 1 \/ i = Len(stack)
      BY <1>t
    <2>3. QED
      BY <1>2, <1>4, <2>1, <2>2 DEF Top
  <1>5. QED
    BY <1>3, <1>4

\* It stays right when the innermost frame's callback returns: no other frame
\* is inside a callback of the same Deferred.
LEMMA StopRunning ==
    ASSUME TypeInv, StackInv, stack # <<>>, BusyFrame(Top), stack' \in Stacks,
           \/ Len(stack') = Len(stack) - 1
           \/ Len(stack') = Len(stack) /\ ~BusyFrame(stack'[Len(stack)]),
           \A i \in 1..Len(stack) - 1 : stack'[i] = stack[i],
           running' = [running EXCEPT ![Current] = FALSE]
    PROVE  RunningFrames'
  <1>t. Len(stack) \in Nat /\ Len(stack) > 0 /\ Current \in Deferreds /\ Top \in ActiveFrames
    BY TopType
  <1>1. SUFFICES ASSUME NEW d \in Deferreds
                 PROVE  running'[d] <=> \E i \in 1..Len(stack') : BusyFrame(stack'[i]) /\ Cur(stack'[i]) = d
    BY DEF RunningFrames
  <1>2. running[d] <=> \E i \in 1..Len(stack) : BusyFrame(stack[i]) /\ Cur(stack[i]) = d
    BY DEF StackInv, RunningFrames
  <1>3. \A i \in 1..Len(stack') : BusyFrame(stack'[i]) => i \in 1..Len(stack) - 1
    BY <1>t
  <1>4. \A i \in 1..Len(stack) - 1 : i \in 1..Len(stack) /\ i \in 1..Len(stack')
    BY <1>t
  <1>5. \A i \in 1..Len(stack) - 1 : BusyFrame(stack[i]) => Cur(stack[i]) # Current
    <2>1. SUFFICES ASSUME NEW i \in 1..Len(stack) - 1, BusyFrame(stack[i]), Cur(stack[i]) = Current
                   PROVE  FALSE
      OBVIOUS
    <2>2. Current \in Members(Top) /\ Top.pc \in RunPcs
      BY <1>t, CurMember DEF Cur, Current, BusyFrame, RunPcs
    <2>3. i \in 1..Len(stack) /\ Len(stack) \in 1..Len(stack) /\ i < Len(stack)
      BY <1>t, <2>1
    <2>4. QED
      BY <2>1, <2>2, <2>3 DEF StackInv, NotInChain, Top
  <1>6. CASE d = Current
    <2>1. ~running'[d]
      BY <1>t, <1>6 DEF TypeInv
    <2>2. QED
      BY <1>3, <1>5, <1>6, <2>1
  <1>7. CASE d # Current
    <2>1. running'[d] = running[d]
      BY <1>t, <1>7 DEF TypeInv
    <2>2. Cur(Top) = Current
      BY DEF Cur, Current
    <2>3. \A i \in 1..Len(stack) : i \in 1..Len(stack) - 1 \/ i = Len(stack)
      BY <1>t
    <2>4. QED
      BY <1>2, <1>3, <1>4, <1>7, <2>1, <2>2, <2>3 DEF Top
  <1>8. QED
    BY <1>6, <1>7

-------------------------------------------------------------------------------
(***************************************************************************)
(* The stack after each kind of step.                                      *)
(***************************************************************************)

\* No Deferred is un-called and none that has a plain result loses it.
Keeps ==
    \A x \in Deferreds : /\ called[x] => called'[x]
                         /\ called[x] /\ result[x] \in Plain => result'[x] \in Plain

\* The Deferreds in the inner loop were called and have plain results.
LEMMA InnerCurrent ==
    ASSUME TypeInv, StackInv, NEW i \in 1..Len(stack), stack[i].pc \in {"inner", "user", "fire"}
    PROVE  /\ Cur(stack[i]) \in Deferreds /\ called[Cur(stack[i])]
           /\ result[Cur(stack[i])] \in Plain
  <1>1. stack[i] \in ActiveFrames
    BY DEF TypeInv, Stacks
  <1>2. Cur(stack[i]) \in Members(stack[i]) /\ Cur(stack[i]) \in Deferreds
    BY <1>1, CurMember
  <1>3. QED
    BY <1>2 DEF StackInv, RunsCalled, RunsPlain, RunPcs

\* Under application code every frame waits.
LEMMA AllWaiting ==
    ASSUME TypeInv, StackInv, InApplication, NEW i \in 1..Len(stack)
    PROVE  stack[i].pc \in {"user", "fire", "canceller"}
  <1>1. Len(stack) \in Nat
    BY DEF TypeInv, Stacks
  <1>2. CASE i = Len(stack)
    <2>1. stack # <<>>
      BY <1>1, <1>2
    <2>2. QED
      BY <1>2, <2>1 DEF InApplication, At, Top
  <1>3. CASE i # Len(stack)
    BY <1>1, <1>3 DEF StackInv, Waiting
  <1>4. QED
    BY <1>2, <1>3

\* A stack that is left as it is.
LEMMA SameStack ==
    ASSUME TypeInv, StackInv, UNCHANGED <<stack, running>>, Keeps
    PROVE  StackInv'
  <1>1. Len(stack) \in Nat /\ stack' \in Stacks /\ Len(stack') = Len(stack)
        /\ \A i \in 1..Len(stack) : stack'[i] = stack[i]
    BY DEF TypeInv, Stacks
  <1>2. \A i \in 1..Len(stack) : stack[i].pc \in {"inner", "user", "fire"} => result'[Cur(stack[i])] \in Plain
    BY InnerCurrent DEF Keeps
  <1>3. RunningFrames'
    BY <1>1, SameRunning
  <1>4. Len(stack') # Len(stack) + 1
    BY <1>1
  <1>5. \A x \in Deferreds : called[x] => called'[x]
    BY DEF Keeps
  <1>6. QED
    BY <1>1, <1>2, <1>3, <1>4, <1>5, TopChange

\* Leaving a frame that is in no callback.
LEMMA PopFrame ==
    ASSUME TypeInv, StackInv, stack # <<>>, ~BusyFrame(Top), stack' = Pop(stack),
           UNCHANGED running, Keeps
    PROVE  StackInv'
  <1>1. stack \in Seq(ActiveFrames) /\ Len(stack) \in Nat /\ Len(stack) > 0
    BY TopType DEF TypeInv, Stacks
  <1>2. /\ stack' \in Stacks /\ Len(stack') = Len(stack) - 1
        /\ \A i \in 1..Len(stack) - 1 : stack'[i] = stack[i]
    BY <1>1, PopSeq, Zenon DEF Stacks
  <1>3. PICK m \in Nat : m = Len(stack) - 1
    BY <1>1
  <1>4. \A i \in 1..m : i \in 1..Len(stack)
    BY <1>1, <1>3
  <1>5. \A i \in 1..m : stack[i].pc \in {"inner", "user", "fire"} => result'[Cur(stack[i])] \in Plain
    BY <1>4, InnerCurrent DEF Keeps
  <1>6. RunningFrames'
    BY <1>2, <1>3, SameRunning DEF Top
  <1>7. m <= Len(stack) /\ Len(stack') # m + 1 /\ Len(stack') = m /\ \A i \in 1..m : stack'[i] = stack[i]
    BY <1>1, <1>2, <1>3
  <1>8. \A x \in Deferreds : called[x] => called'[x]
    BY DEF Keeps
  <1>9. QED
    BY <1>2, <1>5, <1>6, <1>7, <1>8, TopChange

\* What is below the frame that application code, or a frame that is about to
\* end, pushes: s is the stack the new frame goes on.
Below(s) ==
    \/ s = stack /\ InApplication
    \/ stack # <<>> /\ ~BusyFrame(Top) /\ s = Pop(stack)

\* The frames below are those of the stack, and all wait.
LEMMA BelowFrames ==
    ASSUME TypeInv, StackInv, NEW s, Below(s)
    PROVE  /\ s \in Stacks /\ Len(s) \in Nat /\ Len(s) <= Len(stack)
           /\ Len(s) = Len(stack) \/ (Len(s) = Len(stack) - 1 /\ ~BusyFrame(stack[Len(stack)]))
           /\ \A i \in 1..Len(s) : /\ s[i] = stack[i]
                                   /\ stack[i].pc \in {"user", "fire", "canceller"}
  <1>1. stack \in Seq(ActiveFrames) /\ stack \in Stacks /\ Len(stack) \in Nat
    BY DEF TypeInv, Stacks
  <1>2. CASE s = stack /\ InApplication
    BY <1>1, <1>2, AllWaiting
  <1>3. CASE stack # <<>> /\ ~BusyFrame(Top) /\ s = Pop(stack)
    <2>1. /\ s \in Stacks /\ Len(s) = Len(stack) - 1 /\ Len(stack) > 0
          /\ \A i \in 1..Len(stack) - 1 : s[i] = stack[i]
      BY <1>1, <1>3, PopSeq, Zenon DEF Stacks
    <2>2. Len(s) \in Nat /\ Len(s) <= Len(stack)
      BY <1>1, <2>1
    <2>3. \A i \in 1..Len(s) : s[i] = stack[i] /\ stack[i].pc \in {"user", "fire", "canceller"}
      BY <2>1 DEF StackInv, Waiting
    <2>4. QED
      BY <1>3, <2>1, <2>2, <2>3 DEF Top
  <1>4. QED
    BY <1>2, <1>3 DEF Below

\* Pushing a frame that is in no callback.
LEMMA PushFrame ==
    ASSUME TypeInv, StackInv, NEW s, Below(s), NEW f \in ActiveFrames,
           stack' = Append(s, f), UNCHANGED running, Keeps,
           f.pc \notin {"inner", "user", "fire"},
           f.pc \in RunPcs => \A x \in Members(f) : called'[x] /\ ~running[x]
    PROVE  StackInv'
  <1>1. /\ s \in Stacks /\ Len(s) \in Nat /\ Len(s) <= Len(stack)
        /\ Len(s) = Len(stack) \/ (Len(s) = Len(stack) - 1 /\ ~BusyFrame(stack[Len(stack)]))
        /\ \A i \in 1..Len(s) : s[i] = stack[i] /\ stack[i].pc \in {"user", "fire", "canceller"}
    BY BelowFrames
  <1>2. PICK m \in Nat : m = Len(s)
    BY <1>1
  <1>3. /\ stack' \in Stacks /\ Len(stack') = m + 1 /\ stack'[m + 1] = f
        /\ \A i \in 1..m : stack'[i] = stack[i]
    BY <1>1, <1>2 DEF Stacks
  <1>4. \A i \in 1..m : i \in 1..Len(stack)
    BY <1>1, <1>2 DEF TypeInv, Stacks
  <1>5. \A i \in 1..m : stack[i].pc \in {"inner", "user", "fire"} => result'[Cur(stack[i])] \in Plain
    BY <1>4, InnerCurrent DEF Keeps
  <1>6. RunningFrames'
    BY <1>1, <1>2, <1>3, SameRunning DEF BusyFrame
  <1>7. f.pc \in RunPcs => \A x \in Members(f) :
            called'[x] /\ \A i \in 1..m : BusyFrame(stack[i]) => Cur(stack[i]) # x
    <2>1. SUFFICES ASSUME f.pc \in RunPcs, NEW x \in Members(f), NEW i \in 1..m, BusyFrame(stack[i]), Cur(stack[i]) = x
                   PROVE  FALSE
      OBVIOUS
    <2>2. x \in Deferreds /\ ~running[x] /\ i \in 1..Len(stack)
      BY <1>4, <2>1, CurMember
    <2>3. QED
      BY <2>1, <2>2 DEF StackInv, RunningFrames
  <1>8. \A x \in Deferreds : called[x] => called'[x]
    BY DEF Keeps
  <1>9. QED
    BY <1>1, <1>2, <1>3, <1>5, <1>6, <1>7, <1>8, TopChange

\* _runCallbacks, called with the stack s.
LEMMA EnterFrame ==
    ASSUME TypeInv, StackInv, NEW s, Below(s), NEW d \in Deferreds,
           stack' = EnterRunCallbacks(d, s), UNCHANGED running, Keeps, called'[d]
    PROVE  StackInv'
  <1>1. CASE running[d] /\ s = stack
    BY <1>1, SameStack DEF EnterRunCallbacks
  <1>2. CASE running[d] /\ stack # <<>> /\ ~BusyFrame(Top) /\ s = Pop(stack)
    BY <1>2, PopFrame DEF EnterRunCallbacks
  <1>3. CASE ~running[d]
    <2>1. stack' = Append(s, RunFrame(d)) /\ RunFrame(d) \in ActiveFrames
      BY <1>3, FrameTypes DEF EnterRunCallbacks
    <2>2. RunFrame(d).pc = "outer" /\ Members(RunFrame(d)) = {d}
      BY NewFrames
    <2>3. QED
      BY <1>3, <2>1, <2>2, PushFrame
  <1>4. QED
    BY <1>1, <1>2, <1>3 DEF Below

\* Replacing the innermost activation of _runCallbacks by another place in its
\* loops: `Others' says that no Deferred in a callback further out loses its
\* plain result.
Others ==
    /\ \A x \in Deferreds : called[x] => called'[x]
    /\ \A i \in 1..Len(stack) - 1 : BusyFrame(stack[i]) => result'[Cur(stack[i])] \in Plain

\* Such a replacement keeps StackInv when the new chain fits.
LEMMA ReplaceFrame ==
    ASSUME TypeInv, StackInv, stack # <<>>, Top.pc \in RunPcs, NEW f \in ActiveFrames,
           stack' = [stack EXCEPT ![Len(stack)] = f], Others, RunningFrames',
           \A x \in Members(f) : called'[x] /\ (x \in Members(Top) \/ ~running[x]),
           f.pc \in {"inner", "user", "fire"} => result'[Cur(f)] \in Plain
    PROVE  StackInv'
  <1>1. stack \in Seq(ActiveFrames) /\ Len(stack) \in Nat /\ Len(stack) > 0
    BY TopType DEF TypeInv, Stacks
  <1>2. PICK m \in Nat : m = Len(stack) - 1
    BY <1>1
  <1>3. /\ stack' \in Stacks /\ Len(stack') = m + 1 /\ stack'[m + 1] = f
        /\ \A i \in 1..m : stack'[i] = stack[i]
    BY <1>1, <1>2 DEF Stacks
  <1>4. m <= Len(stack) /\ \A i \in 1..m : i \in 1..Len(stack) /\ i < Len(stack)
    BY <1>1, <1>2
  <1>5. \A i \in 1..m : stack[i].pc \in {"user", "fire", "canceller"}
    BY <1>2 DEF StackInv, Waiting
  <1>6. \A i \in 1..m : stack[i].pc \in {"inner", "user", "fire"} => result'[Cur(stack[i])] \in Plain
    BY <1>2, <1>5 DEF Others, BusyFrame
  <1>7. \A x \in Members(f) : \A i \in 1..m : BusyFrame(stack[i]) => Cur(stack[i]) # x
    <2>1. SUFFICES ASSUME NEW x \in Members(f), NEW i \in 1..m, BusyFrame(stack[i]), Cur(stack[i]) = x
                   PROVE  FALSE
      OBVIOUS
    <2>2. CASE x \in Members(Top)
      <3>1. Len(stack) \in 1..Len(stack) /\ i \in 1..Len(stack) /\ i < Len(stack)
        BY <1>1, <1>4
      <3>2. QED
        BY <2>1, <2>2, <3>1 DEF StackInv, NotInChain, Top
    <2>3. CASE ~running[x]
      <3>1. x \in Deferreds
        BY <2>1, CurMember
      <3>2. QED
        BY <1>4, <2>1, <2>3, <3>1 DEF StackInv, RunningFrames
    <2>4. QED
      BY <2>1, <2>2, <2>3
  <1>8. QED
    BY <1>3, <1>4, <1>5, <1>6, <1>7, TopChange DEF Others

\* The innermost frame seen as the last one of the stack.
LEMMA TopFrame ==
    ASSUME TypeInv, StackInv, stack # <<>>
    PROVE  /\ Len(stack) \in 1..Len(stack) /\ Top = stack[Len(stack)]
           /\ Top \in ActiveFrames /\ Cur(Top) = Current
           /\ Current \in Members(Top) /\ Current \in Deferreds
           /\ Top.pc \in RunPcs => called[Current] /\ \A x \in Members(Top) : called[x]
           /\ Top.pc \in {"inner", "user", "fire"} => result[Current] \in Plain
  <1>1. Len(stack) \in Nat /\ Len(stack) > 0 /\ Top \in ActiveFrames
    BY TopType
  <1>2. Len(stack) \in 1..Len(stack) /\ Top = stack[Len(stack)] /\ Cur(Top) = Current
    BY <1>1 DEF Top, Cur, Current
  <1>3. QED
    BY <1>1, <1>2, CurMember DEF StackInv, RunsCalled, RunsPlain

\* A step that keeps plain results keeps those of the callbacks further out.
LEMMA KeepsOthers ==
    ASSUME TypeInv, StackInv, Keeps
    PROVE  Others
  <1>1. Len(stack) \in Nat
    BY DEF TypeInv, Stacks
  <1>2. \A i \in 1..Len(stack) - 1 : i \in 1..Len(stack)
    BY <1>1
  <1>3. QED
    BY <1>2, InnerCurrent DEF Keeps, Others, BusyFrame

\* Moving the innermost activation within the same chain.
LEMMA GotoFrame ==
    ASSUME TypeInv, StackInv, stack # <<>>, Top.pc \in RunPcs, NEW pc \in RunPcs,
           stack' = Goto(pc), Keeps, RunningFrames',
           pc \in {"inner", "user", "fire"} => result'[Current] \in Plain
    PROVE  StackInv'
  <1> DEFINE f == [chain |-> Top.chain, pc |-> pc]
  <1>1. stack' = [stack EXCEPT ![Len(stack)] = f]
    BY GotoStack DEF RunPcs
  <1>2. Top \in ActiveFrames /\ Cur(Top) = Current /\ (\A x \in Members(Top) : called[x]) /\ Members(Top) \subseteq Deferreds
    BY TopFrame, CurMember
  <1>3. f \in ActiveFrames /\ Members(f) = Members(Top) /\ Cur(f) = Current
    <2>1. Top.chain \in Seq(Deferreds) /\ Top.chain # <<>>
      BY TopType
    <2>2. f \in ActiveFrames
      BY <2>1 DEF ActiveFrames, Frames, RunPcs
    <2>3. QED
      BY <1>2, <2>2 DEF Members, Cur
  <1>4. Others
    BY KeepsOthers
  <1>5. \A x \in Members(f) : called'[x] /\ x \in Members(Top)
    BY <1>2, <1>3 DEF Keeps
  <1>6. QED
    BY <1>1, <1>3, <1>4, <1>5, ReplaceFrame

\* The shape of the stack after Goto.
LEMMA GotoShape ==
    ASSUME TypeInv, stack # <<>>, NEW pc \in RunPcs
    PROVE  /\ Goto(pc) \in Stacks /\ Len(Goto(pc)) = Len(stack)
           /\ \A i \in 1..Len(stack) - 1 : Goto(pc)[i] = stack[i]
           /\ Goto(pc)[Len(stack)].pc = pc /\ Cur(Goto(pc)[Len(stack)]) = Current
           /\ Goto(pc)[Len(stack)] = [chain |-> Top.chain, pc |-> pc]
  <1>1. Goto(pc) = [stack EXCEPT ![Len(stack)] = [chain |-> Top.chain, pc |-> pc]] /\ Goto(pc) \in Stacks
    BY GotoStack DEF RunPcs
  <1>2. stack \in Seq(ActiveFrames) /\ Len(stack) \in Nat /\ Len(stack) > 0
    BY TopType DEF TypeInv, Stacks
  <1>3. Goto(pc)[Len(stack)] = [chain |-> Top.chain, pc |-> pc]
    BY <1>1, <1>2
  <1>4. QED
    BY <1>1, <1>2, <1>3 DEF Cur, Current

\* Dropping the current Deferred from the innermost chain, or the frame when
\* the chain is empty then.
LEMMA FinishFrame ==
    ASSUME TypeInv, StackInv, stack # <<>>, Top.pc \in RunPcs,
           stack' = FinishedFrame(stack), Others, RunningFrames'
    PROVE  StackInv'
  <1>1. stack \in Seq(ActiveFrames) /\ Len(stack) \in Nat /\ Len(stack) > 0
    BY TopType DEF TypeInv, Stacks
  <1>2. CASE Len(Top.chain) = 1
    <2>1. /\ stack' \in Stacks /\ Len(stack') = Len(stack) - 1
          /\ \A i \in 1..Len(stack) - 1 : stack'[i] = stack[i]
      BY <1>1, <1>2, PopSeq, Zenon DEF Stacks, FinishedFrame
    <2>2. PICK m \in Nat : m = Len(stack) - 1
      BY <1>1
    <2>3. m <= Len(stack) /\ Len(stack') = m /\ Len(stack') # m + 1 /\ \A i \in 1..m : stack'[i] = stack[i]
      BY <1>1, <2>1, <2>2
    <2>4. \A i \in 1..m : stack[i].pc \in {"inner", "user", "fire"} => result'[Cur(stack[i])] \in Plain
      BY <2>2 DEF Others, BusyFrame, StackInv, Waiting
    <2>5. QED
      BY <2>1, <2>3, <2>4, TopChange DEF Others
  <1>3. CASE Len(Top.chain) # 1
    <2> DEFINE f == [chain |-> Pop(Top.chain), pc |-> "outer"]
    <2>1. Top.chain \in Seq(Deferreds) /\ Top.chain # <<>> /\ Top \in ActiveFrames
      BY TopType
    <2>2. Pop(Top.chain) \in Seq(Deferreds) /\ Pop(Top.chain) # <<>>
      BY <1>3, <2>1, PopSeq, PopNonEmpty, Zenon
    <2>3. f \in ActiveFrames
      BY <2>2 DEF ActiveFrames, Frames, RunPcs
    <2>4. Members(f) \subseteq Members(Top)
      BY <2>1, ShortenedChain
    <2>5. \A x \in Members(f) : called'[x] /\ x \in Members(Top)
      BY <2>1, <2>4, TopFrame, CurMember DEF Others
    <2>6. stack' = [stack EXCEPT ![Len(stack)] = f]
      BY <1>3 DEF FinishedFrame
    <2>7. QED
      BY <2>3, <2>5, <2>6, ReplaceFrame
  <1>4. QED
    BY <1>2, <1>3

\* The shape of the stack after FinishedFrame.
LEMMA FinishedShape ==
    ASSUME TypeInv, stack # <<>>
    PROVE  /\ FinishedFrame(stack) \in Stacks
           /\ \/ Len(FinishedFrame(stack)) = Len(stack) - 1
              \/ /\ Len(FinishedFrame(stack)) = Len(stack)
                 /\ ~BusyFrame(FinishedFrame(stack)[Len(stack)])
           /\ \A i \in 1..Len(stack) - 1 : FinishedFrame(stack)[i] = stack[i]
  <1>1. stack \in Seq(ActiveFrames) /\ Len(stack) \in Nat /\ Len(stack) > 0
    BY TopType DEF TypeInv, Stacks
  <1>2. FinishedFrame(stack) \in Stacks
    BY FinishedStack
  <1>3. CASE Len(Top.chain) = 1
    BY <1>1, <1>2, <1>3, PopSeq, Zenon DEF FinishedFrame
  <1>4. CASE Len(Top.chain) # 1
    <2>1. FinishedFrame(stack) = [stack EXCEPT ![Len(stack)] = [chain |-> Pop(Top.chain), pc |-> "outer"]]
      BY <1>4, Zenon DEF FinishedFrame
    <2>2. PICK f : f = [chain |-> Pop(Top.chain), pc |-> "outer"]
      BY Zenon
    <2>3. f.pc = "outer"
      BY <2>2
    <2>4. QED
      BY <1>1, <1>2, <2>1, <2>2, <2>3 DEF BusyFrame
  <1>5. QED
    BY <1>3, <1>4

-------------------------------------------------------------------------------
(***************************************************************************)
(* Every step keeps StackInv.                                              *)
(***************************************************************************)

\* A Deferred that waits for another one is inside no callback.
LEMMA WaiterIdle ==
    ASSUME TypeInv, StackInv, CalledInv, NEW d \in Deferreds, result[d] \in Deferreds
    PROVE  ~running[d] /\ called[d]
  <1>1. result[d] \notin Plain /\ result[d] # "no result"
    BY DeferredAssumption DEF Plain
  <1>2. called[d]
    BY <1>1 DEF CalledInv
  <1>3. ~running[d]
    BY <1>1, InnerCurrent DEF StackInv, RunningFrames, BusyFrame
  <1>4. QED
    BY <1>2, <1>3

\* _startRunCallbacks keeps plain results.
LEMMA StartKeeps ==
    ASSUME TypeInv, NEW d \in Deferreds, NEW r, NEW s, StartRunCallbacks(d, r, s)
    PROVE  Keeps /\ called'[d]
  BY DEF TypeInv, StartRunCallbacks, Keeps

\* A continuation at the head of the list, and the Deferred it resumes.
LEMMA ChaineeWaits ==
    ASSUME TypeInv, ChainInv, NextEntry("continue")
    PROVE  /\ Head(callbacks[Current])[2] \in Deferreds
           /\ Head(callbacks[Current]) = Continue(Head(callbacks[Current])[2])
           /\ result[Head(callbacks[Current])[2]] = Current
           /\ Current \in Deferreds
  <1> DEFINE h == Head(callbacks[Current])
  <1>1. Current \in Deferreds /\ h \in Entries /\ h[1] = "continue"
    BY EntryType DEF NextEntry
  <1>2. h[2] \in Deferreds
    BY <1>1, EntryDeferred
  <1>3. h = Continue(h[2])
    BY <1>1 DEF Entries, Continue
  <1>4. callbacks[Current] \in Seq(Entries) /\ callbacks[Current] # <<>>
    BY <1>1 DEF NextEntry, TypeInv
  <1>5. 1 \in 1..Len(callbacks[Current]) /\ h = callbacks[Current][1]
    BY <1>4
  <1>6. QED
    BY <1>1, <1>2, <1>3, <1>5 DEF ChainInv, WaitsThere

\* The entry of chainDeferred fires e: its activation goes on the frame that
\* is inside e.callback.
LEMMA FireFrame ==
    ASSUME TypeInv, StackInv, stack # <<>>, Top.pc = "inner", NEW e \in Deferreds,
           StartRunCallbacks(e, result[Current], Goto("fire")),
           running' = [running EXCEPT ![Current] = TRUE]
    PROVE  StackInv'
  <1>1. PICK n \in Nat : n = Len(stack) /\ n > 0
    BY TopType
  <1>2. /\ Top = stack[n] /\ Current \in Deferreds /\ called[Current] /\ result[Current] \in Plain
        /\ \A x \in Members(Top) : called[x] /\ x \in Deferreds
    BY <1>1, TopFrame, CurMember DEF RunPcs
  <1>3. ~called[e] /\ e # Current /\ called'[e] /\ Keeps /\ result'[Current] \in Plain
    BY <1>2, StartKeeps DEF StartRunCallbacks, Keeps
  <1>4. ~running[e]
    BY <1>3, InnerCurrent DEF StackInv, RunningFrames, BusyFrame
  <1>5. PICK g \in Stacks : /\ g = Goto("fire") /\ Len(g) = n /\ \A i \in 1..n - 1 : g[i] = stack[i]
                            /\ g[n].pc = "fire" /\ Cur(g[n]) = Current /\ Members(g[n]) = Members(Top)
    <2>1. /\ Goto("fire") \in Stacks /\ Len(Goto("fire")) = n
          /\ \A i \in 1..n - 1 : Goto("fire")[i] = stack[i]
          /\ Goto("fire")[n].pc = "fire" /\ Cur(Goto("fire")[n]) = Current
          /\ Goto("fire")[n] = [chain |-> Top.chain, pc |-> "fire"]
      BY <1>1, GotoShape DEF RunPcs
    <2>2. PICK f : f = [chain |-> Top.chain, pc |-> "fire"]
      BY Zenon
    <2>3. f.chain = Top.chain
      BY <2>2
    <2>4. Members(f) = Members(Top)
      BY <2>3, Zenon DEF Members
    <2>5. QED
      BY <2>1, <2>2, <2>4, Zenon
  <1>6. PICK r \in ActiveFrames : r = RunFrame(e) /\ r.pc = "outer" /\ Members(r) = {e}
    BY FrameTypes, NewFrames
  <1>7. stack' = Append(g, r)
    BY <1>4, <1>5, <1>6 DEF StartRunCallbacks, EnterRunCallbacks
  <1>8. /\ Len(stack') = n + 1 /\ stack'[n + 1] = r /\ stack'[n] = g[n]
        /\ \A i \in 1..n - 1 : stack'[i] = stack[i]
    BY <1>1, <1>5, <1>6, <1>7 DEF Stacks
  <1>9. \A i \in 1..Len(stack') : i \in 1..n - 1 \/ i = n \/ i = n + 1
    BY <1>8
  <1>10. \A i \in 1..n - 1 : i \in 1..Len(stack) /\ i < n /\ stack[i] \in ActiveFrames
    BY <1>1 DEF TypeInv, Stacks
  <1>11. Waiting'
    <2>1. \A i \in 1..Len(stack') - 1 : i \in 1..n - 1 \/ i = n
      BY <1>8
    <2>2. QED
      BY <1>1, <1>5, <1>8, <2>1 DEF StackInv, Waiting
  <1>12. RunsCalled'
    <2>1. SUFFICES ASSUME NEW i \in 1..Len(stack'), stack'[i].pc \in RunPcs, NEW x \in Members(stack'[i])
                   PROVE  called'[x]
      BY DEF RunsCalled
    <2>2. CASE i \in 1..n - 1
      BY <1>3, <1>8, <1>10, <2>1, <2>2, CurMember DEF StackInv, RunsCalled, Keeps
    <2>3. CASE i = n
      BY <1>2, <1>3, <1>5, <1>8, <2>1, <2>3 DEF Keeps
    <2>4. CASE i = n + 1
      BY <1>3, <1>6, <1>8, <2>1, <2>4
    <2>5. QED
      BY <1>9, <2>2, <2>3, <2>4
  <1>13. RunsPlain'
    <2>1. SUFFICES ASSUME NEW i \in 1..Len(stack'), stack'[i].pc \in {"inner", "user", "fire"}
                   PROVE  result'[Cur(stack'[i])] \in Plain
      BY DEF RunsPlain
    <2>2. CASE i \in 1..n - 1
      BY <1>3, <1>8, <1>10, <2>1, <2>2, InnerCurrent DEF Keeps
    <2>3. CASE i = n
      BY <1>3, <1>5, <1>8, <2>3
    <2>4. i # n + 1
      BY <1>6, <1>8, <2>1
    <2>5. QED
      BY <1>9, <2>2, <2>3, <2>4
  <1>14. \A i \in 1..n - 1 : BusyFrame(stack[i]) => /\ called[Cur(stack[i])] /\ Cur(stack[i]) \in Deferreds
                                                    /\ Cur(stack[i]) # Current
    <2>1. SUFFICES ASSUME NEW i \in 1..n - 1, BusyFrame(stack[i])
                   PROVE  called[Cur(stack[i])] /\ Cur(stack[i]) \in Deferreds /\ Cur(stack[i]) # Current
      OBVIOUS
    <2>2. called[Cur(stack[i])] /\ Cur(stack[i]) \in Deferreds
      BY <1>10, <2>1, InnerCurrent DEF BusyFrame
    <2>3. Current \in Members(Top) /\ n \in 1..Len(stack)
      BY <1>1, TopFrame
    <2>4. QED
      BY <1>2, <1>10, <2>1, <2>2, <2>3 DEF StackInv, NotInChain, RunPcs
  <1>15. NotInChain'
    <2>1. SUFFICES ASSUME NEW i \in 1..Len(stack'), NEW j \in 1..Len(stack'), i < j,
                          BusyFrame(stack'[i]), stack'[j].pc \in RunPcs,
                          Cur(stack'[i]) \in Members(stack'[j])
                   PROVE  FALSE
      BY DEF NotInChain
    <2>2. CASE i \in 1..n - 1 /\ j \in 1..n - 1
      BY <1>8, <1>10, <2>1, <2>2 DEF StackInv, NotInChain
    <2>3. CASE i \in 1..n - 1 /\ j = n
      <3>1. n \in 1..Len(stack)
        BY <1>1
      <3>2. QED
        BY <1>2, <1>5, <1>8, <1>10, <2>1, <2>3, <3>1 DEF StackInv, NotInChain, RunPcs
    <2>4. CASE j = n + 1 /\ i \in 1..n - 1
      BY <1>3, <1>6, <1>8, <1>14, <2>1, <2>4
    <2>5. CASE j = n + 1 /\ i = n
      BY <1>3, <1>5, <1>6, <1>8, <2>1, <2>5
    <2>6. \/ i \in 1..n - 1 /\ (j \in 1..n - 1 \/ j = n \/ j = n + 1)
          \/ i = n /\ j = n + 1
      BY <1>8, <1>9, <2>1
    <2>7. QED
      BY <2>2, <2>3, <2>4, <2>5, <2>6
  <1>16. RunningFrames'
    <2>1. SUFFICES ASSUME NEW d \in Deferreds
                   PROVE  running'[d] <=> \E i \in 1..Len(stack') : BusyFrame(stack'[i]) /\ Cur(stack'[i]) = d
      BY DEF RunningFrames
    <2>2. running[d] <=> \E i \in 1..Len(stack) : BusyFrame(stack[i]) /\ Cur(stack[i]) = d
      BY DEF StackInv, RunningFrames
    <2>3. n \in 1..Len(stack') /\ BusyFrame(stack'[n]) /\ Cur(stack'[n]) = Current
      BY <1>1, <1>5, <1>8 DEF BusyFrame
    <2>4. \A i \in 1..Len(stack') : BusyFrame(stack'[i]) => i \in 1..n - 1 \/ i = n
      BY <1>6, <1>8, <1>9 DEF BusyFrame
    <2>5. \A i \in 1..Len(stack) : BusyFrame(stack[i]) => i \in 1..n - 1
      BY <1>1, <1>2 DEF BusyFrame
    <2>6. \A i \in 1..n - 1 : i \in 1..Len(stack')
      BY <1>8
    <2>7. CASE d = Current
      BY <1>2, <2>3, <2>7 DEF TypeInv
    <2>8. CASE d # Current
      <3>1. running'[d] = running[d]
        BY <1>2, <2>8 DEF TypeInv
      <3>2. QED
        BY <1>8, <1>10, <2>2, <2>3, <2>4, <2>5, <2>6, <2>8, <3>1
    <2>9. QED
      BY <2>7, <2>8
  <1>17. QED
    BY <1>11, <1>12, <1>13, <1>15, <1>16 DEF StackInv

\* No method and no step of _runCallbacks or cancel breaks the stack.
LEMMA StackStep ==
    ASSUME IInv, [Next]_vars
    PROVE  StackInv'
  <1> USE DEF IInv
  <1>1. ASSUME NEW d \in Deferreds, NEW r \in {"ok", "fail"}, Call(d, r)
        PROVE  StackInv'
    <2>1. CASE StartRunCallbacks(d, r, stack)
      BY <1>1, <2>1, StartKeeps, EnterFrame DEF Call, StartRunCallbacks, Below
    <2>2. CASE UNCHANGED <<called, result, stack>>
      BY <1>1, <2>2, SameStack DEF Call, Keeps
    <2>3. QED
      BY <1>1, <2>1, <2>2 DEF Call
  <1>2. ASSUME UNCHANGED <<called, result, running>>, NEW d \in Deferreds, InApplication,
               stack' = stack \/ (called[d] /\ stack' = EnterRunCallbacks(d, stack))
        PROVE  StackInv'
    BY <1>2, SameStack, EnterFrame DEF Keeps, Below
  <1>3. ASSUME NEW d \in Deferreds, NEW entry, AddEntry(d, entry)
        PROVE  StackInv'
    BY <1>2, <1>3 DEF AddEntry, RunIfCalled
  <1>4. ASSUME NEW d \in Deferreds, Pause(d) \/ Unpause(d)
        PROVE  StackInv'
    BY <1>2, <1>4 DEF Pause, Unpause
  <1>5. ASSUME NEW d \in Deferreds, NEW s, Below(s), stack' = Append(s, CancelFrame(d)),
               UNCHANGED <<called, result, running>>
        PROVE  StackInv'
    <2>1. CancelFrame(d) \in ActiveFrames /\ CancelFrame(d).pc = "cancel"
      BY FrameTypes, NewFrames
    <2>2. QED
      BY <1>5, <2>1, PushFrame DEF Keeps, RunPcs
  <1>6. ASSUME NEW d \in Deferreds, Cancel(d)
        PROVE  StackInv'
    BY <1>5, <1>6 DEF Cancel, Below
  <1>7. CASE CancelWithoutCanceller
    <2>1. stack # <<>> /\ Current \in Deferreds /\ Below(Pop(stack))
      BY <1>7, TopType DEF CancelWithoutCanceller, At, Below, BusyFrame
    <2>2. QED
      BY <1>7, <2>1, StartKeeps, EnterFrame DEF CancelWithoutCanceller, StartRunCallbacks
  <1>8. CASE CallCanceller
    <2>1. stack # <<>> /\ Current \in Cancellable /\ Top.pc = "cancel"
      BY <1>8 DEF CallCanceller, At
    <2>2. PICK f : f = [chain |-> Top.chain, pc |-> "canceller"]
      BY Zenon
    <2>3. stack' = [stack EXCEPT ![Len(stack)] = f] /\ stack' \in Stacks
      BY <1>8, <2>1, <2>2, GotoStack DEF CallCanceller
    <2>4. stack \in Seq(ActiveFrames) /\ Len(stack) \in Nat /\ Len(stack) > 0
      BY <2>1, TopType DEF TypeInv, Stacks
    <2>5. PICK m \in Nat : m = Len(stack) - 1
      BY <2>4
    <2>6. /\ m <= Len(stack) /\ Len(stack') = m + 1 /\ stack'[m + 1] = f
          /\ \A i \in 1..m : stack'[i] = stack[i] /\ i \in 1..Len(stack)
      BY <2>3, <2>4, <2>5
    <2>7. f.pc = "canceller" /\ f.pc \notin RunPcs /\ ~BusyFrame(f)
      BY <2>2 DEF RunPcs, BusyFrame
    <2>8. \A i \in 1..m : stack[i].pc \in {"user", "fire", "canceller"}
      BY <2>5 DEF StackInv, Waiting
    <2>9. UNCHANGED <<called, result, running>>
      BY <1>8 DEF CallCanceller
    <2>10. RunningFrames'
      BY <2>1, <2>3, <2>5, <2>6, <2>7, <2>9, SameRunning DEF Top, BusyFrame
    <2>11. \A i \in 1..m : stack[i].pc \in {"inner", "user", "fire"} => result'[Cur(stack[i])] \in Plain
      BY <2>6, <2>9, InnerCurrent
    <2>12. QED
      BY <2>3, <2>6, <2>7, <2>8, <2>9, <2>10, <2>11, TopChange
  <1>9. CASE CancellerReturns
    <2>1. stack # <<>> /\ Current \in Deferreds /\ ~BusyFrame(Top) /\ Below(Pop(stack))
      BY <1>9, TopType DEF CancellerReturns, At, Below, BusyFrame
    <2>2. CASE StartRunCallbacks(Current, "fail", Pop(stack))
      BY <1>9, <2>1, <2>2, StartKeeps, EnterFrame DEF CancellerReturns, StartRunCallbacks
    <2>3. CASE stack' = Pop(stack) /\ UNCHANGED <<called, result>>
      BY <1>9, <2>1, <2>3, PopFrame DEF CancellerReturns, Keeps
    <2>4. QED
      BY <1>9, <2>2, <2>3 DEF CancellerReturns
  <1>10. CASE CancellerRaises
    BY <1>10, PopFrame DEF CancellerRaises, At, BusyFrame, Keeps
  <1>11. CASE ForwardCancel
    <2>1. stack # <<>> /\ ~BusyFrame(Top) /\ Below(Pop(stack)) /\ UNCHANGED <<called, result, running>>
      BY <1>11 DEF ForwardCancel, At, Below, BusyFrame
    <2>2. CASE result[Current] \in Deferreds
      BY <1>5, <1>11, <2>1, <2>2 DEF ForwardCancel
    <2>3. CASE result[Current] \notin Deferreds
      BY <1>11, <2>1, <2>3, PopFrame DEF ForwardCancel, Keeps
    <2>4. QED
      BY <2>2, <2>3
  <1>12. CASE OuterLoop
    <2>1. stack # <<>> /\ Top.pc = "outer" /\ UNCHANGED <<called, result, running>>
      BY <1>12 DEF OuterLoop, At
    <2>2. Current \in Deferreds /\ called[Current] /\ Keeps
      BY <2>1, TopFrame DEF Keeps, RunPcs
    <2>3. CASE paused[Current] # 0
      BY <1>12, <2>1, <2>2, <2>3, PopFrame DEF OuterLoop, BusyFrame
    <2>4. CASE paused[Current] = 0
      <3>1. result[Current] \notin Deferreds
        BY <2>2, <2>4 DEF PauseBalance, TypeInv
      <3>2. result[Current] \in Plain
        BY <2>2, <3>1 DEF CalledInv, TypeInv, Results
      <3>3. stack' = Goto("inner")
        BY <1>12, <2>4 DEF OuterLoop
      <3>5. /\ stack' \in Stacks /\ Len(stack') = Len(stack)
            /\ \A i \in 1..Len(stack) - 1 : stack'[i] = stack[i]
            /\ stack'[Len(stack)].pc = "inner"
        BY <2>1, <3>3, GotoShape DEF RunPcs
      <3>6. RunningFrames'
        BY <2>1, <3>5, QuietTop DEF BusyFrame
      <3>7. QED
        BY <2>1, <2>2, <3>2, <3>3, <3>6, GotoFrame DEF RunPcs
    <2>5. QED
      BY <2>3, <2>4
  <1>13. CASE Finished
    <2>1. stack # <<>> /\ Top.pc = "inner" /\ UNCHANGED <<called, result, running>>
      BY <1>13 DEF Finished, At
    <2>2. Others
      BY <2>1, KeepsOthers DEF Keeps
    <2>3. RunningFrames'
      <3>1. stack' \in Stacks /\ \A i \in 1..Len(stack) - 1 : stack'[i] = stack[i]
        BY <1>13, <2>1, FinishedShape DEF Finished
      <3>2. Len(stack') = Len(stack) - 1 \/ (Len(stack') = Len(stack) /\ ~BusyFrame(stack'[Len(stack)]))
        BY <1>13, <2>1, FinishedShape DEF Finished
      <3>3. QED
        BY <2>1, <3>1, <3>2, QuietTop DEF BusyFrame
    <2>4. QED
      BY <1>13, <2>1, <2>2, <2>3, FinishFrame DEF Finished, RunPcs
  <1>14. CASE HandOver
    <2> DEFINE chainee == Head(callbacks[Current])[2]
               f == [chain |-> Append(Top.chain, chainee), pc |-> "outer"]
    <2>1. stack # <<>> /\ Top.pc = "inner" /\ UNCHANGED <<called, running>>
      BY <1>14 DEF HandOver, NextEntry, At
    <2>2. chainee \in Deferreds /\ result[chainee] = Current /\ Current \in Deferreds
      BY <1>14, ChaineeWaits DEF HandOver
    <2>3. Top \in ActiveFrames /\ result[Current] \in Plain /\ \A x \in Members(Top) : called[x]
      BY <2>1, TopFrame DEF RunPcs
    <2>4. Keeps
      <3>1. result' = [[result EXCEPT ![chainee] = result[Current]] EXCEPT ![Current] = "none"]
        BY <1>14, Zenon DEF HandOver
      <3>2. \A x \in Deferreds : result[x] \in Plain => result'[x] \in Plain
        BY <2>2, <2>3, <3>1 DEF TypeInv, Plain
      <3>3. QED
        BY <2>1, <3>2 DEF Keeps
    <2>5. ~running[chainee] /\ called[chainee]
      BY <2>2, WaiterIdle
    <2>6. f \in ActiveFrames
      <3>1. Append(Top.chain, chainee) \in Seq(Deferreds) /\ Append(Top.chain, chainee) # <<>>
        BY <2>1, <2>2, TopType
      <3>2. QED
        BY <3>1 DEF ActiveFrames, Frames, RunPcs
    <2>7. stack' = [stack EXCEPT ![Len(stack)] = f]
      BY <1>14, Zenon DEF HandOver
    <2>8. f.pc = "outer"
      OBVIOUS
    <2>9. \A x \in Members(f) : called'[x] /\ (x \in Members(Top) \/ ~running[x])
      <3>1. Members(f) \subseteq Members(Top) \cup {chainee}
        BY <2>2, <2>3, ExtendedChain
      <3>2. QED
        BY <2>1, <2>3, <2>5, <3>1
    <2>10. RunningFrames'
      <3> HIDE DEF f
      <3>1. stack \in Seq(ActiveFrames) /\ Len(stack) \in Nat /\ Len(stack) > 0
        BY <2>1, TopType DEF TypeInv, Stacks
      <3>2. /\ stack' \in Stacks /\ Len(stack') = Len(stack)
            /\ \A i \in 1..Len(stack) - 1 : stack'[i] = stack[i]
            /\ stack'[Len(stack)] = f
        BY <2>6, <2>7, <3>1 DEF Stacks
      <3>3. QED
        BY <2>1, <2>8, <3>2, QuietTop DEF BusyFrame
    <2>11. QED
      <3> HIDE DEF f
      <3> QED
        BY <2>1, <2>4, <2>6, <2>7, <2>8, <2>9, <2>10, KeepsOthers, ReplaceFrame DEF RunPcs
  <1>15. CASE CallUser
    <2>1. /\ stack # <<>> /\ Top.pc = "inner" /\ UNCHANGED <<called, result>> /\ stack' = Goto("user")
          /\ running' = [running EXCEPT ![Current] = TRUE]
      BY <1>15 DEF CallUser, NextEntry, At
    <2>2. result[Current] \in Plain /\ Keeps
      BY <2>1, TopFrame DEF Keeps
    <2>3. RunningFrames'
      BY <2>1, GotoShape, StartRunning DEF RunPcs, BusyFrame
    <2>4. QED
      BY <2>1, <2>2, <2>3, GotoFrame DEF RunPcs
  <1>16. ASSUME stack # <<>>, Top.pc \in {"user", "fire"}, UNCHANGED called, stack' = Goto("inner"),
                running' = [running EXCEPT ![Current] = FALSE],
                result'[Current] \in Plain, Keeps
         PROVE  StackInv'
    <2>1. RunningFrames'
      BY <1>16, GotoShape, StopRunning DEF RunPcs, BusyFrame
    <2>2. QED
      BY <1>16, <2>1, GotoFrame DEF RunPcs
  <1>17. ASSUME NEW r \in Plain, UserReturns(r)
         PROVE  StackInv'
    <2>1. stack # <<>> /\ Current \in Deferreds /\ Top.pc = "user"
      BY <1>17, TopType DEF UserReturns, At
    <2>2. result'[Current] \in Plain /\ Keeps
      BY <1>17, <2>1 DEF UserReturns, Keeps, TypeInv
    <2>3. QED
      BY <1>16, <1>17, <2>1, <2>2 DEF UserReturns
  <1>18. ASSUME NEW e \in Deferreds, UserReturnsFired(e)
         PROVE  StackInv'
    <2>1. stack # <<>> /\ Current \in Deferreds /\ Top.pc = "user"
      BY <1>18, TopType DEF UserReturnsFired, At
    <2>2. e # Current /\ result[e] \in Plain
      BY <1>18, DeferredAssumption DEF UserReturnsFired, HasResult, ReturnedResult, Plain
    <2>3. result'[Current] \in Plain /\ Keeps
      BY <1>18, <2>1, <2>2 DEF UserReturnsFired, Keeps, TypeInv, Plain
    <2>4. QED
      BY <1>16, <1>18, <2>1, <2>3 DEF UserReturnsFired
  <1>19. ASSUME NEW e \in Deferreds, UserReturnsWaiting(e)
         PROVE  StackInv'
    <2>1. /\ stack # <<>> /\ Top.pc = "user" /\ UNCHANGED called /\ stack' = FinishedFrame(stack)
          /\ running' = [running EXCEPT ![Current] = FALSE]
          /\ result' = [result EXCEPT ![Current] = e]
      BY <1>19 DEF UserReturnsWaiting, At
    <2>2. RunningFrames'
      BY <2>1, FinishedShape, StopRunning DEF BusyFrame
    <2>3. Others
      <3>1. SUFFICES ASSUME NEW i \in 1..Len(stack) - 1, BusyFrame(stack[i])
                     PROVE  result'[Cur(stack[i])] \in Plain
        BY <2>1 DEF Others
      <3>2. i \in 1..Len(stack) /\ i < Len(stack) /\ Len(stack) \in 1..Len(stack)
        BY <2>1, TopType
      <3>3. Cur(stack[i]) \in Deferreds /\ result[Cur(stack[i])] \in Plain
        BY <3>1, <3>2, InnerCurrent DEF BusyFrame
      <3>4. Current \in Members(Top) /\ Top = stack[Len(stack)]
        BY <2>1, TopFrame
      <3>5. Cur(stack[i]) # Current
        BY <2>1, <3>1, <3>2, <3>4 DEF StackInv, NotInChain, RunPcs
      <3>6. QED
        BY <2>1, <3>3, <3>5 DEF TypeInv
    <2>4. QED
      BY <2>1, <2>2, <2>3, FinishFrame DEF RunPcs
  <1>20. CASE CallChained
    <2> DEFINE e == Head(callbacks[Current])[2]
    <2>1. stack # <<>> /\ Top.pc = "inner" /\ Current \in Deferreds /\ e \in Deferreds
      BY <1>20, EntryType, EntryDeferred DEF CallChained, NextEntry, At
    <2>2. CASE /\ StartRunCallbacks(e, result[Current], Goto("fire"))
               /\ running' = [running EXCEPT ![Current] = TRUE]
      BY <2>1, <2>2, FireFrame
    <2>3. CASE /\ result' = [result EXCEPT ![Current] = IF suppress[e] THEN "none" ELSE "fail"]
               /\ UNCHANGED <<called, running, stack>>
      <3>1. Keeps
        BY <2>1, <2>3 DEF Keeps, TypeInv, Plain
      <3>2. QED
        BY <2>3, <3>1, SameStack
    <2>4. QED
      BY <1>20, <2>2, <2>3 DEF CallChained
  <1>21. CASE ChainedReturns
    <2>1. stack # <<>> /\ Current \in Deferreds /\ Top.pc = "fire"
      BY <1>21, TopType DEF ChainedReturns, At
    <2>2. result'[Current] \in Plain /\ Keeps
      BY <1>21, <2>1 DEF ChainedReturns, Keeps, TypeInv, Plain
    <2>3. QED
      BY <1>16, <1>21, <2>1, <2>2 DEF ChainedReturns
  <1>22. CASE UNCHANGED vars
    BY <1>22, SameStack DEF vars, Keeps
  <1>23. QED
    BY <1>1, <1>3, <1>4, <1>6, <1>7, <1>8, <1>9, <1>10, <1>11, <1>12, <1>13, <1>14, <1>15,
       <1>17, <1>18, <1>19, <1>20, <1>21, <1>22
       DEF Next, Application, Machinery, AddCallbacks, ChainDeferred

-------------------------------------------------------------------------------
(***************************************************************************)
(* Every step keeps CalledInv, ChainInv and PauseBalance.                  *)
(***************************************************************************)

\* The kinds of callback list entries do not overlap.
LEMMA EntryKinds ==
    /\ \A d, e \in Deferreds : Continue(d) = Continue(e) => d = e
    /\ \A d \in Deferreds : \A n \in Nat : Continue(d) # User(n)
    /\ \A d, e \in Deferreds : Continue(d) # Fire(e)
  BY DEF Continue, User, Fire

\* No Deferred begins or ends waiting for another one.
SameWaits ==
    \A x \in Deferreds :
        result[x] \in Deferreds \/ result'[x] \in Deferreds => result'[x] = result[x]

\* A step that moves no Deferred into or out of waiting and no continuation
\* keeps the chains.
LEMMA SameChains ==
    ASSUME IInv,
           SameWaits,
           UNCHANGED callbacks
    PROVE  ChainInv'
  <1>1. \A d, e \in Deferreds : result'[d] = e <=> result[d] = e
    BY DEF SameWaits
  <1>2. QED
    BY <1>1 DEF IInv, ChainInv, WaitsThere, HasContinuation, OneContinuation

\* So does appending an entry that is no continuation to a list.
LEMMA AppendEntry ==
    ASSUME IInv, UNCHANGED result, NEW x \in Deferreds, NEW entry \in Entries,
           \A d \in Deferreds : entry # Continue(d),
           callbacks' = [callbacks EXCEPT ![x] = Append(@, entry)]
    PROVE  ChainInv'
  <1>1. callbacks[x] \in Seq(Entries) /\ Len(callbacks[x]) \in Nat
    BY DEF IInv, TypeInv
  <1>2. /\ \A e \in Deferreds : e # x => callbacks'[e] = callbacks[e]
        /\ callbacks'[x] = Append(callbacks[x], entry)
    BY DEF IInv, TypeInv
  <1>3. /\ Len(callbacks'[x]) = Len(callbacks[x]) + 1
        /\ \A i \in 1..Len(callbacks[x]) : callbacks'[x][i] = callbacks[x][i]
        /\ callbacks'[x][Len(callbacks[x]) + 1] = entry
    BY <1>1, <1>2
  <1>4. \A e \in Deferreds : \A i \in 1..Len(callbacks'[e]) : \A d \in Deferreds :
            callbacks'[e][i] = Continue(d) =>
                i \in 1..Len(callbacks[e]) /\ callbacks[e][i] = Continue(d)
    <2>1. SUFFICES ASSUME NEW e \in Deferreds, NEW i \in 1..Len(callbacks'[e]), NEW d \in Deferreds,
                          callbacks'[e][i] = Continue(d)
                   PROVE  i \in 1..Len(callbacks[e]) /\ callbacks[e][i] = Continue(d)
      OBVIOUS
    <2>2. CASE e # x
      BY <1>2, <2>1, <2>2
    <2>3. CASE e = x
      <3>1. i \in 1..Len(callbacks[x]) \/ i = Len(callbacks[x]) + 1
        BY <1>1, <1>3, <2>1, <2>3
      <3>2. QED
        BY <1>3, <2>1, <2>3, <3>1
    <2>4. QED
      BY <2>2, <2>3
  <1>5. \A e \in Deferreds : \A i \in 1..Len(callbacks[e]) :
            i \in 1..Len(callbacks'[e]) /\ callbacks'[e][i] = callbacks[e][i]
    BY <1>1, <1>2, <1>3
  <1>6. WaitsThere'
    BY <1>4 DEF IInv, ChainInv, WaitsThere
  <1>7. HasContinuation'
    BY <1>5 DEF IInv, ChainInv, HasContinuation
  <1>8. OneContinuation'
    BY <1>4 DEF IInv, ChainInv, OneContinuation
  <1>9. QED
    BY <1>6, <1>7, <1>8 DEF ChainInv

\* What is left of the callback list when an entry was taken off.
LEMMA TakenEntry ==
    ASSUME TypeInv, NEW type, NextEntry(type)
    PROVE  /\ Current \in Deferreds
           /\ \A e \in Deferreds : e # Current => callbacks'[e] = callbacks[e]
           /\ Len(callbacks[Current]) \in Nat
           /\ Len(callbacks'[Current]) = Len(callbacks[Current]) - 1
           /\ \A i \in 1..Len(callbacks'[Current]) : callbacks'[Current][i] = callbacks[Current][i + 1]
           /\ callbacks[Current][1] = Head(callbacks[Current]) /\ Len(callbacks[Current]) > 0
  <1>1. Current \in Deferreds
    BY EntryType
  <1>2. callbacks[Current] \in Seq(Entries) /\ callbacks[Current] # <<>>
    BY <1>1 DEF NextEntry, TypeInv
  <1>3. callbacks' = [callbacks EXCEPT ![Current] = Tail(callbacks[Current])]
    BY DEF NextEntry
  <1>4. /\ callbacks'[Current] = Tail(callbacks[Current])
        /\ \A e \in Deferreds : e # Current => callbacks'[e] = callbacks[e]
    BY <1>1, <1>3 DEF TypeInv
  <1>5. /\ Len(Tail(callbacks[Current])) = Len(callbacks[Current]) - 1
        /\ \A i \in 1..Len(Tail(callbacks[Current])) : Tail(callbacks[Current])[i] = callbacks[Current][i + 1]
    BY <1>2, HeadTailProperties
  <1>6. Len(callbacks[Current]) \in Nat /\ callbacks[Current][1] = Head(callbacks[Current]) /\ Len(callbacks[Current]) > 0
    BY <1>2
  <1>7. QED
    BY <1>1, <1>4, <1>5, <1>6

\* Taking off an entry that is no continuation keeps the chains.
LEMMA TakeOther ==
    ASSUME IInv, NEW type, NextEntry(type), type # "continue", SameWaits
    PROVE  ChainInv'
  <1>1. /\ Current \in Deferreds
        /\ \A e \in Deferreds : e # Current => callbacks'[e] = callbacks[e]
        /\ Len(callbacks[Current]) \in Nat
        /\ Len(callbacks'[Current]) = Len(callbacks[Current]) - 1
        /\ \A i \in 1..Len(callbacks'[Current]) : callbacks'[Current][i] = callbacks[Current][i + 1]
        /\ callbacks[Current][1] = Head(callbacks[Current])
        /\ Len(callbacks[Current]) > 0
    BY TakenEntry DEF IInv
  <1>2. \A d \in Deferreds : callbacks[Current][1] # Continue(d)
    BY <1>1 DEF NextEntry, Continue
  <1>3. \A d, e \in Deferreds : result'[d] = e <=> result[d] = e
    BY DEF SameWaits
  <1>4. \A i \in 1..Len(callbacks'[Current]) : i + 1 \in 1..Len(callbacks[Current])
    BY <1>1
  <1>5. WaitsThere'
    <2>1. SUFFICES ASSUME NEW d \in Deferreds, NEW e \in Deferreds, NEW i \in 1..Len(callbacks'[e]),
                          callbacks'[e][i] = Continue(d)
                   PROVE  result[d] = e
      BY <1>3 DEF WaitsThere
    <2>2. QED
      BY <1>1, <1>4, <2>1 DEF IInv, ChainInv, WaitsThere
  <1>6. HasContinuation'
    <2>1. SUFFICES ASSUME NEW d \in Deferreds, NEW e \in Deferreds, result[d] = e
                   PROVE  \E i \in 1..Len(callbacks'[e]) : callbacks'[e][i] = Continue(d)
      BY <1>3 DEF HasContinuation
    <2>2. PICK i \in 1..Len(callbacks[e]) : callbacks[e][i] = Continue(d)
      BY <2>1 DEF IInv, ChainInv, HasContinuation
    <2>3. CASE e # Current
      BY <1>1, <2>2, <2>3
    <2>4. CASE e = Current
      <3>1. i # 1
        BY <1>2, <2>2, <2>4
      <3>2. i - 1 \in 1..Len(callbacks'[Current]) /\ i - 1 + 1 = i
        BY <1>1, <2>2, <2>4, <3>1
      <3>3. QED
        BY <1>1, <2>2, <2>4, <3>2
    <2>5. QED
      BY <2>3, <2>4
  <1>7. OneContinuation'
    <2>1. SUFFICES ASSUME NEW d \in Deferreds, NEW e \in Deferreds,
                          NEW i \in 1..Len(callbacks'[e]), NEW j \in 1..Len(callbacks'[e]),
                          callbacks'[e][i] = Continue(d), callbacks'[e][j] = Continue(d)
                   PROVE  i = j
      BY DEF OneContinuation
    <2>2. CASE e # Current
      BY <1>1, <2>1, <2>2 DEF IInv, ChainInv, OneContinuation
    <2>3. CASE e = Current
      <3>1. /\ i + 1 \in 1..Len(callbacks[Current]) /\ callbacks[Current][i + 1] = Continue(d)
            /\ j + 1 \in 1..Len(callbacks[Current]) /\ callbacks[Current][j + 1] = Continue(d)
        BY <1>1, <1>4, <2>1, <2>3
      <3>2. i + 1 = j + 1
        BY <1>1, <3>1, Zenon DEF IInv, ChainInv, OneContinuation
      <3>3. QED
        BY <3>2
    <2>4. QED
      BY <2>2, <2>3
  <1>8. QED
    BY <1>5, <1>6, <1>7 DEF ChainInv

\* Handing the result over: the continuation and the wait end together.
LEMMA HandOverChains ==
    ASSUME IInv, HandOver
    PROVE  ChainInv'
  <1> DEFINE chainee == Head(callbacks[Current])[2]
  <1>1. /\ Current \in Deferreds
        /\ \A e \in Deferreds : e # Current => callbacks'[e] = callbacks[e]
        /\ Len(callbacks[Current]) \in Nat
        /\ Len(callbacks'[Current]) = Len(callbacks[Current]) - 1
        /\ \A i \in 1..Len(callbacks'[Current]) : callbacks'[Current][i] = callbacks[Current][i + 1]
        /\ callbacks[Current][1] = Head(callbacks[Current])
        /\ Len(callbacks[Current]) > 0
    BY TakenEntry DEF IInv, HandOver
  <1>2. /\ chainee \in Deferreds /\ callbacks[Current][1] = Continue(chainee)
        /\ result[chainee] = Current
    BY <1>1, ChaineeWaits DEF IInv, HandOver
  <1>3. result[Current] \in Plain
    BY TopFrame DEF IInv, HandOver, NextEntry, At
  <1>4. Current # chainee /\ result[Current] \notin Deferreds /\ "none" \notin Deferreds
    BY <1>1, <1>2, <1>3, DeferredAssumption DEF Plain
  <1>5. result' = [[result EXCEPT ![chainee] = result[Current]] EXCEPT ![Current] = "none"]
    BY Zenon DEF HandOver
  <1> HIDE DEF chainee
  <1>6. /\ result'[chainee] \notin Deferreds
        /\ \A d, e \in Deferreds : d # chainee => (result'[d] = e <=> result[d] = e)
    BY <1>1, <1>2, <1>4, <1>5 DEF IInv, TypeInv
  <1>7. \A i \in 1..Len(callbacks'[Current]) : i + 1 \in 1..Len(callbacks[Current]) /\ i + 1 # 1
    BY <1>1
  <1>8. 1 \in 1..Len(callbacks[Current])
    BY <1>1
  <1>9. \A i \in 1..Len(callbacks'[Current]) : callbacks'[Current][i] # Continue(chainee)
    BY <1>1, <1>2, <1>7, <1>8 DEF IInv, ChainInv, OneContinuation
  <1>10. WaitsThere'
    <2>1. SUFFICES ASSUME NEW d \in Deferreds, NEW e \in Deferreds, NEW i \in 1..Len(callbacks'[e]),
                          callbacks'[e][i] = Continue(d)
                   PROVE  result'[d] = e
      BY DEF WaitsThere
    <2>2. result[d] = e
      BY <1>1, <1>7, <2>1 DEF IInv, ChainInv, WaitsThere
    <2>3. d # chainee
      BY <1>2, <1>9, <2>1, <2>2
    <2>4. QED
      BY <1>6, <2>2, <2>3
  <1>11. HasContinuation'
    <2>1. SUFFICES ASSUME NEW d \in Deferreds, NEW e \in Deferreds, result'[d] = e
                   PROVE  \E i \in 1..Len(callbacks'[e]) : callbacks'[e][i] = Continue(d)
      BY DEF HasContinuation
    <2>2. d # chainee /\ result[d] = e
      BY <1>6, <2>1
    <2>3. PICK i \in 1..Len(callbacks[e]) : callbacks[e][i] = Continue(d)
      BY <2>2 DEF IInv, ChainInv, HasContinuation
    <2>4. CASE e # Current
      BY <1>1, <2>3, <2>4
    <2>5. CASE e = Current
      <3>1. i # 1
        BY <1>2, <2>2, <2>3, <2>5, EntryKinds
      <3>2. i - 1 \in 1..Len(callbacks'[Current]) /\ i - 1 + 1 = i
        BY <1>1, <2>3, <2>5, <3>1
      <3>3. QED
        BY <1>1, <2>3, <2>5, <3>2
    <2>6. QED
      BY <2>4, <2>5
  <1>12. OneContinuation'
    <2>1. SUFFICES ASSUME NEW d \in Deferreds, NEW e \in Deferreds,
                          NEW i \in 1..Len(callbacks'[e]), NEW j \in 1..Len(callbacks'[e]),
                          callbacks'[e][i] = Continue(d), callbacks'[e][j] = Continue(d)
                   PROVE  i = j
      BY DEF OneContinuation
    <2>2. CASE e # Current
      BY <1>1, <2>1, <2>2 DEF IInv, ChainInv, OneContinuation
    <2>3. CASE e = Current
      <3>1. /\ i + 1 \in 1..Len(callbacks[Current]) /\ callbacks[Current][i + 1] = Continue(d)
            /\ j + 1 \in 1..Len(callbacks[Current]) /\ callbacks[Current][j + 1] = Continue(d)
        BY <1>1, <1>7, <2>1, <2>3
      <3>2. i + 1 = j + 1
        BY <1>1, <3>1, Zenon DEF IInv, ChainInv, OneContinuation
      <3>3. QED
        BY <3>2
    <2>4. QED
      BY <2>2, <2>3
  <1>13. QED
    BY <1>10, <1>11, <1>12 DEF ChainInv

\* Beginning to wait: the Deferred had no continuation anywhere, and gets one.
LEMMA WaitChains ==
    ASSUME IInv, NEW x \in Deferreds, UserReturnsWaiting(x)
    PROVE  ChainInv'
  <1>1. Current \in Deferreds /\ result[Current] \in Plain
    BY TopFrame DEF IInv, UserReturnsWaiting, At
  <1>2. result[Current] \notin Deferreds
    BY <1>1, DeferredAssumption DEF Plain
  <1>3. \A e \in Deferreds : \A i \in 1..Len(callbacks[e]) : callbacks[e][i] # Continue(Current)
    BY <1>1, <1>2 DEF IInv, ChainInv, WaitsThere
  <1>4. /\ result'[Current] = x
        /\ \A d \in Deferreds : d # Current => result'[d] = result[d]
    BY <1>1 DEF UserReturnsWaiting, IInv, TypeInv
  <1>5. callbacks' = [callbacks EXCEPT ![x] = Append(callbacks[x], Continue(Current))]
    BY DEF UserReturnsWaiting
  <1>6. /\ \A e \in Deferreds : e # x => callbacks'[e] = callbacks[e]
        /\ callbacks'[x] = Append(callbacks[x], Continue(Current))
    BY <1>5 DEF IInv, TypeInv
  <1>7. callbacks[x] \in Seq(Entries) /\ Len(callbacks[x]) \in Nat
    BY DEF IInv, TypeInv
  <1>8. /\ Len(callbacks'[x]) = Len(callbacks[x]) + 1
        /\ \A i \in 1..Len(callbacks[x]) : callbacks'[x][i] = callbacks[x][i]
        /\ callbacks'[x][Len(callbacks[x]) + 1] = Continue(Current)
    BY <1>6, <1>7
  <1>9. \A e \in Deferreds : \A i \in 1..Len(callbacks[e]) :
            i \in 1..Len(callbacks'[e]) /\ callbacks'[e][i] = callbacks[e][i]
    BY <1>6, <1>7, <1>8
  <1>10. \A e \in Deferreds : \A i \in 1..Len(callbacks'[e]) :
             i \in 1..Len(callbacks[e]) \/ (e = x /\ i = Len(callbacks[x]) + 1)
    BY <1>6, <1>7, <1>8
  <1>11. \A d, e \in Deferreds : \A i \in 1..Len(callbacks'[e]) : callbacks'[e][i] = Continue(d) =>
             \/ d # Current /\ i \in 1..Len(callbacks[e]) /\ callbacks[e][i] = Continue(d)
             \/ d = Current /\ e = x /\ i = Len(callbacks[x]) + 1
    BY <1>1, <1>3, <1>8, <1>9, <1>10, EntryKinds
  <1>12. WaitsThere'
    BY <1>4, <1>11 DEF IInv, ChainInv, WaitsThere
  <1>13. HasContinuation'
    <2>1. SUFFICES ASSUME NEW d \in Deferreds, NEW e \in Deferreds, result'[d] = e
                   PROVE  \E i \in 1..Len(callbacks'[e]) : callbacks'[e][i] = Continue(d)
      BY DEF HasContinuation
    <2>2. CASE d = Current
      <3>1. Len(callbacks[x]) + 1 \in 1..Len(callbacks'[x]) /\ e = x
        BY <1>4, <1>7, <1>8, <2>1, <2>2
      <3>2. QED
        BY <1>8, <2>2, <3>1
    <2>3. CASE d # Current
      BY <1>4, <1>9, <2>1, <2>3 DEF IInv, ChainInv, HasContinuation
    <2>4. QED
      BY <2>2, <2>3
  <1>14. OneContinuation'
    BY <1>11 DEF IInv, ChainInv, OneContinuation
  <1>15. QED
    BY <1>12, <1>13, <1>14 DEF ChainInv

\* The pause counters stay right when nobody pauses and nobody begins to wait.
LEMMA SamePauses ==
    ASSUME IInv, UNCHANGED <<paused, userPaused>>, SameWaits
    PROVE  PauseBalance'
  <1>1. \A x \in Deferreds : result'[x] \in Deferreds <=> result[x] \in Deferreds
    BY DEF SameWaits
  <1>2. QED
    BY <1>1 DEF IInv, PauseBalance

\* A first result: the Deferred had none and waited for nobody.
LEMMA StartResult ==
    ASSUME IInv, NEW d \in Deferreds, NEW r \in Plain, NEW s, StartRunCallbacks(d, r, s)
    PROVE  SameWaits /\ CalledInv'
  <1>1. result[d] = "no result" /\ r \notin Deferreds /\ "no result" \notin Deferreds /\ r # "no result"
    BY DeferredAssumption DEF StartRunCallbacks, IInv, CalledInv, Plain
  <1>2. /\ result'[d] = r /\ called'[d]
        /\ \A x \in Deferreds : x # d => result'[x] = result[x] /\ called'[x] = called[x]
    BY DEF StartRunCallbacks, IInv, TypeInv
  <1>3. SameWaits
    BY <1>1, <1>2 DEF SameWaits
  <1>4. CalledInv'
    BY <1>1, <1>2 DEF IInv, CalledInv
  <1>5. QED
    BY <1>3, <1>4

\* A new plain result for a Deferred that was called and waits for nobody.
LEMMA PlainResult ==
    ASSUME IInv, NEW d \in Deferreds, NEW r \in Plain, called[d], result[d] \in Plain,
           UNCHANGED called, result' = [result EXCEPT ![d] = r]
    PROVE  SameWaits /\ CalledInv'
  <1>1. r \notin Deferreds /\ result[d] \notin Deferreds /\ r # "no result"
    BY DeferredAssumption DEF Plain
  <1>2. result'[d] = r /\ \A x \in Deferreds : x # d => result'[x] = result[x]
    BY DEF IInv, TypeInv
  <1>3. QED
    BY <1>1, <1>2 DEF IInv, CalledInv, SameWaits

\* Every step keeps the results, the chains and the pause counters consistent.
LEMMA ChainStep ==
    ASSUME IInv, [Next]_vars
    PROVE  CalledInv' /\ ChainInv' /\ PauseBalance'
  <1> DEFINE Goal == CalledInv' /\ ChainInv' /\ PauseBalance'
  <1>0. "ok" \in Plain /\ "fail" \in Plain /\ "none" \in Plain
    BY DEF Plain
  <1>a. ASSUME UNCHANGED <<callbacks, paused, userPaused>>, SameWaits, CalledInv'
        PROVE  Goal
    BY <1>a, SameChains, SamePauses
  <1>b. ASSUME UNCHANGED <<called, result, callbacks, paused, userPaused>>
        PROVE  Goal
    BY <1>a, <1>b DEF SameWaits, IInv, CalledInv
  <1>1. ASSUME NEW d \in Deferreds, NEW r \in {"ok", "fail"}, Call(d, r)
        PROVE  Goal
    <2>1. CASE StartRunCallbacks(d, r, stack)
      BY <1>0, <1>1, <1>a, <2>1, StartResult DEF Call
    <2>2. CASE UNCHANGED <<called, result, stack>>
      BY <1>1, <1>b, <2>2 DEF Call
    <2>3. QED
      BY <1>1, <2>1, <2>2 DEF Call
  <1>2. ASSUME NEW d \in Deferreds, NEW entry \in Entries, \A e \in Deferreds : entry # Continue(e),
               AddEntry(d, entry)
        PROVE  Goal
    <2>1. UNCHANGED <<called, result, paused, userPaused>>
      BY <1>2 DEF AddEntry
    <2>2. ChainInv'
      BY <1>2, <2>1, AppendEntry DEF AddEntry
    <2>3. QED
      BY <2>1, <2>2, SamePauses DEF SameWaits, IInv, CalledInv
  <1>3. ASSUME NEW d \in Deferreds, AddCallbacks(d)
        PROVE  Goal
    <2>1. added[d] \in Nat
      BY DEF IInv, TypeInv
    <2>2. User(added[d]) \in Entries
      BY <2>1 DEF User, Entries
    <2>3. \A e \in Deferreds : User(added[d]) # Continue(e)
      BY <2>1, EntryKinds
    <2>4. QED
      BY <1>2, <1>3, <2>2, <2>3 DEF AddCallbacks
  <1>4. ASSUME NEW d \in Deferreds, NEW e \in Deferreds, ChainDeferred(d, e)
        PROVE  Goal
    <2>1. Fire(e) \in Entries /\ \A x \in Deferreds : Fire(e) # Continue(x)
      BY EntryKinds DEF Fire, Entries
    <2>2. QED
      BY <1>2, <1>4, <2>1 DEF ChainDeferred
  <1>5. ASSUME NEW d \in Deferreds, NEW k \in {-1, 1},
               paused' = [paused EXCEPT ![d] = @ + k], userPaused' = [userPaused EXCEPT ![d] = @ + k],
               UNCHANGED <<called, result, callbacks>>
        PROVE  Goal
    <2>1. \A x \in Deferreds : paused[x] \in Int /\ userPaused[x] \in Nat
      BY DEF IInv, TypeInv
    <2>2. /\ paused'[d] = paused[d] + k /\ userPaused'[d] = userPaused[d] + k
          /\ \A x \in Deferreds : x # d => paused'[x] = paused[x] /\ userPaused'[x] = userPaused[x]
      BY <1>5 DEF IInv, TypeInv
    <2>3. PauseBalance'
      BY <1>5, <2>1, <2>2 DEF IInv, PauseBalance
    <2>4. QED
      BY <1>5, <2>3, SameChains DEF SameWaits, IInv, CalledInv
  <1>6. ASSUME NEW d \in Deferreds, Pause(d)
        PROVE  Goal
    BY <1>5, <1>6 DEF Pause
  <1>7. ASSUME NEW d \in Deferreds, Unpause(d)
        PROVE  Goal
    <2>1. paused' = [paused EXCEPT ![d] = @ + (-1)] /\ userPaused' = [userPaused EXCEPT ![d] = @ + (-1)]
      BY <1>7 DEF Unpause, IInv, TypeInv
    <2>2. QED
      BY <1>5, <1>7, <2>1 DEF Unpause
  <1>8. CASE CancelWithoutCanceller
    BY <1>0, <1>8, <1>a, StartResult, TopType DEF CancelWithoutCanceller, At, IInv
  <1>9. CASE CancellerReturns
    <2>1. Current \in Deferreds
      BY <1>9, TopType DEF CancellerReturns, At, IInv
    <2>2. CASE StartRunCallbacks(Current, "fail", Pop(stack))
      BY <1>0, <1>9, <1>a, <2>1, <2>2, StartResult DEF CancellerReturns
    <2>3. CASE UNCHANGED <<called, result>>
      BY <1>9, <1>b, <2>3 DEF CancellerReturns
    <2>4. QED
      BY <1>9, <2>2, <2>3 DEF CancellerReturns
  <1>10. CASE \/ CallCanceller \/ CancellerRaises \/ ForwardCancel \/ OuterLoop \/ Finished
              \/ \E d \in Deferreds : Cancel(d)
    BY <1>10, <1>b DEF CallCanceller, CancellerRaises, ForwardCancel, OuterLoop, Finished, Cancel
  <1>11. CASE HandOver
    <2> DEFINE chainee == Head(callbacks[Current])[2]
    <2>1. chainee \in Deferreds /\ result[chainee] = Current /\ Current \in Deferreds
      BY <1>11, ChaineeWaits DEF HandOver, IInv
    <2>2. result[Current] \in Plain /\ called[Current]
      BY <1>11, TopFrame DEF HandOver, NextEntry, At, IInv, RunPcs
    <2>3. called[chainee]
      BY <2>1, WaiterIdle DEF IInv
    <2>4. /\ result[Current] \notin Deferreds /\ "none" \notin Deferreds /\ chainee # Current
          /\ "none" # "no result" /\ result[Current] # "no result"
      BY <2>1, <2>2, DeferredAssumption DEF Plain
    <2>5. result' = [[result EXCEPT ![chainee] = result[Current]] EXCEPT ![Current] = "none"]
      BY <1>11, Zenon DEF HandOver
    <2>6. paused' = [paused EXCEPT ![chainee] = @ - 1]
      BY <1>11, Zenon DEF HandOver, Resume
    <2>7. UNCHANGED <<called, userPaused>>
      BY <1>11 DEF HandOver
    <2> HIDE DEF chainee
    <2>8. /\ result'[chainee] = result[Current] /\ result'[Current] = "none"
          /\ \A x \in Deferreds : x # chainee /\ x # Current => result'[x] = result[x]
      BY <2>1, <2>4, <2>5 DEF IInv, TypeInv
    <2>9. CalledInv'
      BY <2>1, <2>2, <2>3, <2>4, <2>7, <2>8 DEF IInv, CalledInv
    <2>10. \A x \in Deferreds : paused[x] \in Int /\ userPaused[x] \in Nat
      BY DEF IInv, TypeInv
    <2>11. paused'[chainee] = paused[chainee] - 1 /\ \A x \in Deferreds : x # chainee => paused'[x] = paused[x]
      BY <2>1, <2>6 DEF IInv, TypeInv
    <2>12. paused[chainee] = userPaused[chainee] + 1
      BY <2>1 DEF IInv, PauseBalance
    <2>13. PauseBalance'
      <3>1. SUFFICES ASSUME NEW x \in Deferreds
                     PROVE  paused'[x] = userPaused'[x] + (IF result'[x] \in Deferreds THEN 1 ELSE 0)
        BY DEF PauseBalance
      <3>2. CASE x = chainee
        <4>1. result'[x] \notin Deferreds /\ userPaused'[x] = userPaused[x]
          BY <2>4, <2>7, <2>8, <3>2
        <4>2. paused'[x] = userPaused[x]
          <5>1. userPaused[chainee] \in Int
            BY <2>1, <2>10
          <5>2. QED
            BY <2>11, <2>12, <3>2, <5>1
        <4>3. userPaused[x] \in Nat
          BY <2>10
        <4>4. QED
          BY <4>1, <4>2, <4>3
      <3>3. CASE x # chainee
        <4>1. result'[x] \in Deferreds <=> result[x] \in Deferreds
          BY <2>4, <2>8, <3>3
        <4>2. QED
          BY <2>7, <2>11, <3>3, <4>1 DEF IInv, PauseBalance
      <3>4. QED
        BY <3>2, <3>3
    <2>14. QED
      BY <1>11, <2>9, <2>13, HandOverChains
  <1>12. CASE CallUser
    <2>1. SameWaits /\ UNCHANGED <<called, result, paused, userPaused>> /\ NextEntry("user")
      BY <1>12 DEF CallUser, SameWaits
    <2>2. ChainInv'
      BY <2>1, TakeOther
    <2>3. QED
      BY <2>1, <2>2, SamePauses DEF IInv, CalledInv
  <1>13. ASSUME stack # <<>>, Top.pc \in {"user", "fire"}, NEW r \in Plain,
                UNCHANGED <<called, callbacks, paused, userPaused>>,
                result' = [result EXCEPT ![Current] = r]
         PROVE  Goal
    <2>1. Current \in Deferreds /\ called[Current] /\ result[Current] \in Plain
      BY <1>13, TopFrame DEF IInv, RunPcs
    <2>2. QED
      BY <1>13, <1>a, <2>1, PlainResult
  <1>14. ASSUME NEW r \in Plain, UserReturns(r)
         PROVE  Goal
    BY <1>13, <1>14 DEF UserReturns, At
  <1>15. CASE ChainedReturns
    BY <1>0, <1>13, <1>15 DEF ChainedReturns, At
  <1>16. ASSUME NEW e \in Deferreds, UserReturnsFired(e)
         PROVE  Goal
    <2>1. Current \in Deferreds /\ called[Current] /\ result[Current] \in Plain
      BY <1>16, TopFrame DEF UserReturnsFired, At, IInv, RunPcs
    <2>2. e # Current /\ result[e] \in Plain
      BY <1>16, DeferredAssumption DEF UserReturnsFired, HasResult, ReturnedResult, Plain
    <2>3. \A r \in Plain : r \notin Deferreds /\ r # "no result"
      BY DeferredAssumption DEF Plain
    <2>4. /\ result'[Current] = result[e] /\ result'[e] = "none"
          /\ \A x \in Deferreds : x # e /\ x # Current => result'[x] = result[x]
      BY <1>16, <2>1, <2>2 DEF UserReturnsFired, IInv, TypeInv
    <2>5. SameWaits
      BY <1>0, <2>1, <2>2, <2>3, <2>4 DEF SameWaits
    <2>6. UNCHANGED <<called, callbacks, paused, userPaused>>
      BY <1>16 DEF UserReturnsFired
    <2>7. CalledInv'
      BY <1>0, <2>1, <2>2, <2>3, <2>4, <2>6 DEF IInv, CalledInv
    <2>8. QED
      BY <1>a, <2>5, <2>6, <2>7
  <1>17. ASSUME NEW e \in Deferreds, UserReturnsWaiting(e)
         PROVE  Goal
    <2>1. Current \in Deferreds /\ called[Current] /\ result[Current] \in Plain
      BY <1>17, TopFrame DEF UserReturnsWaiting, At, IInv, RunPcs
    <2>2. result[Current] \notin Deferreds /\ e # "no result"
      BY <2>1, DeferredAssumption DEF Plain
    <2>3. result'[Current] = e /\ \A x \in Deferreds : x # Current => result'[x] = result[x]
      BY <1>17, <2>1 DEF UserReturnsWaiting, IInv, TypeInv
    <2>4. paused'[Current] = paused[Current] + 1 /\ \A x \in Deferreds : x # Current => paused'[x] = paused[x]
      BY <1>17, <2>1 DEF UserReturnsWaiting, PauseToWait, IInv, TypeInv
    <2>5. UNCHANGED <<called, userPaused>>
      BY <1>17 DEF UserReturnsWaiting
    <2>6. CalledInv'
      BY <2>1, <2>2, <2>3, <2>5 DEF IInv, CalledInv
    <2>7. \A x \in Deferreds : userPaused[x] \in Nat
      BY DEF IInv, TypeInv
    <2>8. paused[Current] = userPaused[Current]
      <3>1. paused[Current] = userPaused[Current] + (IF result[Current] \in Deferreds THEN 1 ELSE 0)
        BY <2>1 DEF IInv, PauseBalance
      <3>2. userPaused[Current] \in Nat
        BY <2>1, <2>7
      <3>3. paused[Current] = userPaused[Current] + 0
        BY <2>2, <3>1, Zenon
      <3>4. QED
        BY <3>2, <3>3
    <2>9. PauseBalance'
      <3>1. SUFFICES ASSUME NEW x \in Deferreds
                     PROVE  paused'[x] = userPaused'[x] + (IF result'[x] \in Deferreds THEN 1 ELSE 0)
        BY DEF PauseBalance
      <3>2. CASE x = Current
        BY <2>3, <2>4, <2>5, <2>8, <3>2
      <3>3. CASE x # Current
        BY <2>3, <2>4, <2>5, <3>3 DEF IInv, PauseBalance
      <3>4. QED
        BY <3>2, <3>3
    <2>10. QED
      BY <1>17, <2>6, <2>9, WaitChains
  <1>18. CASE CallChained
    <2> DEFINE e == Head(callbacks[Current])[2]
    <2>1. Current \in Deferreds /\ e \in Deferreds
      BY <1>18, EntryType, EntryDeferred DEF CallChained, NextEntry, IInv
    <2>2. called[Current] /\ result[Current] \in Plain
      BY <1>18, TopFrame DEF CallChained, NextEntry, At, IInv, RunPcs
    <2>3. UNCHANGED <<paused, userPaused>> /\ NextEntry("fire")
      BY <1>18 DEF CallChained
    <2>4. ASSUME SameWaits, CalledInv'
          PROVE  Goal
      BY <2>3, <2>4, TakeOther, SamePauses
    <2>5. CASE StartRunCallbacks(e, result[Current], Goto("fire"))
      BY <2>1, <2>2, <2>4, <2>5, StartResult
    <2>6. CASE /\ result' = [result EXCEPT ![Current] = IF suppress[e] THEN "none" ELSE "fail"]
               /\ UNCHANGED <<called, running, stack>>
      BY <1>0, <2>1, <2>2, <2>4, <2>6, PlainResult
    <2>7. QED
      BY <1>18, <2>5, <2>6 DEF CallChained
  <1>19. CASE UNCHANGED vars
    BY <1>19, <1>b DEF vars
  <1>20. QED
    BY <1>1, <1>3, <1>4, <1>6, <1>7, <1>8, <1>9, <1>10, <1>11, <1>12, <1>14, <1>15, <1>16, <1>17,
       <1>18, <1>19 DEF Next, Application, Machinery

-------------------------------------------------------------------------------
(***************************************************************************)
(* The theorems.                                                           *)
(***************************************************************************)

\* Before any call there are no frames, no results and no chains.
LEMMA InitIInv ==
    ASSUME Init, TypeInv
    PROVE  IInv
  <1>1. /\ stack = <<>>
        /\ \A d \in Deferreds : ~running[d] /\ ~called[d] /\ result[d] = "no result"
        /\ \A d \in Deferreds : callbacks[d] = <<>> /\ paused[d] = 0 /\ userPaused[d] = 0
    BY Zenon DEF Init
  <1>2. 1..Len(stack) = {} /\ 1..Len(stack) - 1 = {}
    <2>1. PICK l : l = stack /\ l = <<>>
      BY <1>1, Zenon
    <2>2. 1..Len(l) = {} /\ 1..Len(l) - 1 = {}
      BY <2>1
    <2>3. QED
      BY <2>1, <2>2, Zenon
  <1>3. StackInv
    BY <1>1, <1>2, Zenon DEF StackInv, Waiting, RunsCalled, RunsPlain, RunningFrames, NotInChain
  <1>4. CalledInv
    BY <1>1 DEF CalledInv
  <1>5. "no result" \notin Deferreds
    BY DeferredAssumption
  <1>6. \A d \in Deferreds : 1..Len(callbacks[d]) = {}
    <2>1. SUFFICES ASSUME NEW d \in Deferreds
                   PROVE  1..Len(callbacks[d]) = {}
      OBVIOUS
    <2>2. PICK l : l = callbacks[d] /\ l = <<>>
      BY <1>1, Zenon
    <2>3. 1..Len(l) = {}
      BY <2>2
    <2>4. QED
      BY <2>2, <2>3, Zenon
  <1>7. ChainInv
    BY <1>1, <1>5, <1>6, Zenon DEF ChainInv, WaitsThere, HasContinuation, OneContinuation
  <1>8. PauseBalance
    <2>1. SUFFICES ASSUME NEW d \in Deferreds
                   PROVE  paused[d] = userPaused[d] + (IF result[d] \in Deferreds THEN 1 ELSE 0)
      BY DEF PauseBalance
    <2>2. paused[d] = 0 /\ userPaused[d] = 0 /\ result[d] \notin Deferreds
      BY <1>1, <1>5, Zenon
    <2>3. QED
      BY <2>2
  <1>9. QED
    BY <1>3, <1>4, <1>7, <1>8 DEF IInv

\* The inductive invariant holds in every reachable state.
THEOREM InductiveInvariant == Spec => []IInv
  <1>1. Init /\ TypeInv => IInv
    BY InitIInv
  <1>2. IInv /\ [Next]_vars => IInv'
    BY TypeStep, StackStep, ChainStep DEF IInv
  <1>3. QED
    BY <1>1, <1>2, TypeCorrect, PTL DEF Spec

\* Every attribute has a value of its kind; in particular no pause counter is
\* ever negative.
THEOREM Types == Spec => []TypeOK
  <1>1. IInv => TypeOK
    <2>1. SUFFICES ASSUME IInv
                   PROVE  TypeOK
      OBVIOUS
    <2>2. \A d \in Deferreds : paused[d] \in Nat
      <3>1. SUFFICES ASSUME NEW d \in Deferreds
                     PROVE  paused[d] \in Nat
        OBVIOUS
      <3>2. userPaused[d] \in Nat
        BY <2>1 DEF IInv, TypeInv
      <3>3. paused[d] = userPaused[d] + (IF result[d] \in Deferreds THEN 1 ELSE 0)
        BY <2>1 DEF IInv, PauseBalance
      <3>4. QED
        BY <3>2, <3>3
    <2>3. paused \in [Deferreds -> Nat]
      BY <2>1, <2>2 DEF IInv, TypeInv
    <2>4. stack \in Seq(Frames)
      BY <2>1 DEF IInv, TypeInv, Stacks, ActiveFrames
    <2>5. QED
      BY <2>1, <2>3, <2>4 DEF IInv, TypeInv, TypeOK
  <1>2. QED
    BY <1>1, InductiveInvariant, PTL

\* Pauses balance: paused counts the application's pauses and the wait for
\* another Deferred, and nothing else.
THEOREM Pauses == Spec => []PauseBalance
  <1>1. IInv => PauseBalance
    BY DEF IInv
  <1>2. QED
    BY <1>1, InductiveInvariant, PTL

\* However application code re-enters, no callback of a Deferred starts before
\* the previous one returned, and _runningCallbacks says when one runs.
THEOREM NoNesting == Spec => []NoNestedCallbacks
  <1>1. IInv => NoNestedCallbacks
    <2>1. SUFFICES ASSUME IInv
                   PROVE  NoNestedCallbacks
      OBVIOUS
    <2>2. DOMAIN stack = 1..Len(stack) /\ Len(stack) \in Nat
      BY <2>1 DEF IInv, TypeInv, Stacks
    <2>3. \A i \in 1..Len(stack) : /\ Busy(i) <=> BusyFrame(stack[i])
                                   /\ FrameCurrent(i) = Cur(stack[i])
                                   /\ stack[i] \in ActiveFrames
      BY <2>1 DEF Busy, BusyFrame, FrameCurrent, Cur, IInv, TypeInv, Stacks
    <2>4. \A i, j \in 1..Len(stack) : i < j /\ Busy(i) /\ Busy(j) => FrameCurrent(i) # FrameCurrent(j)
      <3>1. SUFFICES ASSUME NEW i \in 1..Len(stack), NEW j \in 1..Len(stack), i < j, Busy(i), Busy(j)
                     PROVE  FrameCurrent(i) # FrameCurrent(j)
        OBVIOUS
      <3>2. Cur(stack[j]) \in Members(stack[j]) /\ stack[j].pc \in RunPcs
        BY <2>3, <3>1, CurMember DEF BusyFrame, RunPcs
      <3>3. QED
        BY <2>1, <2>3, <3>1, <3>2 DEF IInv, StackInv, NotInChain
    <2>5. \A i, j \in 1..Len(stack) : i # j => i < j \/ j < i
      BY <2>2
    <2>6. QED
      BY <2>1, <2>2, <2>3, <2>4, <2>5 DEF NoNestedCallbacks, IInv, StackInv, RunningFrames
  <1>2. QED
    BY <1>1, InductiveInvariant, PTL

\* Chains are consistent: a Deferred that waits stands once in the callback
\* list of the Deferred it waits for, and nowhere else.
THEOREM Chains == Spec => []ChainIntegrity
  <1>1. IInv => ChainIntegrity
    <2>1. SUFFICES ASSUME IInv, NEW d \in Deferreds, NEW e \in Deferreds
                   PROVE  /\ result[d] = e => \E i \in DOMAIN callbacks[e] : Waits(d, e) = {i}
                          /\ result[d] # e => Waits(d, e) = {}
      BY DEF ChainIntegrity
    <2>2. callbacks[e] \in Seq(Entries)
      BY <2>1 DEF IInv, TypeInv
    <2>3. DOMAIN callbacks[e] = 1..Len(callbacks[e])
      BY <2>2
    <2>4. ASSUME result[d] = e
          PROVE  \E i \in DOMAIN callbacks[e] : Waits(d, e) = {i}
      <3>1. PICK i \in 1..Len(callbacks[e]) : callbacks[e][i] = Continue(d)
        BY <2>1, <2>4 DEF IInv, ChainInv, HasContinuation
      <3>2. \A j \in 1..Len(callbacks[e]) : callbacks[e][j] = Continue(d) => j = i
        BY <2>1, <3>1 DEF IInv, ChainInv, OneContinuation
      <3>3. Waits(d, e) = {i}
        BY <2>3, <3>1, <3>2 DEF Waits
      <3>4. QED
        BY <2>3, <3>1, <3>3
    <2>5. ASSUME result[d] # e
          PROVE  Waits(d, e) = {}
      BY <2>1, <2>3, <2>5 DEF IInv, ChainInv, WaitsThere, Waits
    <2>6. QED
      BY <2>4, <2>5
  <1>2. QED
    BY <1>1, InductiveInvariant, PTL

-------------------------------------------------------------------------------
(***************************************************************************)
(* What a Deferred looks like when no activation is working on it.         *)
(***************************************************************************)

\* _debugInfo records exactly an unpaused Failure, and callbacks are left only
\* where the result was given away.
Settled(d) ==
    /\ failResult[d] => result[d] = "fail"
    /\ result[d] = "fail" /\ paused[d] = 0 => failResult[d]
    /\ called[d] /\ paused[d] = 0 => callbacks[d] = <<>> \/ result[d] = "none"

\* The innermost activation is about to work on d.
OnTop(d) == stack # <<>> /\ Top.pc \in {"outer", "inner"} /\ Current = d

\* The Deferreds that are not settled are those inside a callback and the one
\* that _runCallbacks has in hand.
AllSettled == \A d \in Deferreds : Settled(d) \/ running[d] \/ OnTop(d)

\* _runCallbacks takes a Deferred in hand with no Failure left in _debugInfo
\* but its result.
TakenClean == At("outer") /\ failResult[Current] => result[Current] = "fail"

SettledInv == AllSettled /\ TakenClean

\* A step that puts an activation on the stack for d.
LEMMA PushSettled ==
    ASSUME NEW s \in Stacks, NEW d \in Deferreds, stack' = Append(s, RunFrame(d)),
           failResult'[d] => result'[d] = "fail",
           \A x \in Deferreds : x # d => Settled(x)' \/ running'[x]
    PROVE  SettledInv'
  <1>1. PICK f : f = RunFrame(d)
    BY Zenon
  <1>2. f.pc = "outer" /\ Cur(f) = d
    BY <1>1 DEF RunFrame, Cur
  <1>3. stack' # <<>> /\ Top' = f
    <2>1. s \in Seq(ActiveFrames) /\ stack' = Append(s, f)
      BY <1>1 DEF Stacks
    <2>2. Len(stack') = Len(s) + 1 /\ Len(s) \in Nat /\ stack'[Len(s) + 1] = f
      BY <2>1
    <2>3. QED
      BY <2>2 DEF Top
  <1>4. Current' = d
    BY <1>2, <1>3, Zenon DEF Current, Cur
  <1>5. OnTop(d)'
    BY <1>2, <1>3, <1>4 DEF OnTop
  <1>6. AllSettled'
    BY <1>5 DEF AllSettled
  <1>7. TakenClean'
    BY <1>4 DEF TakenClean
  <1>8. QED
    BY <1>6, <1>7 DEF SettledInv

\* A step that moves the innermost activation on, with the same Deferred in hand.
LEMMA GotoSettled ==
    ASSUME TypeInv, stack # <<>>, NEW pc \in {"inner", "user", "fire"}, stack' = Goto(pc),
           pc \in {"user", "fire"} => running'[Current],
           \A x \in Deferreds : x # Current => Settled(x)' \/ running'[x]
    PROVE  SettledInv'
  <1>1. /\ Len(Goto(pc)) = Len(stack) /\ Len(stack) \in Nat /\ Len(stack) > 0
        /\ Goto(pc)[Len(stack)].pc = pc /\ Cur(Goto(pc)[Len(stack)]) = Current
    BY GotoShape, TopType DEF RunPcs
  <1>2. Len(stack') = Len(stack) /\ Top' = Goto(pc)[Len(stack)]
    BY <1>1 DEF Top
  <1>3. stack' # <<>>
    BY <1>1, <1>2
  <1>4. Top'.pc = pc /\ Current' = Current
    BY <1>1, <1>2, Zenon DEF Current, Cur
  <1>5. PICK c : c = Current
    BY Zenon
  <1>6. AllSettled'
    <2>1. pc = "inner" => OnTop(c)'
      BY <1>3, <1>4, <1>5 DEF OnTop
    <2>2. running'[c] \/ OnTop(c)'
      BY <1>5, <2>1
    <2>3. QED
      BY <1>5, <2>2 DEF AllSettled
  <1>7. TakenClean'
    BY <1>4 DEF TakenClean, At
  <1>8. QED
    BY <1>6, <1>7 DEF SettledInv

\* A step that returns to the frame below.
LEMMA PopSettled ==
    ASSUME TypeInv, StackInv, stack # <<>>, stack' = Pop(stack),
           \A x \in Deferreds : Settled(x)' \/ running'[x]
    PROVE  SettledInv'
  <1>1. stack \in Seq(ActiveFrames) /\ Len(stack) \in Nat /\ Len(stack) > 0
    BY TopType DEF TypeInv, Stacks
  <1>2. Len(stack') = Len(stack) - 1 /\ \A i \in 1..Len(stack) - 1 : stack'[i] = stack[i]
    BY <1>1, PopSeq, Zenon
  <1>3. stack' \in Seq(ActiveFrames)
    BY <1>1, PopSeq, Zenon
  <1>4. ~At("outer")'
    <2>1. SUFFICES ASSUME stack' # <<>>
                   PROVE  Top'.pc # "outer"
      BY DEF At
    <2>2. Len(stack') # 0
      BY <1>3, <2>1
    <2>3. Len(stack) - 1 \in 1..Len(stack) - 1
      BY <1>1, <1>2, <2>2
    <2>4. Top' = stack[Len(stack) - 1]
      BY <1>2, <2>3 DEF Top
    <2>5. QED
      BY <2>3, <2>4 DEF StackInv, Waiting
  <1>5. QED
    BY <1>4 DEF SettledInv, AllSettled, TakenClean

\* The Deferreds that wait further up the chain of the innermost activation are
\* inside no callback.
LEMMA ChainIdle ==
    ASSUME TypeInv, StackInv, stack # <<>>, Top.pc \in RunPcs, NEW x \in Members(Top), x # Current
    PROVE  x \in Deferreds /\ ~running[x]
  <1>1. Len(stack) \in Nat /\ Len(stack) \in 1..Len(stack) /\ Top = stack[Len(stack)] /\ Cur(Top) = Current
    BY TopType, TopFrame
  <1>2. x \in Deferreds
    BY TopFrame, CurMember
  <1>3. ASSUME NEW i \in 1..Len(stack), BusyFrame(stack[i]), Cur(stack[i]) = x
        PROVE  FALSE
    <2>1. i # Len(stack)
      BY <1>1, <1>3
    <2>2. i < Len(stack)
      BY <1>1, <2>1
    <2>3. QED
      BY <1>1, <1>3, <2>2 DEF StackInv, NotInChain
  <1>4. QED
    BY <1>2, <1>3 DEF StackInv, RunningFrames

\* A step that is done with the Deferred in hand.
LEMMA FinishSettled ==
    ASSUME TypeInv, StackInv, stack # <<>>, Top.pc \in RunPcs, stack' = FinishedFrame(stack),
           \A x \in Deferreds : Settled(x)' \/ (x \notin Members(Top) /\ running'[x])
    PROVE  SettledInv'
  <1>1. CASE Len(Top.chain) = 1
    BY <1>1, PopSettled DEF FinishedFrame
  <1>2. CASE Len(Top.chain) # 1
    <2>1. PICK f : f = [chain |-> Pop(Top.chain), pc |-> "outer"]
      BY Zenon
    <2>2. Top \in ActiveFrames /\ Top.chain \in Seq(Deferreds) /\ Top.chain # <<>>
      BY TopType
    <2>3. Pop(Top.chain) \in Seq(Deferreds) /\ Pop(Top.chain) # <<>>
      BY <1>2, <2>2, PopSeq, PopNonEmpty, Zenon
    <2>4. f \in ActiveFrames
      BY <2>1, <2>3 DEF ActiveFrames, Frames, RunPcs
    <2>5. Cur(f) \in Members(Top) /\ Cur(f) \in Deferreds
      BY <2>1, <2>2, <2>4, CurMember, ShortenedChain
    <2>6. stack' = [stack EXCEPT ![Len(stack)] = f]
      BY <1>2, <2>1 DEF FinishedFrame
    <2>7. stack \in Seq(ActiveFrames) /\ Len(stack) \in Nat /\ Len(stack) > 0
      BY TopType DEF TypeInv, Stacks
    <2>8. Len(stack') = Len(stack) /\ stack'[Len(stack)] = f
      BY <2>4, <2>6, <2>7
    <2>9. Top' = f
      BY <2>8 DEF Top
    <2>10. Current' = Cur(f)
      BY <2>9, Zenon DEF Current, Cur
    <2>11. Settled(Cur(f))'
      BY <2>5
    <2>12. failResult'[Current'] => result'[Current'] = "fail"
      BY <2>10, <2>11 DEF Settled
    <2>13. QED
      BY <2>12 DEF SettledInv, AllSettled, TakenClean
  <1>3. QED
    BY <1>1, <1>2

\* The attributes that Settled looks at.
SameAttributes(x) ==
    /\ called'[x] = called[x] /\ result'[x] = result[x] /\ paused'[x] = paused[x]
    /\ callbacks'[x] = callbacks[x] /\ failResult'[x] = failResult[x]

\* A Deferred whose attributes a step leaves alone stays settled.
LEMMA StaysSettled ==
    ASSUME NEW x, SameAttributes(x), Settled(x)
    PROVE  Settled(x)'
  BY DEF SameAttributes, Settled

\* Unless the innermost frame is at a loop of _runCallbacks, none is in hand.
LEMMA NoneInHand ==
    ASSUME SettledInv, stack = <<>> \/ Top.pc \notin {"outer", "inner"}
    PROVE  \A x \in Deferreds : Settled(x) \/ running[x]
  BY DEF SettledInv, AllSettled, OnTop

\* Before the first call a Deferred is settled, with no Failure recorded.
LEMMA UncalledClean ==
    ASSUME IInv, SettledInv, NEW d \in Deferreds, ~called[d]
    PROVE  ~running[d] /\ ~failResult[d]
  <1>1. ~running[d]
    BY InnerCurrent DEF IInv, StackInv, RunningFrames, BusyFrame
  <1>2. ~OnTop(d)
    BY TopFrame DEF IInv, OnTop, RunPcs
  <1>3. Settled(d) /\ result[d] = "no result"
    BY <1>1, <1>2 DEF IInv, CalledInv, SettledInv, AllSettled
  <1>4. QED
    BY <1>1, <1>3 DEF Settled

\* _startRunCallbacks takes d in hand.
LEMMA StartSettled ==
    ASSUME IInv, SettledInv, NEW d \in Deferreds, NEW r, NEW s \in Stacks,
           StartRunCallbacks(d, r, s), UNCHANGED failResult,
           \A x \in Deferreds : x # d => Settled(x)' \/ running'[x]
    PROVE  SettledInv'
  <1>1. ~running[d] /\ ~failResult[d]
    BY UncalledClean DEF StartRunCallbacks
  <1>2. stack' = Append(s, RunFrame(d))
    BY <1>1 DEF StartRunCallbacks, EnterRunCallbacks
  <1>3. QED
    BY <1>1, <1>2, PushSettled

\* Entering cancel.
LEMMA CancelSettled ==
    ASSUME NEW d \in Deferreds, NEW s \in Stacks, stack' = Append(s, CancelFrame(d)),
           \A x \in Deferreds : Settled(x) \/ running[x],
           UNCHANGED <<called, result, paused, running, callbacks, failResult>>
    PROVE  SettledInv'
  <1>1. PICK f : f = CancelFrame(d)
    BY Zenon
  <1>2. f.pc = "cancel" /\ s \in Seq(ActiveFrames) /\ stack' = Append(s, f)
    BY <1>1 DEF CancelFrame, Stacks
  <1>3. Len(stack') = Len(s) + 1 /\ Len(s) \in Nat /\ stack'[Len(s) + 1] = f
    BY <1>2
  <1>4. Top'.pc = "cancel"
    BY <1>2, <1>3 DEF Top
  <1>5. \A x \in Deferreds : Settled(x)' \/ running'[x]
    BY DEF Settled
  <1>6. QED
    BY <1>4, <1>5 DEF SettledInv, AllSettled, TakenClean, At

\* Entering _runCallbacks for a Deferred that was called, from application code.
LEMMA EnterSettled ==
    ASSUME IInv, SettledInv, InApplication, NEW d \in Deferreds,
           stack' = EnterRunCallbacks(d, stack), UNCHANGED <<running, result, failResult>>,
           \A x \in Deferreds : x # d => SameAttributes(x)
    PROVE  SettledInv'
  <1>1. \A x \in Deferreds : Settled(x) \/ running[x]
    BY NoneInHand DEF InApplication, At
  <1>2. \A x \in Deferreds : x # d => Settled(x)' \/ running'[x]
    BY <1>1, StaysSettled
  <1>3. CASE running[d]
    <2>1. stack' = stack
      BY <1>3 DEF EnterRunCallbacks
    <2>2. ~At("outer")'
      BY <2>1 DEF InApplication, At, Top
    <2>3. running'[d]
      BY <1>3
    <2>4. QED
      BY <1>2, <2>2, <2>3 DEF SettledInv, AllSettled, TakenClean
  <1>4. CASE ~running[d]
    <2>1. stack' = Append(stack, RunFrame(d)) /\ stack \in Stacks
      BY <1>4 DEF EnterRunCallbacks, IInv, TypeInv
    <2>2. failResult'[d] => result'[d] = "fail"
      BY <1>1, <1>4 DEF Settled
    <2>3. QED
      BY <1>2, <2>1, <2>2, PushSettled
  <1>5. QED
    BY <1>3, <1>4

\* A step of the application that leaves the stack alone.
LEMMA CalmSettled ==
    ASSUME SettledInv, InApplication, UNCHANGED <<stack, running>>,
           \A x \in Deferreds : Settled(x) => Settled(x)'
    PROVE  SettledInv'
  <1>1. \A x \in Deferreds : Settled(x) \/ running[x]
    BY NoneInHand DEF InApplication, At
  <1>2. ~At("outer")'
    BY DEF InApplication, At, Top
  <1>3. QED
    BY <1>1, <1>2 DEF SettledInv, AllSettled, TakenClean

\* The public methods of a Deferred keep SettledInv.
LEMMA ApplicationSettled ==
    ASSUME IInv, SettledInv, Application
    PROVE  SettledInv'
  <1>t. /\ \A x \in Deferreds : paused[x] \in Int /\ userPaused[x] \in Nat
        /\ stack \in Stacks
    BY DEF IInv, TypeInv
  <1>p. \A x \in Deferreds : paused[x] = userPaused[x] \/ paused[x] = userPaused[x] + 1
    BY <1>t DEF IInv, PauseBalance
  <1>1. ASSUME NEW d \in Deferreds, NEW r \in {"ok", "fail"}, Call(d, r)
        PROVE  SettledInv'
    <2>0. InApplication /\ UNCHANGED <<paused, running, callbacks, failResult>>
      BY <1>1 DEF Call
    <2>1. CASE StartRunCallbacks(d, r, stack)
      <3>1. \A x \in Deferreds : x # d => SameAttributes(x)
        BY <1>1, <2>0, <2>1 DEF StartRunCallbacks, SameAttributes, IInv, TypeInv
      <3>2. \A x \in Deferreds : Settled(x) \/ running[x]
        BY <2>0, NoneInHand DEF InApplication, At
      <3>3. \A x \in Deferreds : x # d => Settled(x)' \/ running'[x]
        BY <2>0, <3>1, <3>2, StaysSettled
      <3>4. QED
        BY <1>t, <2>0, <2>1, <3>3, StartSettled
    <2>2. CASE UNCHANGED <<called, result, stack>>
      BY <2>0, <2>2, CalmSettled DEF Settled
    <2>3. QED
      BY <1>1, <2>1, <2>2 DEF Call
  <1>2. ASSUME NEW d \in Deferreds, NEW entry, AddEntry(d, entry)
        PROVE  SettledInv'
    <2>0. InApplication /\ UNCHANGED <<called, result, paused, running, failResult>>
      BY <1>2 DEF AddEntry
    <2>1. \A x \in Deferreds : x # d => SameAttributes(x)
      BY <1>2, <2>0 DEF AddEntry, SameAttributes, IInv, TypeInv
    <2>2. CASE called[d]
      BY <1>2, <2>0, <2>1, <2>2, EnterSettled DEF AddEntry, RunIfCalled
    <2>3. CASE ~called[d]
      <3>1. Settled(d) => Settled(d)'
        BY <2>0, <2>3 DEF Settled
      <3>2. \A x \in Deferreds : Settled(x) => Settled(x)'
        BY <2>1, <3>1, StaysSettled
      <3>3. UNCHANGED stack
        BY <1>2, <2>3 DEF AddEntry, RunIfCalled
      <3>4. QED
        BY <2>0, <3>2, <3>3, CalmSettled
    <2>4. QED
      BY <2>2, <2>3
  <1>3. ASSUME NEW d \in Deferreds, Pause(d)
        PROVE  SettledInv'
    <2>0. InApplication /\ UNCHANGED <<called, result, running, callbacks, failResult, stack>>
      BY <1>3 DEF Pause
    <2>1. paused'[d] = paused[d] + 1 /\ \A x \in Deferreds : x # d => paused'[x] = paused[x]
      BY <1>3 DEF Pause, IInv, TypeInv
    <2>2. paused'[d] # 0
      BY <1>t, <1>p, <2>1
    <2>3. \A x \in Deferreds : Settled(x) => Settled(x)'
      BY <2>0, <2>1, <2>2 DEF Settled
    <2>4. QED
      BY <2>0, <2>3, CalmSettled
  <1>4. ASSUME NEW d \in Deferreds, Unpause(d)
        PROVE  SettledInv'
    <2>0. InApplication /\ UNCHANGED <<called, result, running, callbacks, failResult>>
      BY <1>4 DEF Unpause
    <2>1. paused'[d] = paused[d] - 1 /\ \A x \in Deferreds : x # d => paused'[x] = paused[x]
      BY <1>4 DEF Unpause, IInv, TypeInv
    <2>2. \A x \in Deferreds : x # d => SameAttributes(x)
      BY <2>0, <2>1 DEF SameAttributes
    <2>3. CASE paused[d] = 1 /\ called[d]
      BY <1>4, <2>0, <2>2, <2>3, EnterSettled DEF Unpause
    <2>4. CASE ~(paused[d] = 1 /\ called[d])
      <3>1. UNCHANGED stack
        BY <1>4, <2>4 DEF Unpause
      <3>2. called[d] => paused'[d] # 0
        BY <1>t, <2>1, <2>4
      <3>3. result[d] = "fail" => called[d]
        BY DEF IInv, CalledInv
      <3>4. Settled(d) => Settled(d)'
        BY <2>0, <3>2, <3>3 DEF Settled
      <3>5. \A x \in Deferreds : Settled(x) => Settled(x)'
        BY <2>2, <3>4, StaysSettled
      <3>6. QED
        BY <2>0, <3>1, <3>5, CalmSettled
    <2>5. QED
      BY <2>3, <2>4
  <1>5. ASSUME NEW d \in Deferreds, Cancel(d)
        PROVE  SettledInv'
    <2>1. \A x \in Deferreds : Settled(x) \/ running[x]
      BY <1>5, NoneInHand DEF Cancel, InApplication, At
    <2>2. QED
      BY <1>5, <1>t, <2>1, CancelSettled DEF Cancel
  <1>6. QED
    BY <1>1, <1>2, <1>3, <1>4, <1>5 DEF Application, AddCallbacks, ChainDeferred

\* The steps of _runCallbacks and cancel keep SettledInv.
LEMMA MachinerySettled ==
    ASSUME IInv, SettledInv, Machinery
    PROVE  SettledInv'
  <1>t. /\ \A x \in Deferreds : paused[x] \in Int /\ userPaused[x] \in Nat
        /\ stack \in Stacks /\ TypeInv /\ StackInv
    BY DEF IInv, TypeInv
  <1>0. /\ stack # <<>> => Current \in Deferreds
        /\ \A x \in Deferreds : x # Current => Settled(x) \/ running[x]
    BY TopType DEF IInv, SettledInv, AllSettled, OnTop
  <1>c. ASSUME At("cancel") \/ At("canceller")
        PROVE  /\ stack # <<>> /\ Current \in Deferreds /\ Pop(stack) \in Stacks
               /\ \A x \in Deferreds : Settled(x) \/ running[x]
    BY <1>t, <1>c, TopType, PopStack, NoneInHand DEF At
  <1>s. ASSUME At("cancel") \/ At("canceller"), StartRunCallbacks(Current, "fail", Pop(stack)),
               UNCHANGED <<paused, running, callbacks, failResult>>
        PROVE  SettledInv'
    <2>1. \A x \in Deferreds : x # Current => SameAttributes(x)
      BY <1>c, <1>s DEF StartRunCallbacks, SameAttributes, IInv, TypeInv
    <2>2. \A x \in Deferreds : x # Current => Settled(x)' \/ running'[x]
      BY <1>c, <1>s, <2>1, StaysSettled
    <2>3. QED
      BY <1>c, <1>s, <2>2, StartSettled
  <1>r. ASSUME At("cancel") \/ At("canceller"), stack' = Pop(stack),
               UNCHANGED <<called, result, paused, running, callbacks, failResult>>
        PROVE  SettledInv'
    <2>1. \A x \in Deferreds : Settled(x)' \/ running'[x]
      BY <1>c, <1>r DEF Settled
    <2>2. QED
      BY <1>c, <1>r, <1>t, <2>1, PopSettled
  <1>1. CASE CancelWithoutCanceller
    BY <1>1, <1>s DEF CancelWithoutCanceller
  <1>2. CASE CallCanceller
    <2>1. stack # <<>> /\ Current \in Cancellable /\ Top.pc = "cancel"
      BY <1>2 DEF CallCanceller, At
    <2>2. PICK f : f = [chain |-> Top.chain, pc |-> "canceller"]
      BY Zenon
    <2>3. stack' = [stack EXCEPT ![Len(stack)] = f] /\ f.pc = "canceller"
      BY <1>2, <1>t, <2>1, <2>2, GotoStack DEF CallCanceller
    <2>4. stack \in Seq(ActiveFrames) /\ Len(stack) \in Nat /\ Len(stack) > 0
      BY <1>t, <2>1, TopType DEF Stacks
    <2>5. Len(stack') = Len(stack) /\ stack'[Len(stack)] = f
      BY <2>3, <2>4
    <2>6. Top'.pc = "canceller"
      BY <2>3, <2>5 DEF Top
    <2>7. \A x \in Deferreds : Settled(x)' \/ running'[x]
      BY <1>2, <1>c DEF CallCanceller, Settled
    <2>8. QED
      BY <2>6, <2>7 DEF SettledInv, AllSettled, TakenClean, At
  <1>3. CASE CancellerReturns
    BY <1>3, <1>r, <1>s DEF CancellerReturns
  <1>4. CASE CancellerRaises
    BY <1>4, <1>r DEF CancellerRaises
  <1>5. CASE ForwardCancel
    <2>1. CASE result[Current] \in Deferreds
      <3>1. /\ stack' = Append(Pop(stack), CancelFrame(result[Current]))
            /\ UNCHANGED <<called, result, paused, running, callbacks, failResult>>
        BY <1>5, <2>1 DEF ForwardCancel
      <3>2. PICK d \in Deferreds : d = result[Current]
        BY <2>1
      <3>3. Pop(stack) \in Stacks /\ \A x \in Deferreds : Settled(x) \/ running[x]
        BY <1>5, <1>c DEF ForwardCancel
      <3>4. QED
        BY <3>1, <3>2, <3>3, CancelSettled
    <2>2. CASE result[Current] \notin Deferreds
      BY <1>5, <1>r, <2>2 DEF ForwardCancel
    <2>3. QED
      BY <2>1, <2>2
  <1>6. CASE OuterLoop
    <2>1. /\ stack # <<>> /\ Top.pc = "outer" /\ At("outer")
          /\ UNCHANGED <<called, result, paused, running, callbacks, failResult>>
      BY <1>6 DEF OuterLoop, At
    <2>2. \A x \in Deferreds : x # Current => Settled(x)' \/ running'[x]
      BY <1>0, <2>1 DEF Settled
    <2>3. CASE paused[Current] # 0
      <3>1. failResult[Current] => result[Current] = "fail"
        BY <2>1 DEF SettledInv, TakenClean
      <3>2. \A x \in Deferreds : x = Current => Settled(x)'
        BY <2>1, <2>3, <3>1 DEF Settled
      <3>3. stack' = Pop(stack)
        BY <1>6, <2>3 DEF OuterLoop
      <3>4. QED
        BY <1>t, <2>1, <2>2, <3>2, <3>3, PopSettled
    <2>4. CASE paused[Current] = 0
      <3>1. stack' = Goto("inner")
        BY <1>6, <2>4 DEF OuterLoop
      <3>2. QED
        BY <1>t, <2>1, <2>2, <3>1, GotoSettled
    <2>5. QED
      BY <2>3, <2>4
  <1>f. ASSUME stack # <<>>, Top.pc \in {"inner", "user"}, NEW x \in Members(Top), x # Current
        PROVE  x \in Deferreds /\ Settled(x)
    <2>1. x \in Deferreds /\ ~running[x]
      BY <1>f, <1>t, ChainIdle DEF RunPcs
    <2>2. QED
      BY <1>0, <1>f, <2>1
  <1>7. CASE Finished
    <2>1. /\ stack # <<>> /\ Top.pc = "inner" /\ stack' = FinishedFrame(stack) /\ callbacks[Current] = <<>>
          /\ UNCHANGED <<called, result, paused, running, callbacks>>
      BY <1>7 DEF Finished, At
    <2>2. /\ failResult'[Current] <=> result[Current] = "fail"
          /\ \A x \in Deferreds : x # Current => failResult'[x] = failResult[x]
      BY <1>0, <1>7, <2>1 DEF Finished, IInv, TypeInv
    <2>3. \A x \in Deferreds : x = Current => Settled(x)'
      BY <2>1, <2>2 DEF Settled
    <2>4. \A x \in Deferreds : x # Current /\ Settled(x) => Settled(x)'
      BY <2>1, <2>2 DEF Settled
    <2>5. \A x \in Deferreds : Settled(x)' \/ (x \notin Members(Top) /\ running'[x])
      BY <1>0, <1>f, <2>1, <2>3, <2>4
    <2>6. QED
      BY <1>t, <2>1, <2>5, FinishSettled DEF RunPcs
  <1>8. CASE HandOver
    <2>1. PICK c : c = Head(callbacks[Current])[2]
      BY Zenon
    <2>2. stack # <<>> /\ Top.pc = "inner" /\ UNCHANGED <<called, running>> /\ NextEntry("continue")
      BY <1>8 DEF HandOver, NextEntry, At
    <2>3. c \in Deferreds /\ result[c] = Current /\ Current \in Deferreds
      BY <2>1, <2>2, ChaineeWaits DEF IInv
    <2>4. result[Current] \in Plain /\ c # Current /\ ~running[c] /\ result[c] # "fail"
      BY <1>t, <2>2, <2>3, TopFrame, WaiterIdle, DeferredAssumption DEF IInv, Plain
    <2>5. /\ result'[Current] = "none" /\ \A x \in Deferreds : x # c /\ x # Current => result'[x] = result[x]
          /\ ~failResult'[Current] /\ \A x \in Deferreds : x # Current => failResult'[x] = failResult[x]
          /\ \A x \in Deferreds : x # c => paused'[x] = paused[x]
          /\ \A x \in Deferreds : x # Current => callbacks'[x] = callbacks[x]
      <3>1. result' = [[result EXCEPT ![c] = result[Current]] EXCEPT ![Current] = "none"]
        BY <1>8, <2>1, Zenon DEF HandOver
      <3>2. failResult' = [failResult EXCEPT ![Current] = FALSE] /\ paused' = [paused EXCEPT ![c] = @ - 1]
        BY <1>8, <2>1, Zenon DEF HandOver, ForgetFailure, Resume
      <3>3. callbacks' = [callbacks EXCEPT ![Current] = Tail(@)]
        BY <2>2 DEF NextEntry
      <3>4. QED
        BY <1>t, <2>3, <2>4, <3>1, <3>2, <3>3 DEF TypeInv
    <2>6. ~failResult'[c]
      BY <1>0, <2>3, <2>4, <2>5 DEF Settled
    <2>7. \A x \in Deferreds : x # c => Settled(x)' \/ running'[x]
      <3>1. SUFFICES ASSUME NEW x \in Deferreds, x # c
                     PROVE  Settled(x)' \/ running'[x]
        OBVIOUS
      <3>2. CASE x = Current
        BY <2>5, <3>1, <3>2 DEF Settled
      <3>3. CASE x # Current
        BY <1>0, <2>2, <2>5, <3>1, <3>3 DEF Settled
      <3>4. QED
        BY <3>2, <3>3
    <2>8. PICK f : f = [chain |-> Append(Top.chain, c), pc |-> "outer"]
      BY Zenon
    <2>9. stack' = [stack EXCEPT ![Len(stack)] = f]
      BY <1>8, <2>1, <2>8, Zenon DEF HandOver
    <2>10. f.pc = "outer" /\ Cur(f) = c
      <3>1. Top.chain \in Seq(Deferreds) /\ f.chain = Append(Top.chain, c)
        BY <1>t, <2>2, <2>8, TopType
      <3>2. f.chain[Len(f.chain)] = c
        BY <2>3, <3>1
      <3>3. QED
        BY <2>8, <3>2 DEF Cur
    <2>11. stack \in Seq(ActiveFrames) /\ Len(stack) \in Nat /\ Len(stack) > 0
      BY <1>t, <2>2, TopType DEF Stacks
    <2>12. Len(stack') = Len(stack) /\ stack'[Len(stack)] = f
      BY <2>9, <2>11
    <2>13. Top' = f /\ stack' # <<>>
      BY <2>11, <2>12 DEF Top
    <2>14. Current' = c
      BY <2>10, <2>13, Zenon DEF Current, Cur
    <2>15. OnTop(c)'
      BY <2>10, <2>13, <2>14 DEF OnTop
    <2>16. QED
      BY <2>6, <2>7, <2>14, <2>15 DEF SettledInv, AllSettled, TakenClean
  <1>9. CASE CallUser
    <2>1. /\ stack # <<>> /\ Top.pc = "inner" /\ stack' = Goto("user")
          /\ UNCHANGED <<called, result, paused, failResult>> /\ NextEntry("user")
      BY <1>9 DEF CallUser, NextEntry, At
    <2>2. /\ running'[Current] /\ \A x \in Deferreds : x # Current => running'[x] = running[x]
          /\ \A x \in Deferreds : x # Current => callbacks'[x] = callbacks[x]
      BY <1>0, <1>9, <1>t, <2>1 DEF CallUser, NextEntry, TypeInv
    <2>3. \A x \in Deferreds : x # Current => Settled(x)' \/ running'[x]
      BY <1>0, <2>1, <2>2 DEF Settled
    <2>4. QED
      BY <1>t, <2>1, <2>2, <2>3, GotoSettled
  <1>10. ASSUME stack # <<>>, NEW r, result' = [result EXCEPT ![Current] = r],
                running' = [running EXCEPT ![Current] = FALSE], stack' = Goto("inner"),
                UNCHANGED <<called, paused, callbacks, failResult>>
         PROVE  SettledInv'
    <2>1. \A x \in Deferreds : x # Current => result'[x] = result[x] /\ running'[x] = running[x]
      BY <1>0, <1>10, <1>t DEF TypeInv
    <2>2. \A x \in Deferreds : x # Current => Settled(x)' \/ running'[x]
      BY <1>0, <1>10, <2>1 DEF Settled
    <2>3. QED
      BY <1>10, <1>t, <2>2, GotoSettled
  <1>11. ASSUME NEW r \in Plain, UserReturns(r)
         PROVE  SettledInv'
    BY <1>10, <1>11 DEF UserReturns, At
  <1>12. CASE ChainedReturns
    BY <1>10, <1>12 DEF ChainedReturns, At
  <1>13. ASSUME NEW e \in Deferreds, UserReturnsFired(e)
         PROVE  SettledInv'
    <2>1. /\ stack # <<>> /\ Top.pc = "user" /\ stack' = Goto("inner")
          /\ UNCHANGED <<called, paused, callbacks>>
      BY <1>13 DEF UserReturnsFired, At
    <2>2. e # Current
      BY <1>13, DeferredAssumption DEF UserReturnsFired, HasResult, ReturnedResult, Plain
    <2>3. /\ result'[e] = "none" /\ ~failResult'[e]
          /\ \A x \in Deferreds : x # Current => running'[x] = running[x]
          /\ \A x \in Deferreds : x # e => failResult'[x] = failResult[x]
          /\ \A x \in Deferreds : x # e /\ x # Current => result'[x] = result[x]
      BY <1>0, <1>13, <1>t, <2>1, <2>2 DEF UserReturnsFired, ForgetFailure, TypeInv
    <2>4. Settled(e)'
      BY <2>3 DEF Settled
    <2>5. \A x \in Deferreds : x # Current /\ x # e => Settled(x)' \/ running'[x]
      BY <1>0, <2>1, <2>3 DEF Settled
    <2>6. QED
      BY <1>t, <2>1, <2>4, <2>5, GotoSettled
  <1>14. ASSUME NEW e \in Deferreds, UserReturnsWaiting(e)
         PROVE  SettledInv'
    <2>1. /\ stack # <<>> /\ Top.pc = "user" /\ stack' = FinishedFrame(stack) /\ UNCHANGED called
          /\ ~HasResult(e)
      BY <1>14 DEF UserReturnsWaiting, At
    <2>2. /\ result'[Current] = e /\ \A x \in Deferreds : x # Current => result'[x] = result[x]
          /\ ~failResult'[Current] /\ \A x \in Deferreds : x # Current => failResult'[x] = failResult[x]
          /\ \A x \in Deferreds : x # Current => running'[x] = running[x]
          /\ \A x \in Deferreds : x # e => callbacks'[x] = callbacks[x]
      BY <1>0, <1>14, <1>t, <2>1 DEF UserReturnsWaiting, TypeInv
    <2>3. paused'[Current] = paused[Current] + 1 /\ \A x \in Deferreds : x # Current => paused'[x] = paused[x]
      BY <1>0, <1>14, <1>t, <2>1 DEF UserReturnsWaiting, PauseToWait, TypeInv
    <2>4. paused'[Current] # 0
      <3>1. paused[Current] = userPaused[Current] + (IF result[Current] \in Deferreds THEN 1 ELSE 0)
        BY <1>0, <2>1 DEF IInv, PauseBalance
      <3>2. paused[Current] \in Nat
        BY <1>0, <1>t, <2>1, <3>1
      <3>3. QED
        BY <2>3, <3>2
    <2>5. e # "fail"
      BY DeferredAssumption
    <2>6. \A x \in Deferreds : x = Current => Settled(x)'
      BY <2>2, <2>4, <2>5 DEF Settled
    <2>7. e # Current => ~(called[e] /\ paused[e] = 0)
      <3>1. SUFFICES ASSUME e # Current, called[e], paused[e] = 0
                     PROVE  FALSE
        OBVIOUS
      <3>2. result[e] \notin Plain
        BY <2>1, <3>1 DEF HasResult, ReturnedResult
      <3>3. result[e] \in Deferreds
        BY <1>t, <3>1, <3>2 DEF IInv, CalledInv, TypeInv, Results
      <3>4. paused[e] = userPaused[e] + 1 /\ userPaused[e] \in Nat
        BY <1>t, <3>3 DEF IInv, PauseBalance
      <3>5. QED
        BY <3>1, <3>4
    <2>8. \A x \in Deferreds : x # Current /\ Settled(x) => Settled(x)'
      BY <2>1, <2>2, <2>3, <2>7 DEF Settled
    <2>9. \A x \in Deferreds : Settled(x)' \/ (x \notin Members(Top) /\ running'[x])
      BY <1>0, <1>f, <2>1, <2>2, <2>6, <2>8
    <2>10. QED
      BY <1>t, <2>1, <2>9, FinishSettled DEF RunPcs
  <1>15. CASE CallChained
    <2>1. PICK e : e = Head(callbacks[Current])[2]
      BY Zenon
    <2>2. /\ stack # <<>> /\ Top.pc = "inner" /\ Current \in Deferreds /\ e \in Deferreds
          /\ NextEntry("fire") /\ UNCHANGED <<paused, failResult>>
      BY <1>15, <1>t, <2>1, EntryType, EntryDeferred DEF CallChained, NextEntry, At
    <2>3. \A x \in Deferreds : x # Current => callbacks'[x] = callbacks[x]
      BY <1>t, <2>2 DEF NextEntry, TypeInv
    <2>4. CASE /\ StartRunCallbacks(e, result[Current], Goto("fire"))
               /\ running' = [running EXCEPT ![Current] = TRUE]
      <3>1. Goto("fire") \in Stacks
        BY <1>t, <2>2, GotoShape DEF RunPcs
      <3>2. /\ running'[Current] /\ \A x \in Deferreds : x # Current => running'[x] = running[x]
            /\ \A x \in Deferreds : x # e => called'[x] = called[x] /\ result'[x] = result[x]
        BY <1>t, <2>2, <2>4 DEF StartRunCallbacks, TypeInv
      <3>3. \A x \in Deferreds : x # e => Settled(x)' \/ running'[x]
        BY <1>0, <2>2, <2>3, <3>2 DEF Settled
      <3>4. QED
        BY <2>2, <2>4, <3>1, <3>3, StartSettled
    <2>5. CASE /\ result' = [result EXCEPT ![Current] = IF suppress[e] THEN "none" ELSE "fail"]
               /\ UNCHANGED <<called, running, stack>>
      <3>1. \A x \in Deferreds : x # Current => result'[x] = result[x]
        BY <1>t, <2>2, <2>5 DEF TypeInv
      <3>2. \A x \in Deferreds : x # Current => Settled(x)' \/ running'[x]
        BY <1>0, <2>2, <2>3, <2>5, <3>1 DEF Settled
      <3>3. Top' = Top /\ Current' = Current /\ stack' # <<>>
        BY <2>2, <2>5 DEF Top, Current
      <3>4. QED
        BY <2>2, <3>2, <3>3 DEF SettledInv, AllSettled, TakenClean, OnTop, At
    <2>6. QED
      BY <1>15, <2>1, <2>4, <2>5 DEF CallChained
  <1>16. QED
    BY <1>1, <1>2, <1>3, <1>4, <1>5, <1>6, <1>7, <1>8, <1>9, <1>11, <1>12, <1>13, <1>14, <1>15 DEF Machinery

\* Nothing is called yet, so every Deferred is settled.
LEMMA InitSettled ==
    ASSUME Init
    PROVE  SettledInv
  <1>1. /\ stack = <<>>
        /\ \A d \in Deferreds : ~called[d] /\ result[d] = "no result" /\ ~failResult[d]
    BY Zenon DEF Init
  <1>2. AllSettled
    BY <1>1 DEF AllSettled, Settled
  <1>3. ~At("outer")
    BY <1>1 DEF At
  <1>4. QED
    BY <1>2, <1>3 DEF SettledInv, TakenClean

\* The Deferreds that are not settled are those that the call stack works on.
LEMMA SettledAlways == Spec => []SettledInv
  <1>1. Init => SettledInv
    BY InitSettled
  <1>2. IInv /\ SettledInv /\ [Next]_vars => SettledInv'
    <2>1. SUFFICES ASSUME IInv, SettledInv, [Next]_vars
                   PROVE  SettledInv'
      OBVIOUS
    <2>2. CASE UNCHANGED vars
      BY <2>1, <2>2 DEF vars, SettledInv, AllSettled, TakenClean, Settled, OnTop, At, Top, Current
    <2>3. QED
      BY <2>1, <2>2, ApplicationSettled, MachinerySettled DEF Next
  <1>3. QED
    BY <1>1, <1>2, InductiveInvariant, PTL DEF Spec

\* With an empty call stack every Deferred is settled.
LEMMA QuiescentSettled ==
    ASSUME IInv, SettledInv, Quiescent, NEW d \in Deferreds
    PROVE  Settled(d)
  <1>1. 1..Len(stack) = {}
    <2>1. PICK l : l = stack /\ l = <<>>
      BY Zenon DEF Quiescent
    <2>2. 1..Len(l) = {}
      BY <2>1
    <2>3. QED
      BY <2>1, <2>2, Zenon
  <1>2. ~running[d]
    BY <1>1 DEF IInv, StackInv, RunningFrames
  <1>3. QED
    BY <1>2 DEF SettledInv, AllSettled, OnTop, Quiescent

\* When control is back in the reactor, "Unhandled error in Deferred" is due for
\* exactly the unpaused Deferreds that hold a Failure, for any chains, pauses,
\* cancellations and re-entrancy.
THEOREM FailuresReported == Spec => []FailuresAccountedFor
  <1>1. IInv /\ SettledInv => FailuresAccountedFor
    BY QuiescentSettled DEF FailuresAccountedFor, Settled
  <1>2. QED
    BY <1>1, InductiveInvariant, SettledAlways, PTL

\* When control is back in the reactor, no called and unpaused Deferred holds a
\* result that its own callbacks still wait for.
THEOREM ResultsDelivered == Spec => []NoResultWithheld
  <1>1. IInv /\ SettledInv => NoResultWithheld
    BY QuiescentSettled DEF NoResultWithheld, Settled
  <1>2. QED
    BY <1>1, InductiveInvariant, SettledAlways, PTL
================================================================================
