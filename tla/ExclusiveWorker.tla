--------------------------- MODULE ExclusiveWorker ---------------------------
(***************************************************************************)
(* What twisted._threads.IExclusiveWorker promises to those that call its  *)
(* two methods from any number of threads: do() accepts work until quit(), *)
(* the callables it was given run one at a time, each of them once at      *)
(* most, and nothing runs that was not accepted.  The interface leaves an  *)
(* implementation free never to run a callable.                            *)
(***************************************************************************)
CONSTANT Works   \* the callables that are passed to do()

VARIABLES accepted,   \* callables for which do() did not raise AlreadyQuit
          running,    \* callables being called now
          ended,      \* callables that returned or raised
          closed      \* whether quit() has been called

Init == accepted = {} /\ running = {} /\ ended = {} /\ closed = FALSE

Accept(w) ==
    /\ ~closed /\ w \notin accepted
    /\ accepted' = accepted \cup {w}
    /\ UNCHANGED <<running, ended, closed>>

Begin(w) ==
    /\ running = {} /\ w \in accepted \ ended
    /\ running' = {w}
    /\ UNCHANGED <<accepted, ended, closed>>

End(w) ==
    /\ w \in running
    /\ running' = {} /\ ended' = ended \cup {w}
    /\ UNCHANGED <<accepted, closed>>

Close ==
    /\ ~closed /\ closed' = TRUE
    /\ UNCHANGED <<accepted, running, ended>>

Next == Close \/ \E w \in Works : Accept(w) \/ Begin(w) \/ End(w)

Spec == Init /\ [][Next]_<<accepted, running, ended, closed>>
===============================================================================
