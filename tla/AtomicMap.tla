-------------------------------- MODULE AtomicMap --------------------------------
(***************************************************************************)
(* What DirDBM promises: a mapping whose entries are set and deleted in    *)
(* one step each.  Only the assignment that is going on changes an entry   *)
(* to a value, only a deletion takes one away, and neither happens while   *)
(* the mapping is closed: what was there when it was closed is there when  *)
(* it is open again.                                                       *)
(*                                                                         *)
(* The file system may fail an assignment half-way with an error.  Nothing *)
(* is promised then about that one key, until the mapping is opened again. *)
(***************************************************************************)
CONSTANTS Keys, Values, Missing

VARIABLES contents,  \* [k] the value stored under k, Missing if there is none
          writing,   \* the assignment <<key, value>> that may take effect, if any
          ready,     \* the mapping is open, and no operation is going on
          broken     \* the keys whose assignment has failed half-way

Init ==
    /\ contents = [k \in Keys |-> Missing]
    /\ writing = {} /\ ready = TRUE /\ broken = {}

Becomes(f) == \A k \in Keys \ (broken \cup broken') : contents'[k] = f[k]

Begin ==
    /\ ready /\ ~ready'
    /\ \E k \in Keys, v \in Values : writing' = {<<k, v>>}
    /\ broken' = broken /\ Becomes(contents)

\* The assignment takes effect; it is over then, or later in another such step.
Set ==
    /\ \E w \in writing : Becomes([contents EXCEPT ![w[1]] = w[2]])
    /\ \/ writing' = writing /\ ready' = ready
       \/ writing' = {} /\ ready'
    /\ broken' = broken

Delete ==
    /\ ready /\ ready' /\ writing' = {}
    /\ \E k \in Keys : Becomes([contents EXCEPT ![k] = Missing])
    /\ broken' = broken

\* The assignment fails, or the process dies.
Stop ==
    /\ ~ready' /\ writing' = {}
    /\ broken' = broken /\ Becomes(contents)

\* The failure has been reported, or the mapping has been opened again.
Resume ==
    /\ ~ready /\ ready' /\ writing = {} /\ writing' = {}
    /\ broken' \in {broken, {}} /\ Becomes(contents)

Break ==
    /\ ~ready /\ ready' /\ writing' = {}
    /\ \E k \in Keys : broken' = broken \cup {k}
    /\ Becomes(contents)

Next == Begin \/ Set \/ Delete \/ Stop \/ Resume \/ Break

Spec == Init /\ [][Next]_<<contents, writing, ready, broken>>
===============================================================================
