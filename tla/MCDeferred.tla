------------------------------ MODULE MCDeferred ------------------------------
(***************************************************************************)
(* An instance of Deferred for TLC.                                        *)
(***************************************************************************)
EXTENDS Deferred, TLC

Symmetry == Permutations(Deferreds \ Cancellable) \cup Permutations(Cancellable)

(***************************************************************************)
(* The bounds: two Deferreds are in use, or three while the application    *)
(* pauses none of them and has added one pair of callbacks to each.        *)
(***************************************************************************)
Unused(d) ==
    /\ ~called[d] /\ callbacks[d] = <<>> /\ paused[d] = 0
    /\ \A e \in Deferreds : \A i \in DOMAIN callbacks[e] : callbacks[e][i] # Fire(d)
    /\ \A i \in DOMAIN stack : \A k \in DOMAIN stack[i].chain : stack[i].chain[k] # d

Bounded ==
    \/ \E d \in Deferreds \ Cancellable : Unused(d)
    \/ \A d \in Deferreds : added[d] <= 1 /\ userPaused[d] = 0

BoundedSpec == Init /\ [][Next /\ Bounded']_vars
===============================================================================
