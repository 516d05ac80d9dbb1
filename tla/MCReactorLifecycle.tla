-------------------------- MODULE MCReactorLifecycle --------------------------
(***************************************************************************)
(* Instances of ReactorLifecycle for TLC.                                  *)
(***************************************************************************)
EXTENDS ReactorLifecycle, TLC

Symmetry == Permutations(Triggers)

Both == Events
===============================================================================
