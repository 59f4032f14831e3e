------------------------------ MODULE MCStores -------------------------------
(***************************************************************************)
(* Stores on small instances: a second is two ticks, so that times to live *)
(* are a second or a part of one.                                          *)
(***************************************************************************)
EXTENDS Stores, TLC

SomeTTLs == {-1, 0, 1, 2}

\* Requests are interchangeable.
Symmetry == Permutations(Requests)
=============================================================================
