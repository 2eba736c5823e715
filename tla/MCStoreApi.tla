------------------------------ MODULE MCStoreApi ------------------------------
(* Instances of StoreApi for TLC.                                          *)
EXTENDS StoreApi, TLC

CONSTANTS a, b, n1, p1

(* The file changes, to another of the same size and to a longer one.      *)
UserWrites == p1 :> {<<a>>, <<b>>, <<a, b>>}

AtFirst == p1 :> <<a>>

DamagedB == {{b}}

OwnName == p1 :> n1

Symmetry == Permutations(Thread)

=============================================================================
