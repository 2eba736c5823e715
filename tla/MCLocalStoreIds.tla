--------------------------- MODULE MCLocalStoreIds ---------------------------
(* An instance of LocalStore that starts with the pack files earlier        *)
(* sessions left; its chunks are numbers, so that pack p can hold chunk p.  *)
EXTENDS LocalStore

(* A store after ten flushes: packs 0 to 9, one chunk each.             *)
TenPacks == [p \in PackId |-> IF p < 10 THEN {FullEntry(p)} ELSE {}]

=============================================================================
