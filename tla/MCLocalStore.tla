---------------------------- MODULE MCLocalStore ----------------------------
(* Instances of LocalStore for TLC.                                        *)
EXTENDS LocalStoreInv, TLC

(* The ids of the instances have one digit. *)
ASSUME NamesSort == OrderedNames

(* A store that has never been written to.                                 *)
EmptyDisk == [p \in PackId |-> {}]

(* Chunks are interchangeable, and so are the threads of one kind.         *)
Symmetry == Permutations(Chunk) \cup Permutations(Writers) \cup Permutations(Readers)

=============================================================================
