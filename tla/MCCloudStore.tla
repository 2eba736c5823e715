----------------------------- MODULE MCCloudStore -----------------------------
(* Instances of CloudStore for TLC: machines and chunks are interchangeable. *)
EXTENDS CloudStore, TLC

Symmetry == Permutations(Chunk) \cup Permutations(Machine)

=============================================================================
