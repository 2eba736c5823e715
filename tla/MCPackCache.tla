----------------------------- MODULE MCPackCache -----------------------------
(* Instances of PackCache for TLC: threads and packs are interchangeable.  *)
EXTENDS PackCache, TLC

Symmetry == Permutations(Thread) \cup Permutations(Pack)

=============================================================================
