----------------------------- MODULE MCHashIndex -----------------------------
(* An instance of HashIndex for TLC.                                       *)
EXTENDS HashIndex, TLC

CONSTANTS h1, h2, h3

Hashes == {h1, h2, h3}

(* The bits of h1 and h2 together cover those of h3: a false positive.     *)
Overlapping == (h1 :> {1, 2}) @@ (h2 :> {3, 4}) @@ (h3 :> {2, 3})

Symmetry == Permutations(Thread)

=============================================================================
