------------------------------ MODULE MCPipeline ------------------------------
(* Instances of Pipeline for TLC.                                          *)
EXTENDS Pipeline, TLC

CONSTANTS c1, c2, c3

Chunks == {c1, c2, c3}

(* c2 and c3 look like c1.                                                 *)
LikeTheFirst == {<<c1, c2>>, <<c2, c1>>, <<c1, c3>>, <<c3, c1>>}

(* A file with a repeated chunk and a near-duplicate, and one that shares  *)
(* a chunk with it.                                                        *)
TwoFiles == {<<c1, c2, c1>>, <<c2>>}

(* A file longer than the channel, and an empty one.                       *)
Lengths  == {<<c1, c2, c3>>, <<>>}

Symmetry == Permutations(Backups)

=============================================================================
