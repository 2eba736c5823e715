------------------------------ MODULE MCPalantir ------------------------------
(* Instances of Palantir for TLC.                                          *)
EXTENDS Palantir, TLC

(* Hashes are numbers; one slot of the first tier and two of the second.   *)
Slots == {"t1", "t2a", "t2b"}
Tiers == [s \in Slots |-> IF s = "t1" THEN 3 ELSE 2]

(* Chunks 1 and 2 agree in the first tier, 2 and 3 in one slot of the      *)
(* second, 3 and 4 in both, 5 and 6 in nothing.                            *)
Signatures ==
    <<[t1 |-> "p", t2a |-> "p", t2b |-> "p"],
      [t1 |-> "p", t2a |-> "q", t2b |-> "r"],
      [t1 |-> "s", t2a |-> "q", t2b |-> "s"],
      [t1 |-> "t", t2a |-> "q", t2b |-> "s"],
      [t1 |-> "u", t2a |-> "u", t2b |-> "u"],
      [t1 |-> "v", t2a |-> "v", t2b |-> "v"]>>

(* Four chunks in one shard, two in the other.                             *)
TwoShards == [h \in Hash |-> IF h <= 4 THEN 0 ELSE 1]

(* Rebuilds from two entries, which may be the same.                       *)
TwoEntries == {<<h, g>> : h, g \in Hash}

(* Bound on the queue of a shard, which repeats a chunk that was inserted  *)
(* twice.                                                                  *)
ShortQueues == QueueBound(5)

=============================================================================
