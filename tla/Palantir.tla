------------------------------- MODULE Palantir -------------------------------
(***************************************************************************)
(* The similarity index of a backup (similarity/palantir.rs behind         *)
(* pipeline/similarity_stage.rs): shards of bounded size, each a set of    *)
(* signatures, the lists of chunks that have a super-feature in common,    *)
(* and a queue in order of use from which the oldest entry is evicted when *)
(* the shard is full.                                                      *)
(*                                                                         *)
(* A slot is one super-feature of one tier (3 of the first, 4 of the       *)
(* second and 6 of the third in the code).                                 *)
(***************************************************************************)
EXTENDS Naturals, Sequences, FiniteSets, SequencesExt

CONSTANTS
    Hash,
    Shard,          \* 4 in the code
    ShardOf,        \* the shard of a hash: its first byte modulo their number
    Slot,
    TierOf,         \* the tier of a slot: 3 is High, 2 Medium, 1 Low
    Feature,        \* Feature[h][s]: super-feature s of chunk h
    Budget,         \* SimilarityConfig::memory_budget, for all shards
    PerFeature,     \* MAX_CANDIDATES_PER_SF: 5 in the code
    Accepted,       \* the tiers the threshold lets through
    Rebuilds        \* the entries a rebuild may be given

ASSUME ShardAssumption   == ShardOf \in [Hash -> Shard] /\ IsFiniteSet(Shard) /\ Shard # {}
ASSUME TierAssumption    == /\ TierOf \in [Slot -> 1 .. 3]
                            /\ \E least \in 1 .. 4 : Accepted = least .. 3
ASSUME SizeAssumption    == Budget \in Nat /\ PerFeature \in Nat \ {0}
ASSUME RebuildAssumption == Rebuilds \subseteq Seq(Hash)

Features == {Feature[h][s] : h \in Hash, s \in Slot}
Unique   == [kind |-> "Unique"]
NearDuplicate(h, tier) == [kind |-> "NearDuplicate", similar_to |-> h, tier |-> tier]

VARIABLES
    shard,      \* the PalantirIndex of each shard
    outcome,    \* what the last call of process returned
    before,     \* history: the pairs of entries, the one last used earlier first
    twice       \* history: shards that inserted a chunk they already had

vars == <<shard, outcome, before, twice>>

ShardBudget == Budget \div Cardinality(Shard)

Empty == [signatures |-> {}, lru |-> <<>>, count |-> 0,
          lists |-> [s \in Slot |-> [f \in Features |-> <<>>]]]

-----------------------------------------------------------------------------
(* PalantirIndex.                                                          *)

(* retain: the queue and the lists of candidates without one hash.         *)
Without(seq, h) ==
    LET kept[n \in 0 .. Len(seq)] ==
            IF n = 0 THEN <<>>
            ELSE IF seq[n] = h THEN kept[n - 1] ELSE Append(kept[n - 1], seq[n])
    IN  kept[Len(seq)]

(* Mistake: the lists keep the hash.                                       *)
RemoveSignature(x, h) ==
    [x EXCEPT !.signatures = @ \ {h}, !.lru = Without(@, h), !.count = @ - 1]

Removed(x, h) ==
    [signatures |-> x.signatures \ {h},
     lru |-> Without(x.lru, h),
     count |-> x.count - 1,
     lists |-> [s \in Slot |-> [f \in Features |-> Without(x.lists[s][f], h)]]]

(* Mistakes: the shard is full one entry later, or one entry sooner.       *)
FullLate(x) == x.count > ShardBudget

FullSoon(x) == x.count > 0 /\ x.count + 1 >= ShardBudget

Full(x) == x.count > 0 /\ x.count >= ShardBudget

(* enforce_budget: the oldest entries go while the shard is full and the   *)
(* queue has one; it has run out after as many rounds as it was long.      *)
EvictOldest(x) == IF Full(x) /\ x.lru # <<>> THEN Removed(x, Head(x.lru)) ELSE x

EnforceBudget(x) ==
    LET after[n \in 0 .. Len(x.lru)] ==
            IF n = 0 THEN x ELSE EvictOldest(after[n - 1])
    IN  after[Len(x.lru)]

Listed(lists, h) ==
    [s \in Slot |-> [f \in Features |->
        IF f = Feature[h][s] THEN Append(lists[s][f], h) ELSE lists[s][f]]]

(* Mistake: the room is made for the entry without queueing it.            *)
InsertedUnqueued(x, h) ==
    LET y == EnforceBudget(x) IN
    [signatures |-> y.signatures \cup {h},
     lru |-> y.lru,
     count |-> y.count + 1,
     lists |-> Listed(y.lists, h)]

Inserted(x, h) ==
    LET y == EnforceBudget(x) IN
    [signatures |-> y.signatures \cup {h},
     lru |-> Append(y.lru, h),
     count |-> y.count + 1,
     lists |-> Listed(y.lists, h)]

Touched(x, h) ==
    LET at == CHOOSE i \in DOMAIN x.lru :
                  x.lru[i] = h /\ \A j \in 1 .. (i - 1) : x.lru[j] # h
    IN  [x EXCEPT !.lru = Append(RemoveAt(@, at), h)]

(* One entry after the other into its shard.                               *)
Filled(entries) ==
    LET after[n \in 0 .. Len(entries)] ==
            IF n = 0 THEN [i \in Shard |-> Empty]
            ELSE [after[n - 1] EXCEPT ![ShardOf[entries[n]]] = Inserted(@, entries[n])]
    IN  after[Len(entries)]

(* The matches of one tier: the chunk itself aside, the first PerFeature   *)
(* entries of each list.  The best one shares the most super-features.     *)
Matches(x, h, s) ==
    LET list == x.lists[s][Feature[h][s]]
    IN  {i \in 1 .. Len(list) : i <= PerFeature /\ list[i] # h}

Shared(x, h, g, tier) ==
    Cardinality({e \in {s \in Slot : TierOf[s] = tier} \X (1 .. Len(x.lru)) :
                    /\ e[2] \in Matches(x, h, e[1])
                    /\ x.lists[e[1]][Feature[h][e[1]]][e[2]] = g})

Candidates(x, h, tier) ==
    {g \in x.signatures : Shared(x, h, g, tier) > 0}

BestCandidates(x, h, tier) ==
    {g \in Candidates(x, h, tier) :
        \A k \in Candidates(x, h, tier) : Shared(x, h, k, tier) <= Shared(x, h, g, tier)}

(* The first tier that has a candidate answers the query.                  *)
AnswersIn(x, h, tier) ==
    /\ Candidates(x, h, tier) # {}
    /\ \A better \in (tier + 1) .. 3 : Candidates(x, h, better) = {}

-----------------------------------------------------------------------------

(* The pairs of entries of a sequence, the earlier one first.              *)
Pairs(seq) ==
    {p \in Hash \X Hash :
        \E j, k \in DOMAIN seq : j < k /\ p = <<seq[j], seq[k]>>}

Among(order, kept) == {p \in order : p[1] \in kept /\ p[2] \in kept}

(* The order in which the entries kept were last used, when h is used now. *)
UsedLast(order, h, kept) ==
    Among(order, kept \ {h}) \cup ((kept \ {h}) \X {h})

Init ==
    /\ shard = [i \in Shard |-> Empty]
    /\ outcome = Unique
    /\ before = [i \in Shard |-> {}]
    /\ twice = {}

(* insert does not ask whether the hash is there.                          *)
Insert(h) ==
    twice' = IF h \in shard[ShardOf[h]].signatures
             THEN twice \cup {ShardOf[h]} ELSE twice

(* process: a near-duplicate moves its match to the end of the queue and   *)
(* is not inserted itself.                                                 *)
ProcessNear(h) ==
    LET x == shard[ShardOf[h]] IN
    /\ \E tier \in Accepted : \E g \in BestCandidates(x, h, tier) :
          /\ AnswersIn(x, h, tier)
          /\ shard' = [shard EXCEPT ![ShardOf[h]] = Touched(x, g)]
          /\ before' = [before EXCEPT ![ShardOf[h]] = UsedLast(@, g, x.signatures)]
          /\ outcome' = NearDuplicate(g, tier)
    /\ UNCHANGED twice

(* A match of a tier below the threshold is moved to the end as well, but  *)
(* the chunk is taken for unique.                                          *)
ProcessBelow(h) ==
    LET x == shard[ShardOf[h]] IN
    /\ \E tier \in (1 .. 3) \ Accepted : \E g \in BestCandidates(x, h, tier) :
          LET y == Inserted(Touched(x, g), h) IN
          /\ AnswersIn(x, h, tier)
          /\ shard' = [shard EXCEPT ![ShardOf[h]] = y]
          /\ before' = [before EXCEPT ![ShardOf[h]] =
                UsedLast(UsedLast(@, g, x.signatures), h, y.signatures)]
    /\ outcome' = Unique
    /\ Insert(h)

Load(h) ==
    LET y == Inserted(shard[ShardOf[h]], h) IN
    /\ shard' = [shard EXCEPT ![ShardOf[h]] = y]
    /\ before' = [before EXCEPT ![ShardOf[h]] = UsedLast(@, h, y.signatures)]
    /\ Insert(h)

ProcessUnique(h) ==
    /\ \A tier \in 1 .. 3 : Candidates(shard[ShardOf[h]], h, tier) = {}
    /\ Load(h)
    /\ outcome' = Unique

(* set_index inserts the entries of another index one at a time; those that *)
(* are there stay.                                                         *)
SetIndexEntry(h) == Load(h) /\ UNCHANGED outcome

(* rebuild: everything is cleared and the entries are inserted in turn.    *)
Rebuild(entries) ==
    /\ shard' = Filled(entries)
    /\ before' = [i \in Shard |-> Among(Pairs(entries), shard'[i].signatures)]
    /\ twice' = {ShardOf[p[1]] : p \in {q \in Pairs(entries) : q[1] = q[2]}}
    /\ UNCHANGED outcome

OneChunk ==
    \E h \in Hash : ProcessNear(h) \/ ProcessBelow(h) \/ ProcessUnique(h) \/ SetIndexEntry(h)

Next == OneChunk \/ \E entries \in Rebuilds : Rebuild(entries)

Spec == Init /\ [][Next]_vars

(* Bound: at most this many entries in a queue, counting repeated ones.    *)
QueueBound(n) == \A i \in Shard : Len(shard[i].lru) <= n

-----------------------------------------------------------------------------
(* Properties.                                                             *)

TypeOK ==
    /\ \A i \in Shard :
          /\ shard[i].signatures \subseteq {h \in Hash : ShardOf[h] = i}
          /\ ToSet(shard[i].lru) = shard[i].signatures
          /\ shard[i].count \in Nat
    /\ outcome = Unique \/ outcome \in {NearDuplicate(h, t) : h \in Hash, t \in 1 .. 3}
    /\ twice \subseteq Shard

(* The lists of a shard name exactly the chunks that have a signature in   *)
(* it, each under its own super-features.                                  *)
ListsMatchSignatures ==
    \A i \in Shard : \A s \in Slot : \A f \in Features :
        ToSet(shard[i].lists[s][f]) = {h \in shard[i].signatures : Feature[h][s] = f}

(* The counter that bounds a shard covers its entries, and is their number *)
(* as long as no chunk was inserted while it was there.                    *)
CountIsEntries ==
    \A i \in Shard :
        LET entries == Cardinality(shard[i].signatures)
        IN  /\ shard[i].count >= entries
            /\ i \notin twice => shard[i].count = entries

(* The queue holds the entries, each once, in the order in which they were *)
(* last inserted or returned by a query, so the oldest is evicted first.   *)
QueueIsUseOrder == \A i \in Shard \ twice : Pairs(shard[i].lru) = before[i]

(* The four structures that know of an entry agree: an eviction leaves no  *)
(* stale candidate in any tier and loses none, and neither counter nor     *)
(* queue drifts, through insertions, hits, merges and rebuilds; also when  *)
(* a chunk was inserted more than once, as far as the code then counts.    *)
StructuresAgree == ListsMatchSignatures /\ CountIsEntries /\ QueueIsUseOrder

(* The shards together hold no more than memory_budget entries.            *)
WithinBudget ==
    Cardinality(UNION {shard[i].signatures : i \in Shard}) <= Budget

(* A chunk pushes another out of its shard only when the shard is full.  A *)
(* shard that inserted a chunk twice counts it twice, and does not hold to *)
(* this.                                                                   *)
EvictsWhenFull ==
    [][OneChunk =>
          \A i \in Shard \ (twice \cup twice') :
              ~(shard[i].signatures \subseteq shard'[i].signatures)
              => Cardinality(shard[i].signatures) >= ShardBudget]_vars

=============================================================================
