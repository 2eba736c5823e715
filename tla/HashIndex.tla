------------------------------- MODULE HashIndex -------------------------------
(***************************************************************************)
(* The dedup index (index/hashindex.rs): a concurrent map from hashes to   *)
(* locations, a counter beside it, and a Bloom filter behind a mutex that  *)
(* lets `lookup` answer without the map.  None of the three is updated     *)
(* together with another: `insert` sets the bits, then puts the entry in   *)
(* the map, then counts it, and a lookup or another insert may run between *)
(* any two of these steps.                                                 *)
(***************************************************************************)
EXTENDS Naturals, FiniteSets

CONSTANTS
    Hash,
    Location,
    NoLocation,     \* what lookup returns for an absent hash
    Thread,
    Bits            \* hash_indices: the bits of each hash, 7 in the code

ASSUME LocationAssumption == NoLocation \notin Location
ASSUME FiniteAssumption   == IsFiniteSet(Hash) /\ IsFiniteSet(Thread)

VARIABLES
    map,        \* the map: [hash |-> location], NoLocation if absent
    bits,       \* the bits set in the filter
    count,      \* the counter `len` returns
    pc,         \* what a thread does next
    key,        \* the hash its call is about
    value       \* the location it inserts, or its lookup has found

vars == <<map, bits, count, pc, key, value>>

Keys            == {h \in Hash : map[h] # NoLocation}
MightContain(h) == Bits[h] \subseteq bits

Init ==
    /\ map = [h \in Hash |-> NoLocation]
    /\ bits = {}
    /\ count = 0
    /\ pc = [t \in Thread |-> "idle"]
    /\ key \in [Thread -> Hash]
    /\ value = [t \in Thread |-> NoLocation]

StartInsert(t, h, loc) ==
    /\ pc[t] = "idle"
    /\ key' = [key EXCEPT ![t] = h]
    /\ value' = [value EXCEPT ![t] = loc]
    /\ pc' = [pc EXCEPT ![t] = "setBits"]
    /\ UNCHANGED <<map, bits, count>>

(* Mistake: the filter is rebuilt instead of extended. *)
ReplaceBits(t) ==
    /\ pc[t] = "setBits"
    /\ bits' = Bits[key[t]]
    /\ pc' = [pc EXCEPT ![t] = "putEntry"]
    /\ UNCHANGED <<map, count, key, value>>

SetBits(t) ==
    /\ pc[t] = "setBits"
    /\ bits' = bits \cup Bits[key[t]]
    /\ pc' = [pc EXCEPT ![t] = "putEntry"]
    /\ UNCHANGED <<map, count, key, value>>

(* Mistake: whether the entry is new is not asked of the map. *)
PutAndCount(t) ==
    /\ pc[t] = "putEntry"
    /\ map' = [map EXCEPT ![key[t]] = value[t]]
    /\ pc' = [pc EXCEPT ![t] = "count"]
    /\ UNCHANGED <<bits, count, key, value>>

(* map.insert returns the entry it replaced; only a new one is counted.    *)
PutEntry(t) ==
    /\ pc[t] = "putEntry"
    /\ map' = [map EXCEPT ![key[t]] = value[t]]
    /\ \/ /\ map[key[t]] = NoLocation
          /\ pc' = [pc EXCEPT ![t] = "count"]
       \/ /\ map[key[t]] # NoLocation
          /\ pc' = [pc EXCEPT ![t] = "idle"]
    /\ UNCHANGED <<bits, count, key, value>>

CountEntry(t) ==
    /\ pc[t] = "count"
    /\ count' = count + 1
    /\ pc' = [pc EXCEPT ![t] = "idle"]
    /\ UNCHANGED <<map, bits, key, value>>

StartLookup(t, h) ==
    /\ pc[t] = "idle"
    /\ key' = [key EXCEPT ![t] = h]
    /\ value' = [value EXCEPT ![t] = NoLocation]
    /\ pc' = [pc EXCEPT ![t] = "askFilter"]
    /\ UNCHANGED <<map, bits, count>>

AskFilter(t) ==
    /\ pc[t] = "askFilter"
    /\ pc' = [pc EXCEPT ![t] = IF MightContain(key[t]) THEN "askMap" ELSE "found"]
    /\ UNCHANGED <<map, bits, count, key, value>>

(* `contains` asks the map at once; `lookup` comes here from the filter.   *)
StartContains(t, h) ==
    /\ pc[t] = "idle"
    /\ key' = [key EXCEPT ![t] = h]
    /\ value' = [value EXCEPT ![t] = NoLocation]
    /\ pc' = [pc EXCEPT ![t] = "askMap"]
    /\ UNCHANGED <<map, bits, count>>

AskMap(t) ==
    /\ pc[t] = "askMap"
    /\ value' = [value EXCEPT ![t] = map[key[t]]]
    /\ pc' = [pc EXCEPT ![t] = "found"]
    /\ UNCHANGED <<map, bits, count, key>>

Return(t) ==
    /\ pc[t] = "found"
    /\ pc' = [pc EXCEPT ![t] = "idle"]
    /\ UNCHANGED <<map, bits, count, key, value>>

Next ==
    \E t \in Thread :
        \/ \E h \in Hash, loc \in Location : StartInsert(t, h, loc)
        \/ \E h \in Hash : StartLookup(t, h) \/ StartContains(t, h)
        \/ SetBits(t) \/ PutEntry(t) \/ CountEntry(t)
        \/ AskFilter(t) \/ AskMap(t) \/ Return(t)

Spec == Init /\ [][Next]_vars

-----------------------------------------------------------------------------
(* Properties.                                                             *)

(* A thread about to count has put its entry into the map, and one about   *)
(* to put it there has the location.                                       *)
TypeOK ==
    /\ map \in [Hash -> Location \cup {NoLocation}]
    /\ bits \subseteq UNION {Bits[h] : h \in Hash}
    /\ count \in Nat
    /\ pc \in [Thread -> {"idle", "setBits", "putEntry", "count", "askFilter",
                         "askMap", "found"}]
    /\ key \in [Thread -> Hash]
    /\ value \in [Thread -> Location \cup {NoLocation}]
    /\ \A t \in Thread : pc[t] \in {"setBits", "putEntry", "count"} => value[t] \in Location

(* The filter has no false negatives: what the map holds passes it, at     *)
(* every point between the steps of concurrent inserts.                    *)
FilterCoversMap == \A h \in Keys : MightContain(h)

(* The calls that have yet to take effect: an insert until its entry is in *)
(* the map, a lookup until the filter or the map has answered.             *)
Atomic == INSTANCE DedupIndex WITH
    call <- [t \in Thread |->
                IF pc[t] \in {"setBits", "putEntry"} THEN "insert"
                ELSE IF pc[t] \in {"askFilter", "askMap"} THEN "lookup" ELSE "none"]

(* The index acts as if filter and map were one: a lookup that the filter  *)
(* answers has found the map without the hash at that moment, whatever     *)
(* other inserts are between their steps, and a hash that is found once is *)
(* found by every later lookup.                                            *)
ImplementsDedupIndex == Atomic!Spec

(* `len` counts every entry once, however many threads insert one hash at  *)
(* the same time: it lags behind the map by the inserts that have not yet  *)
(* counted, and by nothing else.                                           *)
CountIsKeys ==
    count + Cardinality({t \in Thread : pc[t] = "count"}) = Cardinality(Keys)

-----------------------------------------------------------------------------
(* The inductive invariant: an insert that is past the filter has set its  *)
(* bits, one that counts has put its entry, and a lookup has no location   *)
(* until the map gave it one.                                              *)
CallOrder ==
    \A t \in Thread :
        /\ pc[t] = "putEntry" => MightContain(key[t])
        /\ pc[t] = "count" => key[t] \in Keys
        /\ pc[t] \in {"askFilter", "askMap"} => value[t] = NoLocation

IndexInv == TypeOK /\ FilterCoversMap /\ CallOrder /\ CountIsKeys

=============================================================================
