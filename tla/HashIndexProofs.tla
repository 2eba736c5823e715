--------------------------- MODULE HashIndexProofs ---------------------------
(***************************************************************************)
(* Proofs about HashIndex, for any finite sets of hashes and threads and   *)
(* any assignment of bits to hashes.                                       *)
(***************************************************************************)
EXTENDS HashIndex, FiniteSetTheorems, TLAPS

Counting == {t \in Thread : pc[t] = "count"}

LEMMA InitIndex == ASSUME Init PROVE IndexInv
<1>1. Keys = {} /\ Counting = {}
  BY DEF Init, Keys, Counting
<1>2. CountIsKeys
  BY <1>1, FS_EmptySet DEF Init, CountIsKeys, Counting
<1>3. TypeOK
  BY DEF Init, TypeOK
<1>4. FilterCoversMap /\ CallOrder
  BY <1>1 DEF Init, FilterCoversMap, CallOrder
<1>5. QED
  BY <1>2, <1>3, <1>4 DEF IndexInv

LEMMA StepType == ASSUME TypeOK, [Next]_vars PROVE TypeOK'
<1> USE DEF TypeOK
<1>1. ASSUME NEW t \in Thread,
             \/ \E h \in Hash, loc \in Location : StartInsert(t, h, loc)
             \/ \E h \in Hash : StartLookup(t, h) \/ StartContains(t, h)
      PROVE  TypeOK'
  BY <1>1 DEF StartInsert, StartLookup, StartContains
<1>2. ASSUME NEW t \in Thread, SetBits(t) \/ PutEntry(t) \/ CountEntry(t)
      PROVE  TypeOK'
  BY <1>2 DEF SetBits, PutEntry, CountEntry
<1>3. ASSUME NEW t \in Thread, AskFilter(t) \/ AskMap(t) \/ Return(t)
      PROVE  TypeOK'
  BY <1>3 DEF AskFilter, AskMap, Return
<1>4. CASE UNCHANGED vars
  BY <1>4 DEF vars
<1>5. QED
  BY <1>1, <1>2, <1>3, <1>4 DEF Next

(* Entries stay in the map, bits stay in the filter, and an entry enters   *)
(* the map behind the bits of its hash.                                    *)
LEMMA StepGrows ==
    ASSUME TypeOK, CallOrder, [Next]_vars
    PROVE  /\ Keys \subseteq Keys'
           /\ bits \subseteq bits'
           /\ \A h \in Keys' : h \in Keys \/ MightContain(h)
<1>1. ASSUME NEW t \in Thread, PutEntry(t)
      PROVE  /\ Keys' = Keys \cup {key[t]}
             /\ MightContain(key[t])
  <2>1. map' = [map EXCEPT ![key[t]] = value[t]] /\ value[t] # NoLocation
    BY <1>1, LocationAssumption DEF PutEntry, TypeOK
  <2>2. QED
    BY <1>1, <2>1 DEF PutEntry, Keys, CallOrder, TypeOK
<1>2. UNCHANGED map \/ \E t \in Thread : PutEntry(t)
  BY DEF Next, StartInsert, StartLookup, StartContains, SetBits, CountEntry,
         AskFilter, AskMap, Return, vars
<1>3. bits \subseteq bits'
  BY DEF Next, StartInsert, StartLookup, StartContains, SetBits, PutEntry, CountEntry,
         AskFilter, AskMap, Return, vars
<1>4. QED
  BY <1>1, <1>2, <1>3 DEF Keys

LEMMA StepFilter ==
    ASSUME TypeOK, CallOrder, FilterCoversMap, [Next]_vars
    PROVE  FilterCoversMap'
BY StepGrows DEF FilterCoversMap, MightContain

LEMMA StepOrder ==
    ASSUME TypeOK, CallOrder, [Next]_vars
    PROVE  CallOrder'
<1> USE DEF TypeOK
<1>0. Keys \subseteq Keys' /\ bits \subseteq bits'
  BY StepGrows
<1>1. ASSUME NEW t \in Thread,
             \/ \E h \in Hash, loc \in Location : StartInsert(t, h, loc)
             \/ \E h \in Hash : StartLookup(t, h) \/ StartContains(t, h)
             \/ AskFilter(t) \/ AskMap(t) \/ Return(t)
      PROVE  CallOrder'
  BY <1>0, <1>1 DEF StartInsert, StartLookup, StartContains, AskFilter, AskMap, Return,
                    CallOrder, MightContain
<1>2. ASSUME NEW t \in Thread, SetBits(t)
      PROVE  CallOrder'
  BY <1>0, <1>2 DEF SetBits, CallOrder, MightContain
<1>3. ASSUME NEW t \in Thread, PutEntry(t)
      PROVE  CallOrder'
  <2>1. key[t] \in Keys'
    BY <1>3, LocationAssumption DEF PutEntry, Keys
  <2>2. QED
    BY <1>0, <1>3, <2>1 DEF PutEntry, CallOrder, MightContain
<1>4. ASSUME NEW t \in Thread, CountEntry(t)
      PROVE  CallOrder'
  BY <1>0, <1>4 DEF CountEntry, CallOrder, MightContain
<1>5. CASE UNCHANGED vars
  BY <1>5 DEF vars, CallOrder, MightContain, Keys
<1>6. QED
  BY <1>1, <1>2, <1>3, <1>4, <1>5 DEF Next

LEMMA StepCount ==
    ASSUME TypeOK, CallOrder, CountIsKeys, [Next]_vars
    PROVE  CountIsKeys'
<1> USE DEF TypeOK
<1>0. /\ IsFiniteSet(Keys) /\ IsFiniteSet(Counting)
      /\ Cardinality(Keys) \in Nat /\ Cardinality(Counting) \in Nat
  BY FiniteAssumption, FS_Subset, FS_CardinalityType DEF Keys, Counting
<1>1. ASSUME UNCHANGED <<map, count>>, Counting' = Counting
      PROVE  CountIsKeys'
  BY <1>1 DEF CountIsKeys, Counting, Keys
<1>2. ASSUME NEW t \in Thread,
             \/ \E h \in Hash, loc \in Location : StartInsert(t, h, loc)
             \/ \E h \in Hash : StartLookup(t, h) \/ StartContains(t, h)
             \/ SetBits(t) \/ AskFilter(t) \/ AskMap(t) \/ Return(t)
      PROVE  CountIsKeys'
  BY <1>1, <1>2 DEF StartInsert, StartLookup, StartContains, SetBits, AskFilter, AskMap,
                    Return, Counting
<1>3. ASSUME NEW t \in Thread, PutEntry(t)
      PROVE  CountIsKeys'
  <2>1. /\ Keys' = Keys \cup {key[t]}
        /\ key[t] \in Keys <=> map[key[t]] # NoLocation
        /\ t \notin Counting
    BY <1>3, LocationAssumption DEF PutEntry, Keys, Counting
  <2>2. CASE map[key[t]] # NoLocation
    <3>1. Keys' = Keys /\ Counting' = Counting
      BY <1>3, <2>1, <2>2 DEF PutEntry, Counting
    <3>2. QED
      BY <1>3, <3>1 DEF PutEntry, CountIsKeys, Counting
  <2>3. CASE map[key[t]] = NoLocation
    <3>1. Counting' = Counting \cup {t}
      BY <1>3, <2>3 DEF PutEntry, Counting
    <3>2. /\ Cardinality(Keys') = Cardinality(Keys) + 1
          /\ Cardinality(Counting') = Cardinality(Counting) + 1
      BY <1>0, <2>1, <2>3, <3>1, FS_AddElement
    <3>3. count' = count
      BY <1>3 DEF PutEntry
    <3>4. QED
      BY <1>0, <3>2, <3>3 DEF CountIsKeys, Counting
  <2>4. QED
    BY <2>2, <2>3
<1>4. ASSUME NEW t \in Thread, CountEntry(t)
      PROVE  CountIsKeys'
  <2>1. Counting' = Counting \ {t} /\ t \in Counting
    BY <1>4 DEF CountEntry, Counting
  <2>2. Cardinality(Counting') = Cardinality(Counting) - 1
    BY <1>0, <2>1, FS_RemoveElement
  <2>3. Keys' = Keys /\ count' = count + 1
    BY <1>4 DEF CountEntry, Keys
  <2>4. QED
    BY <1>0, <2>2, <2>3 DEF CountIsKeys, Counting
<1>5. CASE UNCHANGED vars
  BY <1>1, <1>5 DEF vars, Counting
<1>6. QED
  BY <1>2, <1>3, <1>4, <1>5 DEF Next

LEMMA StepIndex == ASSUME IndexInv, [Next]_vars PROVE IndexInv'
BY StepType, StepFilter, StepOrder, StepCount DEF IndexInv

(* The filter, the map, the counter and the threads' places keep their     *)
(* types in every interleaving.                                            *)
THEOREM TypeCorrect == Spec => []TypeOK
<1>1. Init => IndexInv
  BY InitIndex
<1>2. IndexInv /\ [Next]_vars => IndexInv'
  BY StepIndex
<1>3. IndexInv => TypeOK
  BY DEF IndexInv
<1>4. QED
  BY <1>1, <1>2, <1>3, PTL DEF Spec

(* The counter is the number of entries, but for the inserts that have put *)
(* theirs into the map and not yet counted it.                             *)
THEOREM CountIsKeysHolds == Spec => []CountIsKeys
<1>1. Init => IndexInv
  BY InitIndex
<1>2. IndexInv /\ [Next]_vars => IndexInv'
  BY StepIndex
<1>3. IndexInv => CountIsKeys
  BY DEF IndexInv
<1>4. QED
  BY <1>1, <1>2, <1>3, PTL DEF Spec

-----------------------------------------------------------------------------
(* The index acts as if each call were one step.                           *)

(* The steps of DedupIndex, with the calls that have yet to take effect.   *)
AtomicCalls ==
    [t \in Thread |-> IF pc[t] \in {"setBits", "putEntry"} THEN "insert"
                      ELSE IF pc[t] \in {"askFilter", "askMap"} THEN "lookup" ELSE "none"]

LEMMA CallsIs ==
    ASSUME NEW t \in Thread, TypeOK, NEW step, pc' = [pc EXCEPT ![t] = step]
    PROVE  AtomicCalls' = [AtomicCalls EXCEPT ![t] =
               IF step \in {"setBits", "putEntry"} THEN "insert"
               ELSE IF step \in {"askFilter", "askMap"} THEN "lookup" ELSE "none"]
BY DEF AtomicCalls, TypeOK

(* An insert takes effect when its entry enters the map, a lookup when the *)
(* map answers or the filter says no: then the map does not have the hash. *)
LEMMA StepAtomic ==
    ASSUME IndexInv, [Next]_vars
    PROVE  [Atomic!Next]_<<map, AtomicCalls, key, value>>
<1> DEFINE calls == AtomicCalls
<1>0. TypeOK /\ CallOrder /\ FilterCoversMap
  BY DEF IndexInv
<1>1. ASSUME NEW t \in Thread, NEW h \in Hash, NEW loc \in Location, StartInsert(t, h, loc)
      PROVE  Atomic!Calls(t, "insert", h, loc)
  <2>1. calls[t] = "none" /\ calls' = [calls EXCEPT ![t] = "insert"]
    BY <1>0, <1>1, CallsIs DEF StartInsert, AtomicCalls
  <2>2. QED
    BY <1>1, <2>1 DEF StartInsert, Atomic!Calls, AtomicCalls
<1>2. ASSUME NEW t \in Thread, NEW h \in Hash, StartLookup(t, h) \/ StartContains(t, h)
      PROVE  Atomic!Calls(t, "lookup", h, NoLocation)
  <2>1. calls[t] = "none" /\ calls' = [calls EXCEPT ![t] = "lookup"]
    BY <1>0, <1>2, CallsIs DEF StartLookup, StartContains, AtomicCalls
  <2>2. QED
    BY <1>2, <2>1 DEF StartLookup, StartContains, Atomic!Calls, AtomicCalls
<1>3. ASSUME NEW t \in Thread, PutEntry(t)
      PROVE  Atomic!Insert(t)
  <2>1. calls[t] = "insert" /\ calls' = [calls EXCEPT ![t] = "none"]
    BY <1>0, <1>3, CallsIs DEF PutEntry, AtomicCalls
  <2>2. QED
    BY <1>3, <2>1 DEF PutEntry, Atomic!Insert, AtomicCalls
<1>4. ASSUME NEW t \in Thread, AskMap(t)
      PROVE  Atomic!Lookup(t)
  <2>1. calls[t] = "lookup" /\ calls' = [calls EXCEPT ![t] = "none"]
    BY <1>0, <1>4, CallsIs DEF AskMap, AtomicCalls
  <2>2. QED
    BY <1>4, <2>1 DEF AskMap, Atomic!Lookup, AtomicCalls
<1>5. ASSUME NEW t \in Thread, AskFilter(t), ~MightContain(key[t])
      PROVE  Atomic!Lookup(t)
  <2>1. calls[t] = "lookup" /\ calls' = [calls EXCEPT ![t] = "none"]
    BY <1>0, <1>5, CallsIs DEF AskFilter, AtomicCalls
  <2>2. map[key[t]] = NoLocation /\ value[t] = NoLocation
    BY <1>0, <1>5 DEF AskFilter, FilterCoversMap, Keys, CallOrder, TypeOK
  <2>3. value' = [value EXCEPT ![t] = map[key[t]]]
    BY <1>0, <1>5, <2>2 DEF AskFilter, TypeOK
  <2>4. QED
    BY <1>5, <2>1, <2>3 DEF AskFilter, Atomic!Lookup, AtomicCalls
<1>6. ASSUME NEW t \in Thread,
             \/ SetBits(t) \/ CountEntry(t) \/ Return(t)
             \/ AskFilter(t) /\ MightContain(key[t])
      PROVE  UNCHANGED <<map, AtomicCalls, key, value>>
  <2>1. calls' = calls
    <3>1. PICK step : /\ pc' = [pc EXCEPT ![t] = step]
                      /\ calls[t] = IF step \in {"setBits", "putEntry"} THEN "insert"
                                    ELSE IF step \in {"askFilter", "askMap"} THEN "lookup" ELSE "none"
      BY <1>6 DEF SetBits, CountEntry, Return, AskFilter, AtomicCalls
    <3>2. QED
      BY <1>0, <3>1, CallsIs DEF AtomicCalls
  <2>2. QED
    BY <1>6, <2>1 DEF SetBits, CountEntry, Return, AskFilter
<1>7. CASE UNCHANGED vars
  BY <1>7 DEF vars, AtomicCalls
<1>8. QED
  BY <1>1, <1>2, <1>3, <1>4, <1>5, <1>6, <1>7 DEF Next, Atomic!Next

(* The index, its filter and its map together, implements an index whose   *)
(* calls are atomic, as the stores and the pipeline take it to be.         *)
THEOREM Implementation == Spec => ImplementsDedupIndex
<1>1. Init => IndexInv
  BY InitIndex
<1>2. IndexInv /\ [Next]_vars => IndexInv'
  BY StepIndex
<1>3. Init => Atomic!Init
  BY DEF Init, Atomic!Init
<1>4. IndexInv /\ [Next]_vars => [Atomic!Next]_<<map, AtomicCalls, key, value>>
  BY StepAtomic
<1>5. QED
  BY <1>1, <1>2, <1>3, <1>4, PTL DEF Spec, ImplementsDedupIndex, Atomic!Spec, AtomicCalls

=============================================================================
