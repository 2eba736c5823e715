------------------------------ MODULE StoreLocks ------------------------------
(***************************************************************************)
(* The mutexes of a pack store (store/local.rs, store/cloud.rs) and of the *)
(* dedup index (index/hashindex.rs), and the order in which the threads of *)
(* a process take them.  std's mutexes are not reentrant: a thread that    *)
(* takes one it holds waits for itself.                                    *)
(*                                                                         *)
(* A call goes through sections of code that each take one lock and drop   *)
(* it at the end, except two that keep it: a lookup keeps the guard of     *)
(* the store's index while the index takes its own locks, and              *)
(* LocalStore::populate_index keeps that of the store's state.             *)
(***************************************************************************)
EXTENDS Naturals, Sequences

CONSTANTS
    Thread,
    None,       \* no thread
    MaxDepth,   \* the longest chain of deltas get_inner follows (16 there)
    MaxEntries, \* bound: entries populate_index inserts
    MaxCalls    \* bound: calls of all threads

(* state and index of a store, the cloud store's lru of cached packs, the  *)
(* dedup index's filter and its map (a map of one shard).                  *)
Lock == {"state", "index", "lru", "bloom", "map"}

ASSUME LockNames  == None \notin Thread \cup Lock
ASSUME LockBounds == MaxDepth \in Nat /\ MaxEntries \in Nat /\ MaxCalls \in Nat

VARIABLES
    backend,    \* "local" or "cloud"
    owner,      \* who holds a lock
    op,         \* the method a thread is in
    at,         \* the section it is in, or waits to enter
    inside,     \* whether it has the lock of the section
    bases,      \* get_inner: where the calls it is nested in wait for a base
    left,       \* populate_index: entries to insert
    calls       \* how many calls there were

vars == <<backend, owner, op, at, inside, bases, left, calls>>

(* The lock of every section that takes one.                               *)
Locked ==
    [pending |-> "state",       \* get_inner, phase 1
     location |-> "state",      \* read_from_location
     scan |-> "state",          \* get_inner, phase 3
     append |-> "state",        \* put, put_delta: phases 2 and 3
     drain |-> "state",         \* flush
     packed |-> "state",        \* put, put_delta, flush: the pack is written
     sign |-> "state",          \* put_signature
     search |-> "state",        \* contains
     load |-> "state",          \* CloudStore::populate_index: a pack
     populate |-> "state",      \* LocalStore::populate_index
     lookup |-> "index",        \* lookup_index, get_inner phase 2
     swap |-> "index",          \* set_index
     cached |-> "lru",          \* read_pack_cached, from a location
     fetch |-> "lru",           \* read_pack_cached, from the scan
     filter |-> "bloom",        \* HashIndex::lookup
     entry |-> "map",
     addfilter |-> "bloom",     \* HashIndex::insert, from populate_index
     addentry |-> "map",
     ownfilter |-> "bloom",     \* HashIndex::lookup and insert, from elsewhere
     ownentry |-> "map"]

Locking == DOMAIN Locked

(* The lock a thread keeps from an earlier section.                        *)
Kept(s) ==
    IF s \in {"filter", "entry", "lookedup"} THEN "index"
    ELSE IF s \in {"addfilter", "addentry", "populated"} THEN "state"
    ELSE None

First(o) ==
    CASE o = "get" -> "pending"
      [] o \in {"put", "contains"} -> "lookup"
      [] o = "flush" -> "drain"
      [] o = "put_signature" -> "sign"
      [] o = "set_index" -> "swap"
      [] o = "populate_index" -> IF backend = "local" THEN "populate" ELSE "load"
      [] o = "index" -> "ownfilter"

Ops == {"get", "put", "contains", "flush", "put_signature", "set_index", "populate_index", "index"}

(* Where get_inner finds the pack of a location: on the disk, or in the    *)
(* cloud behind the cache, if there is one.                                *)
FromLocation ==
    IF backend = "local" THEN {"location"} ELSE {"cached", "location base", "return"}

Unlocked == {"lookedup", "populated", "location base", "scan base", "return"}

(* The sections that may follow s in a call of o, by the conditions of the *)
(* code.                                                                   *)
Follows(o, s, x) ==
    \/ s = "pending"  /\ x \in {"lookup", "return"}
    \/ s = "lookup"   /\ x \in {"filter", "lookedup"}
    \/ s = "filter"   /\ x \in {"entry", "lookedup"}
    \/ s = "entry"    /\ x = "lookedup"
    \/ s = "lookedup" /\ o = "get" /\ x \in FromLocation \cup {"scan"}
    \/ s = "lookedup" /\ o = "put" /\ x \in {"append", "return"}
    \/ s = "lookedup" /\ o = "contains" /\ x \in {"search", "return"}
    \/ s \in {"location", "cached"} /\ x \in {"location base", "scan", "return"}
    \/ s = "scan" /\ x = "fetch" /\ backend = "cloud"
    \/ s \in {"scan", "fetch"} /\ x \in {"scan base", "return"}
    \/ s \in {"append", "drain"} /\ x \in {"packed", "return"}
    \/ s \in {"populate", "addentry"} /\ x \in {"addfilter", "populated"}
    \/ s = "addfilter" /\ x = "addentry"
    \/ s = "load"      /\ x \in {"ownfilter", "return"}
    \/ s = "ownfilter" /\ x \in {"ownentry", "return"}
    \/ s = "ownentry"  /\ o = "populate_index" /\ x \in {"ownfilter", "load"}
    \/ s \in {"ownentry", "packed", "sign", "search", "swap", "populated"} /\ x = "return"

After(o, s) == {x \in Locking \cup Unlocked : Follows(o, s, x)}

Init ==
    /\ backend \in {"local", "cloud"}
    /\ owner = [l \in Lock |-> None]
    /\ op = [t \in Thread |-> "none"]
    /\ at = [t \in Thread |-> "return"]
    /\ inside = [t \in Thread |-> FALSE]
    /\ bases = [t \in Thread |-> <<>>]
    /\ left = [t \in Thread |-> 0]
    /\ calls = 0

Call(t, o) ==
    /\ op[t] = "none" /\ calls < MaxCalls
    /\ calls' = calls + 1
    /\ op' = [op EXCEPT ![t] = o]
    /\ at' = [at EXCEPT ![t] = First(o)]
    /\ left' = [left EXCEPT ![t] = MaxEntries]
    /\ UNCHANGED <<backend, owner, inside, bases>>

Free(l) == owner[l] = None

Enter(t) ==
    /\ op[t] # "none" /\ at[t] \in Locking /\ ~inside[t]
    /\ Free(Locked[at[t]])
    /\ owner' = [owner EXCEPT ![Locked[at[t]]] = t]
    /\ inside' = [inside EXCEPT ![t] = TRUE]
    /\ UNCHANGED <<backend, op, at, bases, left, calls>>

(* The end of a section: its guard is dropped, or kept for the next one.   *)
Leave(t) ==
    /\ inside[t]
    /\ inside' = [inside EXCEPT ![t] = FALSE]
    /\ \E s \in After(op[t], at[t]) :
          LET inserts == s \in {"addfilter", "ownfilter"} IN
          /\ inserts => left[t] > 0
          /\ left' = [left EXCEPT ![t] = IF inserts THEN @ - 1 ELSE @]
          /\ at' = [at EXCEPT ![t] = s]
          /\ owner' = IF Kept(s) = Locked[at[t]] THEN owner
                      ELSE [owner EXCEPT ![Locked[at[t]]] = None]
    /\ UNCHANGED <<backend, op, bases, calls>>

(* Mistake: the guard lives as long as the value it gave. *)
KeepGuard(t) ==
    /\ op[t] # "none" /\ at[t] \in {"lookedup", "populated"}
    /\ owner' = IF op[t] = "get" THEN owner ELSE [owner EXCEPT ![Kept(at[t])] = None]
    /\ \E s \in After(op[t], at[t]) : at' = [at EXCEPT ![t] = s]
    /\ UNCHANGED <<backend, op, inside, bases, left, calls>>

(* The location is copied, and the guard it was read under is dropped.     *)
DropGuard(t) ==
    /\ op[t] # "none" /\ at[t] \in {"lookedup", "populated"}
    /\ owner' = [owner EXCEPT ![Kept(at[t])] = None]
    /\ \E s \in After(op[t], at[t]) : at' = [at EXCEPT ![t] = s]
    /\ UNCHANGED <<backend, op, inside, bases, left, calls>>

(* Mistake: a chain of deltas is followed to its end, be it a cycle. *)
FollowChain(t) ==
    /\ at[t] \in {"location base", "scan base"}
    /\ bases' = [bases EXCEPT ![t] = IF Len(@) < MaxDepth THEN Append(@, at[t]) ELSE @]
    /\ at' = [at EXCEPT ![t] = "pending"]
    /\ UNCHANGED <<backend, owner, op, inside, left, calls>>

(* read_chunk_data of a delta: get_inner for its base, no deeper than      *)
(* MaxDepth, where the call would be an error.                             *)
GetBase(t) ==
    /\ at[t] \in {"location base", "scan base"}
    /\ IF Len(bases[t]) < MaxDepth
       THEN /\ bases' = [bases EXCEPT ![t] = Append(@, at[t])]
            /\ at' = [at EXCEPT ![t] = "pending"]
       ELSE /\ at' = [at EXCEPT ![t] = IF @ = "location base" THEN "scan" ELSE "return"]
            /\ UNCHANGED bases
    /\ UNCHANGED <<backend, owner, op, inside, left, calls>>

(* get_inner of a base returns: with an error at a location the chunk is   *)
(* looked for in the packs.                                                *)
ReturnBase(t) ==
    LET n == Len(bases[t]) IN
    /\ op[t] # "none" /\ at[t] = "return" /\ n > 0
    /\ bases' = [bases EXCEPT ![t] = SubSeq(@, 1, n - 1)]
    /\ \/ UNCHANGED at
       \/ bases[t][n] = "location base" /\ at' = [at EXCEPT ![t] = "scan"]
    /\ UNCHANGED <<backend, owner, op, inside, left, calls>>

Return(t) ==
    /\ op[t] # "none" /\ at[t] = "return" /\ bases[t] = <<>>
    /\ op' = [op EXCEPT ![t] = "none"]
    /\ UNCHANGED <<backend, owner, at, inside, bases, left, calls>>

Step(t) ==
    Enter(t) \/ Leave(t) \/ DropGuard(t) \/ GetBase(t) \/ ReturnBase(t) \/ Return(t)

Next == \E t \in Thread : Step(t) \/ \E o \in Ops : Call(t, o)

Spec == Init /\ [][Next]_vars

(* Threads are scheduled; which of those that wait gets a lock is open.    *)
FairSpec == Spec /\ \A t \in Thread : WF_vars(Step(t))

-----------------------------------------------------------------------------
(* Properties.                                                             *)

(* The values the state may take, in a chain of deltas of any shape.       *)
TypeOK ==
    /\ backend \in {"local", "cloud"}
    /\ owner \in [Lock -> Thread \cup {None}]
    /\ op \in [Thread -> Ops \cup {"none"}]
    /\ at \in [Thread -> Locking \cup Unlocked]
    /\ inside \in [Thread -> BOOLEAN]
    /\ bases \in [Thread -> Seq({"location base", "scan base"})]
    /\ \A t \in Thread : Len(bases[t]) <= MaxDepth
    /\ left \in [Thread -> 0 .. MaxEntries]
    /\ calls \in 0 .. MaxCalls

WaitsFor(t, u) == /\ op[t] # "none" /\ at[t] \in Locking /\ ~inside[t]
                  /\ owner[Locked[at[t]]] = u

(* However lookups, nested reads of delta bases, flushes and insertions    *)
(* into the index interleave, no threads wait for locks in a circle, and   *)
(* none waits for itself.                                                  *)
NoWaitCycle ==
    \A S \in SUBSET Thread : S # {} => \E t \in S : \A u \in S : ~WaitsFor(t, u)

(* Every call returns: get_inner also for a delta whose base is, by way of *)
(* others, itself.                                                         *)
CallsReturn == \A t \in Thread : op[t] # "none" ~> op[t] = "none"

=============================================================================
