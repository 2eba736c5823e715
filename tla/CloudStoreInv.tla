----------------------------- MODULE CloudStoreInv -----------------------------
(***************************************************************************)
(* The inductive invariants of CloudStore: IInv, of what the bucket holds, *)
(* as long as the machines take turns (OneAtATime) and _meta.index can be  *)
(* read when it exists (~ReadCanFail); and RInv, of what a process finds   *)
(* of its own, which also needs OneCache.  CloudStoreProofs proves them,   *)
(* and that the bucket implements ContentStore.                            *)
(***************************************************************************)
EXTENDS CloudStore

Up(m) == pc[m] # "down"

Busy(m) == pc[m] \in {"upload", "install"}

(* Packs whose id no later process gives to another.                       *)
Taken(id) == bucket[id] # {} /\ (meta = {} \/ \E l \in meta : id <= l[2])

Durable == UNION {Hashes(bucket[id]) : id \in {i \in PackId : Taken(i)}}

(* The first id that m has not written yet.                                *)
Limit(m) == IF pc[m] = "upload" THEN batchId[m] ELSE nextId[m]

TypeInv ==
    /\ TypeOK
    /\ index = [m \in Machine |-> index[m]]
    /\ batchId \in [Machine -> 0 .. MaxPack + 1]
    /\ \A m \in Machine : IF Up(m) THEN nextId[m] # 0 ELSE pending[m] = {}

OneUp == \A m, n \in Machine : Up(m) /\ Up(n) => m = n

Shape ==
    \A m \in Machine :
        /\ ~Up(m) => packs[m] = NoPacks /\ owed[m] = {}
        /\ ~Busy(m) => batch[m] = {}
        /\ Busy(m) => pending[m] = {} /\ nextId[m] = batchId[m] + 1
        /\ Busy(m) /\ item[m] # NoChunk => item[m] \in Hashes(batch[m])
        /\ pc[m] = "install" => bucket[batchId[m]] = batch[m]
        /\ owed[m] \subseteq DOMAIN index[m]

(* Every process counts beyond the packs that are taken, and its own.      *)
Behind ==
    \A m \in Machine : \A id \in PackId :
        /\ Up(m) /\ Taken(id) => id < Limit(m)
        /\ packs[m][id] # {} => id < Limit(m)

(* What a process indexes is pending, being uploaded, safe or lost.        *)
Covered ==
    \A m \in Machine :
        DOMAIN index[m] \subseteq Hashes(pending[m]) \cup Hashes(batch[m]) \cup Durable \cup lost

PromisedDurable == promised \subseteq Durable \cup lost

(* A chunk stored in full in a safe pack.                                  *)
SafeInFull(c) == \E i \in PackId : Taken(i) /\ <<c, NoChunk>> \in bucket[i]

HasBases(es) ==
    \A e \in es : e[2] # NoChunk => <<e[2], NoChunk>> \in es \/ SafeInFull(e[2])

BasesInFull ==
    /\ \A m \in Machine :
          /\ HasBases(pending[m]) /\ HasBases(batch[m])
          /\ \A c \in bases[m] : <<c, NoChunk>> \in pending[m] \cup batch[m] \/ SafeInFull(c)
    /\ \A id \in PackId : \A e \in bucket[id] : e[2] # NoChunk =>
          \/ <<e[2], NoChunk>> \in bucket[id]
          \/ \E i \in PackId : i < id /\ Taken(i) /\ <<e[2], NoChunk>> \in bucket[i]

IInv ==
    /\ TypeInv /\ OneUp /\ Shape /\ Behind
    /\ MetaPointsAtPacks /\ PacksInBucket
    /\ Covered /\ PromisedDurable /\ BasesInFull

-----------------------------------------------------------------------------
(***************************************************************************)
(* What a process reads of its own.  It knows the entries of the packs it  *)
(* loaded, those its index locates, and the ones it has not written yet;   *)
(* another process would learn of the listed ones.  None of these rest on  *)
(* one another in a circle, and the base of each is among them.            *)
(***************************************************************************)
LoadedEntries(m) == {e \in Entry : \E id \in PackId : e \in packs[m][id]}

Located(m) ==
    {e \in Entry : /\ e[1] \in DOMAIN index[m] /\ index[m][e[1]] \in PackId
                   /\ e \in bucket[index[m][e[1]]]}

Listed ==
    {e \in Entry : \E id \in PackId : e \in bucket[id] /\ (meta = {} \/ <<e[1], id>> \in meta)}

Known(m) == Listed \cup Located(m) \cup LoadedEntries(m) \cup pending[m] \cup batch[m]

(* Every entry that is a delta has its base among the chunks hs.           *)
RestOn(es, hs) == \A e \in es : e[2] # NoChunk => e[2] \in hs

(* Of any chunks, one has no entry over another of them.                   *)
Acyclic(es) ==
    \A S \in SUBSET Chunk : S # {} => \E c \in S : \A e \in es : e[1] = c => e[2] \notin S

ListedInv == RestOn(Listed, Hashes(Listed)) /\ Acyclic(Listed)

DownInv == \A m \in Machine : ~Up(m) => DOMAIN index[m] = {} /\ own[m] = {} /\ bases[m] = {}

(* Packs are loaded whole.                                                 *)
LoadedWhole(m) == \A id \in PackId : packs[m][id] \in {{}, bucket[id]}

IndexFound(m) ==
    \A c \in DOMAIN index[m] :
        IF index[m][c] = NoPack
        THEN c \in Hashes(pending[m]) \cup Hashes(batch[m]) \cup Hashes(LoadedEntries(m)) \cup lost
        ELSE index[m][c] < Limit(m) /\ c \in Hashes(bucket[index[m][c]])

BasesFound(m) ==
    /\ RestOn(LoadedEntries(m), Hashes(LoadedEntries(m)))
    /\ RestOn(Located(m), Hashes(Located(m)) \cup Hashes(LoadedEntries(m)))
    /\ \A e \in LoadedEntries(m) \cup Located(m) : e[2] \notin Hashes(pending[m])
    /\ RestOn(pending[m], Hashes(pending[m]) \cup Hashes(LoadedEntries(m)))
    /\ RestOn(batch[m], Hashes(batch[m]) \cup Hashes(LoadedEntries(m)))
    /\ bases[m] \subseteq Hashes(pending[m]) \cup Hashes(batch[m]) \cup Hashes(LoadedEntries(m))
    /\ bases[m] \subseteq DOMAIN index[m] \cup IF Busy(m) THEN {item[m]} ELSE {}

KnownInv(m) == Acyclic(Known(m)) /\ RestOn(Known(m), DOMAIN index[m])

OwnInv(m) == own[m] \subseteq DOMAIN index[m] \ (Hashes(pending[m]) \cup Hashes(batch[m]))

UpInv(m) == LoadedWhole(m) /\ IndexFound(m) /\ BasesFound(m) /\ KnownInv(m) /\ OwnInv(m)

(* A pack that a process may look for in its cache.                        *)
Named(m, id) ==
    \/ meta = {} \/ \E l \in meta : l[2] = id
    \/ packs[m][id] # {}
    \/ \E c \in DOMAIN index[m] : index[m][c] = id
    \/ pc[m] = "install" /\ id = batchId[m]

(* A cache file of such a pack is the pack, was cut off or could not be    *)
(* written anew.                                                           *)
CacheInv ==
    \A m \in Machine : \A id \in PackId : cache[m][id] # {} =>
        /\ m \in Caching /\ bucket[id] # {}
        /\ Named(m, id) => cache[m][id] \in {{Torn}, bucket[id]} \/ id \in missed[m]

OneCache == Caching = {} \/ \A m, n \in Machine : m = n

RInv ==
    /\ IInv /\ ListedInv /\ DownInv /\ CacheInv
    /\ \A m \in Machine : Up(m) => UpInv(m)

-----------------------------------------------------------------------------
(***************************************************************************)
(* What the store is for its users: the chunks in packs that no process    *)
(* will overwrite are stored.                                              *)
(***************************************************************************)
Backend == INSTANCE ContentStore WITH stored <- Durable

(* As long as no write fails, the bucket is a content store that all       *)
(* machines share: no process that starts, stops in the middle of a flush  *)
(* or counts pack ids again takes a chunk away, and a flush that returns   *)
(* Ok promises chunks that are there.                                      *)
ImplementsContentStore == Backend!Spec

=============================================================================
