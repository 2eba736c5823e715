------------------------------ MODULE CloudStore ------------------------------
(***************************************************************************)
(* The cloud pack store (store/cloud.rs): machines that open one bucket,   *)
(* back up into it and read from it.  The bucket holds the packs and one   *)
(* index object, packs/_meta.index, that every flush rewrites; a machine   *)
(* keeps a directory of cached packs that survives its processes.          *)
(*                                                                         *)
(* A machine runs one process with one writer thread.  What the threads of *)
(* a process do to one another is the subject of LocalStore, whose         *)
(* protocol put and flush repeat here.                                     *)
(***************************************************************************)
EXTENDS Naturals, FiniteSets

CONSTANTS
    Machine,
    Chunk,
    NoChunk,       \* no chunk is put, or an entry has no base
    Torn,          \* what a file holds that was not written to its end
    MaxPack,       \* bound: the last pack id a run may use
    PackTarget,    \* chunks in pending that reach pack_target_size
    OneAtATime,    \* whether the machines take turns in opening the bucket
    Caching,       \* the machines that have a cache directory
    Tears,         \* whether writing a cache file may fail, or be cut short
    WriteCanFail,  \* whether writing an object may return an error
    ReadCanFail    \* whether reading _meta.index may return an error

PackId == 1 .. MaxPack
NoPack == 0        \* the location of a placeholder, which no pack has

(* An entry of a pack: a chunk stored in full, or as a delta over a base.  *)
Entry == Chunk \X (Chunk \cup {NoChunk})

ASSUME CloudNames  == NoChunk \notin Chunk /\ Torn \notin Entry
ASSUME CloudBounds == MaxPack \in Nat \ {0} /\ PackTarget \in Nat \ {0}
ASSUME CloudFaults == /\ OneAtATime \in BOOLEAN /\ Tears \in BOOLEAN
                      /\ WriteCanFail \in BOOLEAN /\ ReadCanFail \in BOOLEAN
                      /\ Caching \subseteq Machine

VARIABLES
    bucket,    \* packs/<id>.pack: the entries of each pack, {} if absent
    meta,      \* packs/_meta.index: <<chunk, pack id>>, {} if absent
    cache,     \* <cache_dir>/packs/<id>.pack of each machine, {} if absent
    packs,     \* CloudState.packs: the metadata loaded for each pack
    pending,   \* CloudState.pending_chunks
    nextId,    \* next_pack_id
    index,     \* DedupIndex: the pack of each chunk it knows
    pc,        \* what the machine's process does next
    item,      \* the chunk that is put
    batch,     \* the drained entries being uploaded, outside the lock
    batchId,   \* and the id of their pack
    owed,      \* chunks the running backup counts as stored
    bases,     \* chunks it sent as unique: its similarity index
    own,       \* history: chunks of the process's backups that returned Ok
    missed,    \* history: cached packs a process could not write anew
    promised,  \* history: chunks of all backups that returned Ok
    lost       \* history: chunks of batches whose writing returned an error

memory  == <<packs, pending, nextId, index, item, batch, batchId, owed, bases, own>>
history == <<promised, lost>>
vars    == <<bucket, meta, cache, missed, memory, pc, history>>

Hashes(es)   == {e[1] : e \in es}
Contents(p)  == UNION {{<<c, id>> : c \in Hashes(p[id])} : id \in PackId}
InBucket     == UNION {Hashes(bucket[id]) : id \in PackId}
NoPacks      == [id \in PackId |-> {}]

Init ==
    /\ bucket = NoPacks
    /\ meta = {}
    /\ cache = [m \in Machine |-> NoPacks]
    /\ packs = [m \in Machine |-> NoPacks]
    /\ pending = [m \in Machine |-> {}]
    /\ nextId = [m \in Machine |-> 0]
    /\ index = [m \in Machine |-> <<>>]
    /\ pc = [m \in Machine |-> "down"]
    /\ item = [m \in Machine |-> NoChunk]
    /\ batch = [m \in Machine |-> {}]
    /\ batchId = [m \in Machine |-> 0]
    /\ owed = [m \in Machine |-> {}]
    /\ bases = [m \in Machine |-> {}]
    /\ own = [m \in Machine |-> {}]
    /\ missed = [m \in Machine |-> {}]
    /\ promised = {}
    /\ lost = {}

-----------------------------------------------------------------------------
(* open and populate_index.                                                *)

(* Mistake: the first id is that of the last pack. *)
StartsAtLast(n, ids) == n \in ids \cup {1} /\ \A id \in ids : id <= n

(* max_pack_id + 1.                                                        *)
NextAfter(n, ids) == n - 1 \in ids \cup {0} /\ \A id \in ids : id < n

(* The index after inserting the located chunks in some order.             *)
Opens(m, located, loaded) ==
    /\ pc[m] = "down"
    /\ OneAtATime => \A n \in Machine : pc[n] = "down"
    /\ \E f \in [{l[1] : l \in located} -> {l[2] : l \in located}] :
          /\ \A c \in DOMAIN f : <<c, f[c]>> \in located
          /\ index' = [index EXCEPT ![m] = f]
    /\ packs' = [packs EXCEPT ![m] = loaded]
    /\ \E n \in 0 .. MaxPack + 1 :
          /\ NextAfter(n, {l[2] : l \in located})
          /\ nextId' = [nextId EXCEPT ![m] = n]
    /\ pc' = [pc EXCEPT ![m] = "ready"]
    /\ UNCHANGED <<bucket, meta, cache, missed, pending, item, batch, batchId, owed,
                   bases, own, history>>

(* The fast path does not load the packs' metadata.                        *)
OpenFromMeta(m) == meta # {} /\ Opens(m, meta, NoPacks)

(* Without an index object, or when it could not be read, every pack is.   *)
OpenFromPacks(m) ==
    /\ meta = {} \/ ReadCanFail
    /\ Opens(m, Contents(bucket), bucket)

-----------------------------------------------------------------------------
(* Reads.  get answers from pending, then from the pack the index names,   *)
(* then from the packs loaded in this process.  A pack is read from the    *)
(* cache if there is a file for it; of a pack that is loaded, the super-   *)
(* block with its full chunks is already in memory.                        *)

PackRead(m, id) == IF cache[m][id] # {} THEN cache[m][id] ELSE bucket[id]

(* Entries that can be taken from a pack: what the index finds in the file,*)
(* and of loaded packs what the scan finds.                                *)
Found(m) ==
    (UNION {{e \in PackRead(m, id) :
                e # Torn /\ e[1] \in DOMAIN index[m] /\ index[m][e[1]] = id} : id \in PackId})
    \cup (UNION {packs[m][id] : id \in {i \in PackId : PackRead(m, i) # {}}})

InFull(es) == {e[1] : e \in {x \in es : x[2] = NoChunk}}

(* get answers a pending chunk with the entry's bytes, so a pending delta  *)
(* is not read; a delta in a pack is read if its base is.                  *)
Readable(m) ==
    LET found == {e \in Found(m) : e[1] \notin Hashes(pending[m])}
        Closed(R) == /\ InFull(pending[m]) \cup InFull(found) \subseteq R
                     /\ \A e \in found : e[2] \in R => e[1] \in R
    IN  {c \in Chunk : \A R \in SUBSET Chunk : Closed(R) => c \in R}

-----------------------------------------------------------------------------
(* Backups.  The pipeline skips what the dedup index knows.  Everything in *)
(* pending is in the index, so a chunk that is put is not pending.         *)

Skip(m, c) ==
    /\ pc[m] = "ready"
    /\ c \in DOMAIN index[m]
    /\ owed' = [owed EXCEPT ![m] = @ \cup {c}]
    /\ UNCHANGED <<bucket, meta, cache, missed, packs, pending, nextId, index, pc, item,
                   batch, batchId, bases, own, history>>

(* The writer inserts a placeholder for the location put returned.         *)
Indexed(m, c) ==
    /\ index' = [index EXCEPT ![m] =
                    [d \in DOMAIN @ \cup {c} |-> IF d = c THEN NoPack ELSE @[d]]]
    /\ owed' = [owed EXCEPT ![m] = @ \cup {c}]

(* Mistake: the id is read but not advanced. *)
DrainSameId(m, c, chunks) ==
    /\ nextId[m] <= MaxPack
    /\ batchId' = [batchId EXCEPT ![m] = nextId[m]]
    /\ batch' = [batch EXCEPT ![m] = chunks]
    /\ pending' = [pending EXCEPT ![m] = {}]
    /\ item' = [item EXCEPT ![m] = c]
    /\ pc' = [pc EXCEPT ![m] = "upload"]
    /\ UNCHANGED nextId

(* fetch_add and flush_prepare, under the lock.                            *)
Drain(m, c, chunks) ==
    /\ nextId[m] <= MaxPack
    /\ nextId' = [nextId EXCEPT ![m] = @ + 1]
    /\ batchId' = [batchId EXCEPT ![m] = nextId[m]]
    /\ batch' = [batch EXCEPT ![m] = chunks]
    /\ pending' = [pending EXCEPT ![m] = {}]
    /\ item' = [item EXCEPT ![m] = c]
    /\ pc' = [pc EXCEPT ![m] = "upload"]

(* put of a chunk without a similar one, or put_delta over one that get    *)
(* returned; bases are chosen among the unique chunks of the same backup.  *)
Put(m, c, base) ==
    LET filled == pending[m] \cup {<<c, base>>} IN
    /\ pc[m] = "ready"
    /\ c \notin DOMAIN index[m]
    /\ base \in {NoChunk} \cup (bases[m] \cap Readable(m))
    /\ bases' = [bases EXCEPT ![m] = IF base = NoChunk THEN @ \cup {c} ELSE @]
    /\ \/ /\ Cardinality(filled) < PackTarget
          /\ pending' = [pending EXCEPT ![m] = filled]
          /\ Indexed(m, c)
          /\ UNCHANGED <<nextId, batch, batchId, item, pc>>
       \/ /\ Cardinality(filled) >= PackTarget
          /\ Drain(m, c, filled)
          /\ UNCHANGED <<index, owed>>
    /\ UNCHANGED <<bucket, meta, cache, missed, packs, own, history>>

FlushReturns(m) ==
    /\ promised' = promised \cup owed[m]
    /\ own' = [own EXCEPT ![m] = @ \cup owed[m]]
    /\ owed' = [owed EXCEPT ![m] = {}]
    /\ bases' = [bases EXCEPT ![m] = {}]

(* A flush with nothing pending writes nothing, _meta.index included.      *)
Flush(m) ==
    /\ pc[m] = "ready"
    /\ \/ /\ pending[m] = {}
          /\ FlushReturns(m)
          /\ UNCHANGED <<nextId, pending, batch, batchId, item, pc>>
       \/ /\ pending[m] # {}
          /\ Drain(m, NoChunk, pending[m])
          /\ UNCHANGED <<owed, bases, own, promised>>
    /\ UNCHANGED <<bucket, meta, cache, missed, packs, index, lost>>

CacheHolds(m, id, es) ==
    /\ cache' = [cache EXCEPT ![m][id] = es]
    /\ missed' = [missed EXCEPT ![m] = @ \ {id}]

(* The error of writing a cache file is dropped: of the pack es part is in *)
(* the file, or what was there before is there still.                      *)
WriteCached(m, id, es) ==
    \/ CacheHolds(m, id, es)
    \/ Tears /\ CacheHolds(m, id, {Torn})
    \/ /\ Tears
       /\ missed' = [missed EXCEPT ![m] = IF cache[m][id] # {} THEN @ \cup {id} ELSE @]
       /\ UNCHANGED cache

(* Mistake: a cache file that is there already is kept. *)
UploadKeepsCached(m) ==
    /\ pc[m] = "upload"
    /\ bucket' = [bucket EXCEPT ![batchId[m]] = batch[m]]
    /\ IF m \in Caching /\ cache[m][batchId[m]] = {}
       THEN WriteCached(m, batchId[m], batch[m])
       ELSE UNCHANGED <<cache, missed>>
    /\ pc' = [pc EXCEPT ![m] = "install"]
    /\ UNCHANGED <<meta, memory, history>>

(* flush_write: upload the pack and write it to the cache as well.         *)
Upload(m) ==
    /\ pc[m] = "upload"
    /\ bucket' = [bucket EXCEPT ![batchId[m]] = batch[m]]
    /\ IF m \in Caching
       THEN WriteCached(m, batchId[m], batch[m])
       ELSE UNCHANGED <<cache, missed>>
    /\ pc' = [pc EXCEPT ![m] = "install"]
    /\ UNCHANGED <<meta, memory, history>>

(* write_meta_index: the entries of the packs loaded in this process.      *)
MetaOf(loaded) == Contents(loaded)

Loaded(m) == [packs[m] EXCEPT ![batchId[m]] = batch[m]]

Install(m) ==
    /\ pc[m] = "install"
    /\ packs' = [packs EXCEPT ![m] = Loaded(m)]
    /\ meta' = MetaOf(Loaded(m))
    /\ batch' = [batch EXCEPT ![m] = {}]
    /\ item' = [item EXCEPT ![m] = NoChunk]
    /\ pc' = [pc EXCEPT ![m] = "ready"]
    /\ \/ item[m] = NoChunk /\ FlushReturns(m) /\ UNCHANGED index
       \/ item[m] # NoChunk /\ Indexed(m, item[m]) /\ UNCHANGED <<bases, own, promised>>
    /\ UNCHANGED <<bucket, cache, missed, pending, nextId, batchId, lost>>

(* An error ends the writer and the backup; the store stays open.          *)
Fails(m) ==
    /\ WriteCanFail
    /\ batch' = [batch EXCEPT ![m] = {}]
    /\ item' = [item EXCEPT ![m] = NoChunk]
    /\ owed' = [owed EXCEPT ![m] = {}]
    /\ bases' = [bases EXCEPT ![m] = {}]
    /\ lost' = lost \cup Hashes(batch[m])
    /\ pc' = [pc EXCEPT ![m] = "ready"]

(* The pack may be in the bucket although its upload returned an error,    *)
(* and so may _meta.index.                                                 *)
UploadFails(m) ==
    /\ pc[m] = "upload"
    /\ Fails(m)
    /\ bucket' \in {bucket, [bucket EXCEPT ![batchId[m]] = batch[m]]}
    /\ UNCHANGED <<meta, cache, missed, packs, pending, nextId, index, batchId, own, promised>>

InstallFails(m) ==
    /\ pc[m] = "install"
    /\ Fails(m)
    /\ packs' = [packs EXCEPT ![m] = Loaded(m)]
    /\ meta' \in {meta, MetaOf(Loaded(m))}
    /\ UNCHANGED <<bucket, cache, missed, pending, nextId, index, batchId, own, promised>>

-----------------------------------------------------------------------------
(* The cache.                                                              *)

Reads(m, id) ==
    /\ pc[m] = "ready"
    /\ m \in Caching
    /\ bucket[id] # {} /\ cache[m][id] = {}
    /\ packs[m][id] # {} \/ \E c \in DOMAIN index[m] : index[m][c] = id

(* read_pack_cached downloads the pack and keeps it.                       *)
CachePack(m, id) ==
    /\ Reads(m, id)
    /\ WriteCached(m, id, bucket[id])
    /\ UNCHANGED <<bucket, meta, memory, pc, history>>

(* The least recently used file is removed to make room for another.       *)
EvictCached(m, id) ==
    /\ pc[m] = "ready"
    /\ cache[m][id] # {}
    /\ CacheHolds(m, id, {})
    /\ UNCHANGED <<bucket, meta, memory, pc, history>>

-----------------------------------------------------------------------------
(* The process ends or is killed; the cache files stay.                    *)

Stops(m) ==
    /\ pc[m] # "down"
    /\ packs' = [packs EXCEPT ![m] = NoPacks]
    /\ pending' = [pending EXCEPT ![m] = {}]
    /\ nextId' = [nextId EXCEPT ![m] = 0]
    /\ index' = [index EXCEPT ![m] = <<>>]
    /\ item' = [item EXCEPT ![m] = NoChunk]
    /\ batch' = [batch EXCEPT ![m] = {}]
    /\ batchId' = [batchId EXCEPT ![m] = 0]
    /\ owed' = [owed EXCEPT ![m] = {}]
    /\ bases' = [bases EXCEPT ![m] = {}]
    /\ own' = [own EXCEPT ![m] = {}]
    /\ pc' = [pc EXCEPT ![m] = "down"]
    /\ UNCHANGED <<meta, history>>

Stop(m) == Stops(m) /\ UNCHANGED <<bucket, cache, missed>>

(* Cache files are written in place: a process killed in the middle leaves *)
(* part of one, or has not begun.                                          *)
StopInRead(m, id) ==
    /\ Tears /\ Reads(m, id)
    /\ Stops(m)
    /\ CacheHolds(m, id, {Torn})
    /\ UNCHANGED bucket

StopInUpload(m) ==
    /\ Tears /\ m \in Caching /\ pc[m] = "upload"
    /\ Stops(m)
    /\ bucket' = [bucket EXCEPT ![batchId[m]] = batch[m]]
    /\ CacheHolds(m, batchId[m], {Torn}) \/ UNCHANGED <<cache, missed>>

Backup(m) ==
    \/ \E c \in Chunk : Skip(m, c) \/ \E base \in Chunk \cup {NoChunk} : Put(m, c, base)
    \/ Flush(m) \/ Upload(m) \/ UploadFails(m) \/ Install(m) \/ InstallFails(m)

CacheStep(m) == \E id \in PackId : CachePack(m, id) \/ EvictCached(m, id)

StopStep(m) ==
    Stop(m) \/ StopInUpload(m) \/ \E id \in PackId : StopInRead(m, id)

Next ==
    \E m \in Machine :
        OpenFromMeta(m) \/ OpenFromPacks(m) \/ Backup(m) \/ CacheStep(m) \/ StopStep(m)

Spec == Init /\ [][Next]_vars

-----------------------------------------------------------------------------
(* Properties.                                                             *)

(* The values the state may take; a process that is down has no memory.    *)
TypeOK ==
    /\ bucket \in [PackId -> SUBSET Entry]
    /\ meta \subseteq Chunk \X PackId
    /\ cache \in [Machine -> [PackId -> SUBSET (Entry \cup {Torn})]]
    /\ packs \in [Machine -> [PackId -> SUBSET Entry]]
    /\ pending \in [Machine -> SUBSET Entry]
    /\ nextId \in [Machine -> 0 .. MaxPack + 1]
    /\ \A m \in Machine :
          /\ DOMAIN index[m] \subseteq Chunk
          /\ \A c \in DOMAIN index[m] : index[m][c] \in PackId \cup {NoPack}
          /\ Hashes(pending[m]) \subseteq DOMAIN index[m]
          /\ pc[m] \in {"upload", "install"} => batch[m] # {} /\ batchId[m] \in PackId
    /\ pc \in [Machine -> {"down", "ready", "upload", "install"}]
    /\ item \in [Machine -> Chunk \cup {NoChunk}]
    /\ batch \in [Machine -> SUBSET Entry]
    /\ owed \in [Machine -> SUBSET Chunk] /\ bases \in [Machine -> SUBSET Chunk]
    /\ own \in [Machine -> SUBSET promised] /\ missed \in [Machine -> SUBSET PackId]
    /\ promised \subseteq Chunk /\ lost \subseteq Chunk

(* Nothing deletes a chunk: once a flush has returned Ok, the bucket has a *)
(* pack with each chunk of the backup, also when a process that died left  *)
(* a pack that _meta.index does not list and its id is used again; except  *)
(* chunks of a batch whose writing failed, which the dedup index keeps.    *)
PromisedStored == promised \ lost \subseteq InBucket

(* A delta in the bucket has its base there, in the same pack or an        *)
(* earlier one, whatever was uploaded, cut off or overwritten since.       *)
DeltaBaseStored ==
    \A id \in PackId : \A e \in bucket[id] :
        e[2] # NoChunk => \E i \in 1 .. id : <<e[2], NoChunk>> \in bucket[i]

(* What _meta.index says of a chunk is so, whatever step a process died at.*)
MetaPointsAtPacks == \A l \in meta : l[1] \in Hashes(bucket[l[2]])

(* What a process believes of a pack is what the pack holds.  It is so     *)
(* only of machines that take turns: of two that have the bucket open one  *)
(* may write over a pack of the other.                                     *)
PacksInBucket ==
    \A m \in Machine : \A id \in PackId : packs[m][id] \subseteq bucket[id]

(* Part of a cache file, of any pack.                                      *)
TornCache(m) == \E id \in PackId : cache[m][id] = {Torn}

(* A process whose backup returned Ok can read the backup's chunks, those  *)
(* it only skipped included, unless their batch could not be written or a  *)
(* cache file is in the way: one that was cut short, or that could not be  *)
(* written anew.                                                           *)
ReadYourWrites ==
    \A m \in Machine :
        pc[m] = "ready" /\ ~TornCache(m) /\ missed[m] = {} => own[m] \ lost \subseteq Readable(m)

(* So can it with any cache the machine may have ...                       *)
ReadsThroughCache ==
    \A m \in Machine : pc[m] = "ready" => own[m] \ lost \subseteq Readable(m)

(* ... and so can every process that opens the bucket later.               *)
PromisedReadable ==
    \A m \in Machine : pc[m] = "ready" => promised \ lost \subseteq Readable(m)

=============================================================================
