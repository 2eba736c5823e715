# packt in TLA+

A verification development for [packt](https://github.com/BlackPool25/packt), a
deduplicating backup engine in Rust: `packt-lib` chunks files, removes
duplicate and near-duplicate chunks and keeps what is left in packs, on a local
disk or in an object store; `packt-cli` is a thin command line over it. File
names below are relative to `packt-lib/src`.

The modules are plain TLA+ for TLC; the modules named `*Proofs` hold proofs for
TLAPS. `PROJECT.json` lists the runs, which lines each
definition models, the hazards with the properties that cover them, and, for
every property of a passing run, a mistake in the code that breaks it.

## 1. Inventory

| Part | Source | State | Operations | Model |
|---|---|---|---|---|
| Local pack store | `store/local.rs` | pack files; pending buffer and metadata of loaded packs under one mutex; `next_pack_id`; a reference to the dedup index | `open`, `put`, `put_delta`, `put_signature`, `get`, `contains`, `flush` | `LocalStore` |
| Trait `ContentStore` | `store/mod.rs` | what a backend keeps and has promised | | `ContentStore` |
| Backup pipeline | `pipeline/mod.rs`, `dedup_stage.rs`, `hasher_stage.rs` | per call: main thread, bounded channel of 64 messages, writer thread, statistics | `backup_file` | `Pipeline` |
| Dedup index, trait `DedupIndex` | `index/hashindex.rs`, `index/mod.rs` | concurrent map, Bloom filter, counter | `insert`, `lookup`, `contains`, `len` | `HashIndex`, `DedupIndex` |
| Similarity index and stage | `similarity/palantir.rs`, `pipeline/similarity_stage.rs` | 4 shards: signatures, 3 tiers of lists, queue of use, counter | `process`, `insert`, `query`, `remove`, `rebuild`, `set_index` | `Palantir` |
| Cloud pack store | `store/cloud.rs` | bucket (packs, `_meta.index`), memory as the local store | the trait's operations, `open` on two paths | `CloudStore` |
| Pack cache of the cloud store | `store/cloud.rs` | cache directory, `LruCache` of pack ids under a mutex | `read_pack_cached`, the cache write of `flush_write` | `PackCache`, and as files that may go stale `CloudStore` |
| Locks of stores and index | `store/local.rs`, `store/cloud.rs`, `index/hashindex.rs` | the mutexes of a store (state, index, LRU) and the index's two locks | every method of the trait, `set_index`, `populate_index` | `StoreLocks` |
| Store API | `store/store_api.rs` | manifests beside the store | `backup`, `restore`, `verify`, `list_files`, `info`, `has_file`, `delete_file` | `StoreApi` |
| Pack format | `store/pack.rs` | none: bytes of a pack | `write_pack`, `read_pack`, lookup of an entry | `PackFormat` |
| Delta codec | `store/delta.rs` | none | zstd with a dictionary | not modelled: `LocalStore` keeps over which bytes a delta was encoded |
| Super-features | `similarity/super_feature.rs` | none | numeric extraction | not modelled: a parameter of `Palantir` |
| Chunking, hashing | `chunking/`, `hash/` | none | wrappers of `fastcdc` and `blake3` | not modelled: a file is a sequence of chunks, a chunk is its hash |
| Command line | `packt-cli/src` | none | one call of the Store API per command | not modelled |

How the parts interact. `Store::backup` builds a pipeline per call. Its main
thread cuts the file into chunks, asks the dedup index, then the similarity
index, and sends one message per chunk through the channel. Its writer thread
calls `put` or `put_delta` (for a near-duplicate, after a `get` of the base),
then inserts into the dedup index, then calls `put_signature`; when the sender
is gone it calls `flush` once. All calls of all pipelines share one store and
one dedup index. The store asks the same dedup index inside `put` and `get`.

What is hard in it, and the property that makes each part correct:

* The local store releases its lock while a pack is written, `put` consults the
  index before it takes the lock, and the index is updated after `put` returned.
  *What a flush promised is on disk for good; a chunk is in one place; pack ids
  are never used twice; what the index knows is somewhere.*
* The dedup index outlives a failed write, and makes later backups skip chunks.
  *Index and store agree.*
* The process may die between any two steps. *What is found at the next open is
  enough to restore every finished backup.*
* Deltas have bases that are chosen by a different thread, from a memory of its
  own, before they are stored. *The base precedes the delta, chains end, and a
  delta is encoded over the bytes the base decodes to.*
* Two threads, a bounded channel, and errors on both sides. *Every call returns
  and every writer ends; Ok means that no chunk of the file waits in the buffer;
  the statistics add up.*
* Map, filter and counter of the dedup index are updated without a common lock.
  *Each call acts as one step, no false negative; the counter is exact.*
* A similarity shard keeps one entry in four structures and evicts. *They
  agree, and the budget holds.*
* The bucket is shared by processes that know nothing of each other, an index
  object is written after the packs, and a local cache is trusted by pack id.
  *Promised chunks stay in the bucket, are found by later processes, and a
  cached pack is the pack of the bucket.*
* The cache directory is written outside the lock of the list that bounds it.
  *The files stay bounded, and an incomplete one is never left to be read.*
* Reading a delta calls `get_inner` again, below a lookup that takes a lock
  while another takes its own. *No thread waits for itself or in a circle; every
  call returns.*
* A manifest is written after the chunks, from a look at a file that users may
  be editing, over the previous manifest, while other threads read or delete it.
  *A manifest names no chunk that waits in the buffer, and describes one version
  of the file; a skipped file is unchanged; Ok of backup, restore and verify means
  what it says.*
* A pack mixes two kinds of offsets and does not store where its super-block
  ends. *Every chunk written is read back; a damaged pack is an error.*

## 2. Modules

| Module | Content |
|---|---|
| `ContentStore` | abstract specification: chunks are only added; a flush promises chunks that are stored |
| `DedupIndex` | abstract specification: calls on the index are atomic |
| `LocalStore` | the local store, driven by writer threads and reader threads |
| `LocalStoreInv` | inductive invariants and the assumptions of the theorems |
| `LocalStoreProofs` | theorems about `LocalStore`: packs, index, promises, refinement of `ContentStore`; the buffer, deltas, single storage; restores |
| `Pipeline`, `PipelineProofs` | concurrent `backup_file` calls over the buffer of the store they share, theorems |
| `HashIndex`, `HashIndexProofs` | dedup index, refinement of `DedupIndex`, theorems |
| `Palantir`, `PalantirProofs` | similarity index and the stage that drives it, theorems |
| `CloudStore` | machines and one bucket |
| `CloudStoreInv`, `CloudStoreProofs` | its inductive invariants and its refinement of `ContentStore`, theorems |
| `PackCache` | the cloud store's cache directory and its LRU in one process |
| `StoreLocks`, `StoreLocksProofs` | the locks of the stores and the index, theorems |
| `StoreApi`, `StoreApiProofs` | the Store API over the dedup index and the store's buffer, theorems |
| `PackFormat` | the bytes of a pack, written and read |
| `PackProofs` | theorems about `PackCache` and about `PackFormat`, which have no state in common |
| `MC*` | constants' values, symmetry and bounds for TLC |

How they fit together. `LocalStore` and `CloudStore` implement `ContentStore`,
each under the conditions of section 4; `Pipeline` and `StoreApi` do
not take that promise for granted, since it has conditions: they repeat what both
stores do, a buffer that all calls share, drained under the lock and written
without it. `LocalStore` and `CloudStore` take a pack as the set of
its entries, which `PackFormat` justifies: what is written is read back by hash,
a damaged pack is an error. They and `Pipeline` take calls on the dedup index as
atomic, which `HashIndex` justifies by implementing `DedupIndex`, and lock
sections as atomic steps, which `StoreLocks` shows to be free of circular
waiting.

Definitions whose comment begins with "Mistake" are mutations: they are
used nowhere in the specifications.

### LocalStore

`disk` is the directory of pack files, `packs`, `pending` and `nextId` the
fields of the store, `index` the dedup index (absent, a placeholder location, or
the location of an entry). A thread's `pc` names the step it is at between two
lock operations:

| Action | Code |
|---|---|
| `Skip`, `StartStore`, `StartNearDup`, `EncodeDelta` | the writer's next message and what it does before it calls the store |
| `Lookup`, `AppendPending` | `put`, `put_delta`: phase 1 without the lock; phases 2 and 3 under it, with the drain when the target is reached |
| `Flush` | `flush`: drains, or returns Ok at once |
| `WritePack`, `WriteFails`, `Install` | `flush_write` without the lock, its error, and recording the pack under the lock again |
| `InsertIndex`, `PutSignature` | what the writer does after `put` returned |
| `StartGet`, `GetPending`, `GetStored`, `GetResume`, `FinishGet` | `get_inner`: pending buffer, index, scan of all packs; nested calls for bases are a stack of frames |
| `Reopen` | death at any step and `open`: ids, metadata and index come from the files |

Abstractions. A chunk is its hash, and of its bytes an entry keeps whether it is
a delta, over which base, and whether the base's bytes were its content or again
a delta. Sizes are numbers of entries. Writing, syncing and renaming one pack is
one step: before the rename the pack does not exist, and a `.tmp` left behind is
ignored by `open`. A power loss that undoes a rename is out of scope, as the
code syncs file and directory. `contains` changes nothing and reads what `put`
reads. All chunks are large enough to have a similarity signature. The main
thread's lookahead is not a queue here (`Pipeline` has it): a chunk sent again
before it is indexed reaches `Lookup` and then acts as `Skip`, unless the
similarity index evicted in between (`Evicts`).

### Pipeline

One call per member of `Backups`: `main`, `queue` and `writer` are the two
threads and the channel. `Begin`, `NextChunk`, `Send`, `ReadFails`, `EndOfFile`
and `Join` are the main thread, `Receive`, `Encode`, `Put`, `Insert`, `Finish`,
`Flush`, `Write` and `StoreFails` the writer. Of the store there is what the
local and the cloud store have in common. `pending` is the buffer all calls
share. A `Put` that fills it, or a `Flush`, drains it (`Drains`) into the `batch`
of its writer, and `Write` makes the batch `durable` without the lock. A `Flush`
that finds the buffer empty returns Ok at once, whatever other writers have in
their batches. A write that fails may have left its pack; if not, its chunks are
`lost`, though the dedup index keeps them. `put_signature` is left to
`LocalStore`. The similarity index answers with some chunk of this call that
resembles the new one; `Store::backup` gives each call an empty one, since the
block meant to rebuild it (`store_api.rs:546-548`) is empty.

### HashIndex

`insert` sets the filter's bits, writes the map and increments the counter, a
step each; `lookup` asks the filter and then the map, `contains` the map. The
bits of a hash are a parameter, so false positives are there; the bits of one
insert are set in one step, under the filter's mutex. As a `DedupIndex`
(`Atomic`), an insert takes effect when its entry enters the map, a lookup when
the map answers, or already when the filter says no. `len` is no part of that
view: the counter follows the map by a step (`CountIsKeys`).

### Palantir

One step is one chunk (`ProcessNear`, `ProcessBelow`, `ProcessUnique`,
`SetIndexEntry`) or one `Rebuild`, from a sequence of hashes of the constant
`Rebuilds`. One main thread drives an index, so the interleaving of two does not
arise. `Without`, `EnforceBudget` and `Filled` are the loops of the code.
Ties between equally good candidates are broken by the order of a list, which
the model leaves open. Two histories: `before` is the order in which the entries
of a shard were last used, `twice` the shards in which a chunk was inserted
while it was there: `insert` does not look, so counter and queue are exact only
without that.

### CloudStore

A machine opens the bucket (`OpenFromMeta`, or `OpenFromPacks` when the index
object is missing or unreadable), backs up (`Skip`, `Put`, `Flush`, `Upload`,
`Install`, with errors), reads through its cache (`CachePack`, `EvictCached`)
and stops at any step; cache files stay. `Put` stands for `put` and for
`put_delta`, whose base is a unique chunk of the same backup that `get` returned.
A machine has one writer: what threads of one process do to one another is in
`LocalStore`, whose protocol `put` and `flush` repeat. `put_signature` is the
local store's and is left out; nothing in the cloud store reads a signature. An
entry is a chunk with the base it is a delta over, and `Readable` follows bases
through the index, the cached or downloaded packs and the packs loaded in memory.
A pending delta is not `Readable`: `get` returns its bytes undecoded. The cache
file of a pack is written after the upload, or after a download, and an error of
that write is dropped (`cloud.rs:272`, `cloud.rs:351`): what the file held before
stays, or part of the new one (`WriteCached`, `CacheHolds`). The history `missed`
names the packs of which an older file stayed.
`promised`, `own` and `lost` are histories: chunks of backups that returned Ok,
of those the process's own, and chunks of batches whose upload or index write
returned an error, which the dedup index keeps nevertheless.

### PackCache

One process, whose threads overlap in `read_pack_cached` and `flush_write`. A
read looks for the file (`Look`), marks it used (`Touch`) or downloads the pack,
enters it into the LRU and removes the file of what the LRU dropped (`Push`,
under the LRU's lock), and writes the file after the lock (`Create`, `Fill`, with
the file incomplete between the two). `LruCache` is modelled from its use:
`push` returns the entry it replaced or dropped, `put` only whether it replaced
one. A file removed while it is written is gone, since the writer holds an
unlinked file. Writing the file may fail, which the code ignores.

### StoreLocks

Each section of code that takes a lock is named in `Locked`, with the lock it
takes; `Follows` is the control flow of the methods between sections, with data
left open; `Kept` says which lock a section holds from an earlier one.
`DropGuard` is the end of the block around `lookup` in phase 2 of `get_inner`,
`GetBase` the nested call for a base, with its limit of depth. The comment at
`local.rs:230` ("Guard must be dropped before read_from_location") is the hazard
this module is about. The concurrent map of the dedup index is one lock.

### StoreApi

A thread is in one call; `pc` names its step and `call` holds its locals. Users
edit files at any step (`Edit`), a clock counts seconds (`Tick`), the process
dies (`Crash`).

| Action | Code |
|---|---|
| `StartBackup`, `CheckManifest`, `CompareSource` | `backup` and `is_file_unchanged` |
| `ReadChunk`, `Flush` | `backup_file` reads the file as it then is, chunk by chunk; a put may drain the buffer, the flush at the end does if anything is in it |
| `WriteBatch`, `WriteBatchFails` | `flush_write` of what was drained, without the lock, and its error |
| `LeaveWriter` | the file cannot be read on: the call returns, its writer stores and flushes what it was sent |
| `StatSource` | the metadata of the file after the backup, for the manifest |
| `PutManifest`; `OpenManifest`, `WriteManifest` | an object in the cloud; locally `fs::write`, which first cuts the file to nothing |
| `StartWalk`, `Visit*`, `FinishWalk` | `restore`, `verify`, `list_files` and `info`, one manifest after another |
| `StartDelete`, `HasFile`, `RemoveManifest` | `delete_file` |
| `BackupFails`, `PutFails`, `WriteFails`, `WalkFails`, `DeleteFails` | an error at any of these steps |

A file is the sequence of its chunks and its size their number. `known` is the
dedup index, `pending` the buffer, `batch` what a thread has drained and `stored`
what is in packs; `lost`, a history, are chunks of batches that were not written.
Of a restored file the model has the content, not the time that `restore` sets
last and whose error it drops (`store_api.rs:621`). Histories say
what a property may count on: `blind`, the files with an edit that size and
second do not show or that happened while the file was read; `stable`, the
manifests that did not change since a call asked for them; `broken`, names whose
manifest was being written when the process died, or by two threads at once.

What the code does that no property forbids, and no document of the repository
denies: restore of one name that has no manifest returns Ok and writes nothing;
an incomplete manifest makes every later unforced backup of the file and every
listing an error; two files of one name share a manifest.

### PackFormat

`output` is the file, `phase` the pass over the entries, `next` the entry it is
at. A byte says what it is the n-th byte of, so compression is any choice of
length from a small set, and a frame is read from all its bytes in order or not
at all.
`WriteFull`, `WriteSuperblock`, `WriteDelta` and `WriteIndex` are the passes of
`write_pack`; `OldPack` is a file of either older format (its data is
`OldData`), which the code only reads. `ReadPack` is `read_pack`, `GetByHash` and `GetByPlace` are the two ways
the stores find an entry. `Truncate`, `ChangeByte` and `ChangeFooter` damage a
finished pack of the current format, whose checksum covers the footer's fields.
The base of a delta is taken to be at hand, and the chunks of a pack differ, as
the stores buffer a chunk once. A pack with deltas only has no super-block.

## 3. Runs

All runs end within two minutes on two workers; all pass except
`CloudStoreReopen`, which is expected to find a violation.

| Run | Question | Instance |
|---|---|---|
| `LocalStoreOne` | durability, single storage, bases, restores beside a backup, refinement of `ContentStore` | 1 writer, 1 reader, 3 chunks, packs 0-2, pack target 2, crashes |
| `LocalStoreTwo` | two writers with failing writes: ids, buffer, index, delta cycles | 2 writers, 2 chunks, packs 0-2 |
| `Pipeline` | meaning of Ok, statistics, order of messages | 2 overlapping calls, files of 3 and 1 chunks with repeats and near-duplicates, channel of 2, reading, storing and flushing may fail |
| `PipelineFailures` | every call returns, every writer ends | 1 call, file longer than the channel, every step may fail, fairness |
| `HashIndex` | refinement of `DedupIndex`, exact counter | 3 threads, 3 hashes with shared bits, 2 locations |
| `Palantir` | structures of a shard, eviction, budget | 2 shards of 2 entries, 6 chunks, 2 tiers, rebuilds from 2 entries |
| `CloudStore` | promises, bases of deltas, agreement of bucket and index object, reads through a cache | 1 machine that restarts, 3 chunks, packs 1-2, writes to bucket and cache fail, incomplete cache files |
| `PackCache` | number and completeness of cache files, entries and files | 2 threads, 4 packs, capacity 2, failing writes |
| `StoreLocks` | no circular waiting, every call returns | 2 threads, 3 calls, chains of 2 bases, both backends, fairness |
| `StoreApi` | what manifests say, when files are skipped, what Ok means | 2 threads, 1 file of 1 or 2 chunks, 2 seconds, 1 edit, 1 damaged chunk, both backends, every step may fail, crashes |
| `PackFormat` | packs are read back; damage is found | up to 3 entries of 3 chunks of 4 bytes, all orders of full chunks and deltas, every truncation, byte and footer field |
| `CloudStoreReopen` | *violated*: reopening through `_meta.index`, twice | 1 machine |

`CloudStoreTurns.cfg` is a larger instance of `CloudStore` to run by hand: two
machines that take turns, packs 1-3, no cache; it passes.

Why the bounds are enough to be interesting. Pack target 2 makes both kinds of
drain happen, by `put` and by `flush`; three packs let one be written, one
be drained and one be on disk; three chunks give a delta over a delta and a
repeated chunk; with two chunks two writers already store each other's bases,
the cycle that `NoDeltaCycle` excludes. A channel of 2 fills up with a file of
3. Three threads in `HashIndex` allow two inserts of a hash beside a lookup. In
`Palantir` a shard of two entries evicts at the third, of which one was touched
by a query. In `CloudStore` two packs let an id be lost to a crash and be used
again, with a delta and its base in one pack or in two; machines that take turns
and have no cache differ from one machine that restarts in nothing, so one
machine is enough there. In `PackCache` four packs and a capacity of two let one
pack be dropped while another is read, and two threads write, remove and write
one file again. In `StoreLocks` a circle needs two threads, and a chain of two
bases has a call inside a call inside a call. In `StoreApi` an edit that keeps
the size, or one that leaves a file that starts with the same chunk, is enough to
mix two versions in one backup; two threads overlap any two calls, and calls for
two files meet only in buffer and index, as two calls for one file do. In
`PackFormat` three entries have two full chunks around a delta. Every bound
(`MaxPack`, `PackTarget`, `MaxDepth`, `MaxEntries`, `MaxCalls`, `MaxSecond`,
`MaxEdits`, `ShortQueues`) is a constant or a constraint named in the module.
`MaxPack` only stops a drain that would need another id.

Symmetry is used for safety only: chunks, writers, readers, threads, backups and
machines where nothing tells them apart.

Fairness. `PipelineFailures` assumes weak fairness of each call's main thread and
of its writer, `StoreLocks` of each thread's steps (`FairSpec`). All are
operating-system threads, and one that can run does run in the end; a step that
blocks on a full or an empty channel or on a lock is disabled, not unfair. Which
of several waiting threads gets a lock is left open, so that a thread could wait
for ever while others call again and again; `MaxCalls` bounds the calls, and
`CallsReturn` is about deadlock and endless recursion, not about starvation.
Nothing is assumed of new calls, and no failure has to happen or to stop.

## 4. Proofs

| Module | Theorem | Assumes |
|---|---|---|
| `LocalStoreProofs` | `TypeCorrect` | |
| | `PacksOnDiskHolds`, `NoOverwriteHolds`, `IndexedIsStoredHolds` | `OrderedNames` |
| | `PromiseKeptHolds`, `Implementation` (`LocalStore` implements `ContentStore`) | `OrderedNames`, `SingleWriter`, `~WriteCanFail` |
| | `PendingOnceHolds` | `PacksOnce` |
| | `NoDeltaCycleHolds` | `PacksAcyclic` |
| | `StoredOnceHolds`, `DeltaBaseStoredHolds` | `OrderedNames`, `SingleWriter`, `~WriteCanFail`, `PacksApart`, `PacksHaveBases` |
| | `RestoreCorrectHolds`, `DeltasDecodeHolds` | the same, `~Evicts`, `PacksDecode`, `MaxDepth # 0` |
| `HashIndexProofs` | `TypeCorrect`, `CountIsKeysHolds`, `Implementation` (`HashIndex` implements `DedupIndex`) | |
| `PalantirProofs` | `TypeCorrect`, `StructuresAgreeHolds`, `EvictsWhenFullHolds` | |
| | `WithinBudgetHolds` | `Budget >= Cardinality(Shard)` |
| `PipelineProofs` | `TypeCorrect`, `CountsAddUpHolds`, `OkIsWrittenHolds`, `BaseFirstHolds` | |
| | `OkIsDurableHolds` | `~StoreCanFail`, one member of `Backups` |
| `StoreApiProofs` | `TypeCorrect`, `WrittenHolds`, `SnapshotHolds`, `SkipHolds`, `AckedHolds`, `RestoreCoversHolds`, `VerifyCoversHolds` | |
| | `RestorableHolds` | `InTurns`: `~StoreCanFail`, one member of `Thread` |
| `StoreLocksProofs` | `TypeCorrect`, `NoWaitCycleHolds` | |
| `CloudStoreProofs` | `TypeCorrect`, `MetaPointsAtPacksHolds`, `PromisedStoredHolds`, `DeltaBaseStoredHolds` | `OneAtATime`, `~ReadCanFail` |
| | `Implementation` (`CloudStore` implements `ContentStore`) | the same, `~WriteCanFail` |
| | `ReadYourWritesHolds` | `OneAtATime`, `~ReadCanFail`, no cache or one machine |
| `PackProofs` | `TypeCorrect`, `PartIsBeingWrittenHolds` | |
| | `FilesBoundedHolds`, `EntriesHaveFilesHolds` | `IsFiniteSet(Pack)` |
| | `DamageDetectedHolds` | |
| | `EveryChunkReadableHolds`, `PlaceReadableHolds` | `NoResult` |

They hold for any sets of chunks, threads, files, machines, hashes and shards,
any number of packs, of entries of a pack and of bytes of an entry, any pack
target and any channel or cache capacity, as far as the named assumptions of
each module go (`DiskAssumption` and the like). The `Packs...` assumptions are
about the files a local store is first opened on: they were written by such a
store. `NoResult` says that an error is not a sequence, a tuple or a record: the
model gives the two the names `Corrupt` and `None`, and only the assumption says
that these are not the names of results. The others are conditions without which
the property is false, and a configuration to run by hand shows it (section 5):
`LocalStoreIds` drops `OrderedNames` (pack files sort by name like their ids do,
which ends with pack 10), `LocalStoreFlushFailure` drops `~WriteCanFail`,
`LocalStoreFlushWindow` drops `SingleWriter`, `LocalStoreEviction` drops
`~Evicts`, `CloudStoreConcurrent` drops `OneAtATime`, `CloudStoreUnread` drops
`~ReadCanFail` and `CloudStoreStale` gives two machines a cache; section 5 also
has the case of fewer entries than shards. `OkIsDurable` and
`ManifestsRestorable` fail as `LocalStoreFlushWindow` and
`LocalStoreFlushFailure` show for the store: TLC finds both violated where calls
overlap or writes fail. The runs therefore check what Ok means in any case,
`OkIsWritten` and `ManifestsWritten`, and the two theorems say what more it means
for one call at a time on a store that does not fail. (`MaxDepth` is the 16 of
`local.rs:210`.)

Every safety and every action property of a passing run is stated by one of
these theorems. The type invariants are proved, and only that of `Palantir` is
run as well.

**Packs, index and promises of the local store** (`LocalStoreInv`), in layers
that are each inductive relative to the one before:

1. `PackInv`: an id not handed out yet has no file (`FreshIds`); ids of packs
   being written are below `nextId`, distinct, their files absent before the
   write and equal to the batch after it (`BatchIds`). Hence no file is
   replaced, and metadata describes files. After a restart `FreshIds` needs that
   the last name carries the greatest id, which is `OrderedNames`.
2. `IndexInv` adds `PutStores`: a put that is about to report its chunk to the
   index has stored it. `IndexedIsStored` alone is not inductive, since the
   index is updated a step after the store.
3. `BackupInv` adds, for one writer without failures, that nothing is pending
   while a pack is written and that all a backup counts as stored is indexed. A
   flush that returns then finds every chunk it promises on disk, and by layer 1
   it stays there.

**Deltas of the local store.** `DeltaInv` needs neither one writer nor writes
that succeed. The base of a delta was chosen from what this process put in the
index, as a placeholder, and an entry for a chunk is made only while the index
has none for it. A step that stores a chunk therefore stores one that no entry
written by this process is over, and any set of chunks that are each a delta
over another of the set would have to contain an older one. `Acyclic` says it
for the entries of files, buffer and batches at once, so it does not matter
where they are or whether they are lost. `SingleInv` adds, under the conditions
of layer 3, that what is stored is indexed or about to be, hence not stored
again, and that a delta and its base are in one batch or the base is on disk.

**Restores of the local store.** `RestoreInv` adds what nested reads rely on.
Every entry that is, or is about to be, somewhere in the store holds its chunk,
or a delta over the chunk's own bytes of a base that is stored in full only
(`Decodable`). Every pack file's metadata is loaded, but for one that is being
installed (`AllLoaded`); so what a flush promised is among the loaded packs, and
so is the base of each entry there (`BasesLoaded`). A reader therefore finds the
base by the scan at least, also when the writer moves an entry from the buffer to
a pack between two of its steps, and one nested read suffices, hence
`MaxDepth # 0` (`ReaderGets` lists what such a read may look like). For the
writer's own reads (`WriterReads`), what it encodes over is in full only
(`UniqueInFull`): a similarity index that evicts within one backup could name a
chunk that is itself a delta in the buffer, which `get` returns undecoded.

**Dedup index.** `CallOrder` says how far a call has come: the bits of an insert
are set before its entry is in the map, so the filter covers the map
(`FilterCoversMap`) between any two steps. A lookup that the filter answers has
therefore looked at a map without the hash. The counter is proved equal to the
number of entries less the inserts that have yet to count.

**Similarity index.** `Sound` relates the four structures of a shard: the lists
name the signatures and the queue does, each as a set, and the counter is at
least their number. `Exact` adds, while no chunk was inserted twice, that the
counter is their number and that the queue has no repetition; its order is then
that of `before`. Eviction, insertion and touch keep both. That `EnforceBudget`
leaves room is an argument about its rounds: each takes at least one place from
the queue of a full shard, so after as many rounds as the queue was long the
shard is not full or the queue is empty. `Fits` says what is left: a shard holds
one entry or at most its share of the budget.

**Pipeline.** `Inv` accounts for every chunk that was hashed: it is counted by
the main thread as a duplicate, or is in a message, or was counted by the
writer. `Content` adds what a message means: the base of a near-duplicate, and a
chunk that was skipped, will have been accepted by the store when the writer
comes to that message; and a call that returned Ok left nothing of its file in
the buffer. A chunk that left the buffer never comes back without having been
written or lost, hence `OkIsWritten`; that nothing is lost and no other writer
has a batch is all that `OkIsDurable` adds.

**Store API.** The invariants follow the calls of a thread: what a backup has
read so far is a prefix of some version of the file, or the file is `blind`;
its chunks were given to the store (`Given`), and once it is past its flush have
left the buffer (`Settled`), which no step undoes (`FlushedInv`); under `InTurns`
they are then in packs (`TurnsInv`); what a walk has still to
visit covers the manifests that did not change since it began. Each of the
properties is then read off at the step in which the call returns.

**Locks.** `OwnerInv` says which lock a thread has at each step. A thread that
keeps one lock while it asks for another keeps that of the index or of the
state, and asks for the filter or the map, whose owner keeps nothing and waits
for nothing. So no circle of waiting threads closes, whatever their number and
however deep deltas nest.

**Cloud store.** A pack is `Taken` when every process to come counts its ids
beyond it: its id is at most one that `_meta.index` lists, or there is no such
object. `IInv` says that a running process counts beyond taken packs (`Behind`),
that all it has indexed is pending, being uploaded, taken or lost (`Covered`),
and that what is promised is taken (`PromisedDurable`). That `_meta.index` may
drop earlier packs does not matter for this, which is why chunks stay stored
(`PromisedStored`) though they are no longer found (`PromisedReadable`, below).
`BasesInFull` is the same for bases of deltas. No step changes a taken pack or
makes it untaken (`NextKept`), so `Durable`, the chunks of taken packs, only
grows: with it as `stored` the bucket implements `ContentStore`, if no write
fails. That uploads become durable only when `_meta.index` lists a pack at or
after theirs is why `Promise` of `ContentStore` may add chunks and promise them
in one step.

For what a process reads back, `RInv` describes what it knows: the packs it
loaded, the packs its index names, what is pending and what is being uploaded.
No entries among them are deltas over one another in a circle (`Acyclic`), and
the base of each is among them again (`RestOn`), hence whatever is closed under
reading contains them all. A cached file is the pack of the bucket, was cut
off, or could not be written anew and is in `missed` (`CacheInv`); for several machines that fails, since one of them may hold a
file of an id that another used again.

**Pack cache.** `WritersHaveFile` makes `PartIsBeingWritten` inductive for any
overlap. For calls that follow one another, `SoloInv` bounds files, entries and
the file about to be created together by the number of entries and of packs that
came past the LRU: a push trades the pack it drops for the one it adds, and an
upload adds to both sides.

**Pack format.** `FormatInv` says that what has been written so far can be taken
apart again: each chunk stored in full lies in the super-block where its entry
says, and each delta in the data (`Laid`); the data begin with the frame of the
super-block, which ends where the reader takes it to end, before the first delta
or, if there is none, with the data (`FrameFirst`); and a finished file is such
data with its index and footer (`InFile`). Reading is then computed from the lemmas about
sub-sequences (`Joined`, `Cut`). A damaged pack is an error because its last
bytes are not all bytes of one footer, or the checksum in them is that of other
bytes than those before it (`DamageFound`).

The loops of the code are recursive functions on `0 .. n` (`Without`, `Filled`,
`OldData`). The library's induction takes an operator, which the provers cannot
instantiate, so `PalantirProofs` and `PackProofs` derive what they need from the
least element of a set of naturals: `Iteration` (such a function exists and
satisfies its equations) and `UpTo` (induction for a set).

Model-checked only: liveness, which needs fairness and `ENABLED` and is out of
the prover's reach (`BackupReturns`, `WriterEnds`, `CallsReturn`). Nothing is
proved about the violated property of `CloudStoreReopen` beyond its
counterexample.

## 5. Disagreements between code and documentation

`CloudStoreReopen` is a run of the project (`findings` in `PROJECT.json`):
`_meta.index` is rewritten from the packs loaded in this process, none after a
fast reopen, so chunks of earlier backups are lost to the next process. It is
`cloud.rs:20` against `cloud.rs:286`.

The other configurations in this directory are counterexamples kept for
reference, one property each, all violated when run by hand (and
`CloudStoreTurns`, which passes):

| Configuration (module) | Property | What happens |
|---|---|---|
| `LocalStoreIds` (`MCLocalStoreIds`) | `PromiseKept` | `open` sorts names as strings, so a store of eleven packs is reopened at an id in use, and the next flush overwrites a pack (`local.rs:65`) |
| `LocalStoreFlushFailure` (`MCLocalStore`) | `PromiseKept` | after a failed write the drained chunks are gone but still indexed; the next backup skips them and returns Ok (`local.rs:441`) |
| `LocalStoreFlushWindow` (`MCLocalStore`) | `PromiseKept` | `flush` returns Ok while another thread is writing the batch that holds this backup's chunks (`local.rs:440`) |
| `LocalStorePendingDelta` (`MCLocalStore`) | `GetReturnsContent` | `get` of a chunk pending as a delta returns the delta, unchecked (`local.rs:224`) |
| `LocalStoreRawDelta` (`MCLocalStore`) | `DeltasDecode` | two backups: the writer encodes a delta over such bytes and stores it (`pipeline/mod.rs:133`) |
| `LocalStoreEviction` (`MCLocalStore`) | `RestoreCorrect` | the same within one backup, with a similarity index that evicts within 64 messages |
| `LocalStoreSignature` (`MCLocalStore`) | `SignaturesPersisted` | the put that fills the buffer has drained the entry before `put_signature` (`local.rs:521`) |
| `PipelineCounts` (`MCPipeline`) | `UniqueIsDistinct` | a repeated chunk is counted as unique twice (`pipeline/mod.rs:154`) |
| `CloudStoreConcurrent` (`MCCloudStore`) | `PacksInBucket` | two machines upload different packs under one id (`cloud.rs:706`), while `docs/INTEGRATION_GUIDE.md:306-307` says "concurrent writers produce separate packs" |
| `CloudStoreStale` (`MCCloudStore`) | `ReadYourWrites` | a cached pack whose id another machine used again (`cloud.rs:323`) |
| `CloudStoreTorn` (`MCCloudStore`) | `ReadsThroughCache` | a cache file cut short is never downloaded again (`cloud.rs:351`) |
| `CloudStoreUnread` (`MCCloudStore`) | `PromisedStored` | one failed read of `_meta.index` makes a backup rely on a pack the next process overwrites (`cloud.rs:136`) |
| `PackCacheCapacity` (`MCPackCache`) | `FilesWithinCapacity` | more packs on disk than "max 128 packs" (`cloud.rs:84`): flushed ones and those of earlier processes are not in the LRU |
| `PackCacheOverlap` (`MCPackCache`) | `FilesBoundedAlways` | a pack whose entry another read dropped before the file was written stays on disk (`cloud.rs:351`) |

Read in the code, without a model: `local.rs:313` says that offsets are unique
per pack, which those of a full chunk and a delta need not be, so that a location
may find another entry of the pack (`PlaceReadable` of `PackFormat` leaves these
out); its checksum then fails and `get` scans for the hash. Errors of a
delete in the cloud are dropped (`store_api.rs:475`), and so are those of setting
a restored file's time (`store_api.rs:621`) and of writing a cache file
(`cloud.rs:272`, `cloud.rs:351`), after which an older file of a used-again id
may be read in place of the pack (`ReadYourWrites` leaves out processes with such
a file, `missed`). `HashIndex::new(0)` makes
a filter of size 0 and divides by it (`hashindex.rs:55`). Only the first five
entries of a similarity list are candidates, the chunk itself included
(`palantir.rs:126`). `memory_budget` below the number of shards gives shards of
budget 0, for which `WithinBudget` does not hold. A shard in which a chunk was
inserted twice (`palantir.rs:55`) evicts with room left: `EvictsWhenFull` leaves
it out.

## 6. Not modelled

* Delta codec, super-features, chunking and hashing: numeric functions and
  wrappers of crates without state of their own. The models keep what they
  depend on: over which bytes a delta was encoded, which chunks resemble each
  other, which bits of the filter a hash has.
* `ChunkConfig`: `Store::backup` derives its bounds from one number and rejects
  what does not validate; it is arithmetic a unit test covers.
* The command line: each command is one call of the Store API; `migrate` restores
  one file after another from a store and backs it up to another.
* Several processes on one local store: `docs/INTEGRATION_GUIDE.md:305` says that
  it is "Not safe", and nothing in the code keeps a second process out. Each
  would hand out ids the other uses, with the outcome of `LocalStoreIds`.
* A power loss that undoes a rename: file and directory are synced.
* Faults of the bucket beyond calls that return an error: OpenDAL's retries are
  middleware of the caller's operator.
* `rebuild_similarity_index` of the local store: it fills an index its caller
  owns, and nothing in the repository calls it.

## 7. Plan

What is left, in this order:

1. The lemmas that two proof modules state in the same words (`Least`, `UpTo`,
   `Iteration`, those on sequences) in a module of their own, as far as the
   number of proof modules allows.
2. `StoreApi` over an instance of `ContentStore` in place of its own `stored`,
   and `Pipeline` likewise, so that the composition is a theorem: both repeat the
   stores' buffer and batches.
3. The hazards of `PROJECT.json` without a property: the signature of a drained
   entry, two processes on one local store, and machines that rewrite
   `_meta.index` from what each has loaded.
