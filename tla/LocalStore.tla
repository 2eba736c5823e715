----------------------------- MODULE LocalStore -----------------------------
(***************************************************************************)
(* The local pack store of packt-lib (store/local.rs) driven by the writer *)
(* threads of backups (pipeline/mod.rs) and by threads that restore.       *)
(*                                                                         *)
(* One `LocalStore` is shared by every thread of the process.  Its mutex   *)
(* guards the pending buffer and the metadata of the loaded packs, and is  *)
(* released while a pack is written, so a call is modelled as the steps    *)
(* between lock operations.  The dedup index is a separate object that     *)
(* `put` consults before it locks the store and that the writer updates    *)
(* after `put` returned.                                                   *)
(*                                                                         *)
(* A chunk is identified with its hash.  Of its bytes the model keeps what *)
(* decides whether they can be read back: whether an entry holds the chunk *)
(* itself or a delta, over which base, and over which bytes of that base.  *)
(***************************************************************************)
EXTENDS Naturals, Sequences, FiniteSets

CONSTANTS
    Chunk,          \* the chunks files are made of
    NoBase,         \* base_hash of an entry that is not a delta
    NoEntry,        \* a thread that stores no chunk
    Writers,        \* threads that run backups, each the writer of a pipeline
    Readers,        \* threads that restore or verify
    MaxPack,        \* bound: the last pack id a run may use
    PackTarget,     \* entries in pending that reach pack_target_size
    MaxDepth,       \* delta depth get_inner accepts (16 in the code)
    Radix,          \* base in which a pack id is written in a file name (10)
    InitDisk,       \* the pack files found when the process starts
    WriteCanFail,   \* whether writing a pack may return an error
    Evicts          \* whether the similarity index may evict a chunk within
                    \* the 64 messages the main thread may be ahead

Thread == Writers \cup Readers
PackId == 0 .. MaxPack
Bytes  == {"content", "raw"}  \* a chunk's own bytes, or the bytes of a delta

Entry == [hash : Chunk, base : Chunk \cup {NoBase}, over : Bytes,
          signed : BOOLEAN]

(* One call of get_inner: the phase it is in and, while it waits for the   *)
(* base of a delta, the bytes the delta was encoded over.                  *)
Frame == [hash : Chunk, at : {"pending", "index", "scan"},
          over : Bytes \cup {"none"}]

ASSUME NamesAssumption   == NoBase \notin Chunk /\ NoEntry \notin Entry
ASSUME ThreadsAssumption == Writers \cap Readers = {}
ASSUME BoundsAssumption  == MaxPack \in Nat /\ PackTarget \in Nat \ {0}
                            /\ MaxDepth \in Nat /\ Radix \in Nat \ {0, 1}
ASSUME DiskAssumption    == InitDisk \in [PackId -> SUBSET Entry]
ASSUME FailAssumption    == WriteCanFail \in BOOLEAN /\ Evicts \in BOOLEAN

VARIABLES
    disk,      \* packs/<id>.pack: the entries of each pack file, {} if absent
    packs,     \* StoreState.packs: the metadata loaded for each pack
    pending,   \* StoreState.pending_chunks
    nextId,    \* next_pack_id
    index,     \* DedupIndex: absent, a placeholder location, or a located entry
    pc,        \* what a thread does next
    item,      \* the entry a thread stores, or wants to read
    batch,     \* the drained entries a thread is writing outside the lock
    batchId,   \* and the id of the pack it writes them to
    frames,    \* the calls of get_inner a thread is in, innermost first
    reply,     \* what the innermost call returned
    bases,     \* chunks in the similarity index of the backup a writer runs
    owed,      \* chunks a writer's backup counts as stored; for a reader,
               \* the chunks already promised when its get began
    promised,  \* chunks of backups whose final flush returned Ok
    dropped    \* chunks of drained batches that failed to reach the disk

disk_vars   == <<disk, packs, pending, nextId, index>>
thread_vars == <<pc, item, batch, batchId, frames, reply, bases, owed>>
ghost_vars  == <<promised, dropped>>
vars == <<disk_vars, thread_vars, ghost_vars>>

Hashes(entries) == {e.hash : e \in entries}
OnDisk          == UNION {Hashes(disk[p]) : p \in PackId}
InFlight        == UNION {Hashes(batch[t]) : t \in {u \in Thread : pc[u] = "write"}}

StoredAs(c, b, bytes) == [hash |-> c, base |-> b, over |-> bytes, signed |-> FALSE]
FullEntry(c)          == StoredAs(c, NoBase, "content")
DeltaEntry(c, b)      == StoredAs(c, b, "content")
Signed(e)             == [hash |-> e.hash, base |-> e.base, over |-> e.over,
                          signed |-> TRUE]

Call(c, phase, over) == [hash |-> c, at |-> phase, over |-> over]
NewCall(c)           == Call(c, "pending", "none")

-----------------------------------------------------------------------------
(* LocalStore::open sorts the directory by file name and keeps, as next    *)
(* id, one more than the id of the last name.                              *)

Digits[n \in Nat] ==
    IF n < Radix THEN <<n>> ELSE Append(Digits[n \div Radix], n % Radix)

(* "<p>.pack" sorts before "<q>.pack": '.' sorts before every digit.       *)
NameBefore(p, q) ==
    LET a == Digits[p]
        b == Digits[q]
    IN  \E k \in 1 .. Len(b) :
            /\ k <= Len(a) + 1
            /\ \A m \in 1 .. (k - 1) : a[m] = b[m]
            /\ k = Len(a) + 1 \/ a[k] < b[k]

NameOrder == {r \in PackId \X PackId : NameBefore(r[1], r[2])}

LastNames(ids) == {q \in ids : \A p \in ids \ {q} : <<p, q>> \in NameOrder}

(* The id the next pack gets in a store opened on these files.             *)
OpensAt(files) ==
    LET ids == {p \in PackId : files[p] # {}}
    IN  IF ids = {} THEN {0} ELSE {q + 1 : q \in LastNames(ids)}

(* Mistake: a reopened store starts with an empty index.                   *)
IndexOfNothing(files) == [c \in Chunk |-> "absent"]

(* populate_index: every entry of every loaded pack.                       *)
IndexOf(files) ==
    [c \in Chunk |->
        IF \E p \in PackId : c \in Hashes(files[p]) THEN "located" ELSE "absent"]

Init ==
    /\ disk = InitDisk
    /\ packs = InitDisk
    /\ pending = {}
    /\ nextId \in OpensAt(InitDisk)
    /\ index = IndexOf(InitDisk)
    /\ pc = [t \in Thread |-> "ready"]
    /\ item = [t \in Thread |-> NoEntry]
    /\ batch = [t \in Thread |-> {}]
    /\ batchId = [t \in Thread |-> 0]
    /\ frames = [t \in Thread |-> <<>>]
    /\ reply = [t \in Thread |-> "none"]
    /\ bases = [t \in Thread |-> {}]
    /\ owed = [t \in Thread |-> {}]
    /\ promised = OnDisk
    /\ dropped = {}

-----------------------------------------------------------------------------
(* DedupIndex::contains and lookup, and the scan of pending_chunks.        *)
(* Mistakes: the index misses what was stored; put skips the scan.         *)
IndexHasNothing(c) == FALSE
NeverPending(c)    == FALSE

IndexHas(c)  == index[c] # "absent"
InPending(c) == c \in Hashes(pending)

(* The backup: its main thread sends one message per chunk of the file, the *)
(* writer handles it.  A chunk the dedup index knows is skipped; a chunk no *)
(* similar chunk is known for enters the similarity index and is stored in  *)
(* full; otherwise it is stored as a delta over the similar chunk.          *)
(* The main thread is up to 64 messages ahead, so a chunk may be sent again *)
(* before it is in the index.  put then finds it there and the message does *)
(* what Skip does, unless the similarity index has evicted the chunk it was *)
(* near to, and takes it for unique this time.                              *)
IsSent(c) == ~IndexHas(c) \/ (Evicts /\ index[c] = "placeholder")

Skip(t, c) ==
    /\ pc[t] = "ready"
    /\ IndexHas(c)
    /\ owed' = [owed EXCEPT ![t] = @ \cup {c}]
    /\ UNCHANGED <<disk_vars, pc, item, batch, batchId, frames, reply, bases,
                   ghost_vars>>

StartStore(t, c) ==
    /\ pc[t] = "ready"
    /\ IsSent(c)
    /\ item' = [item EXCEPT ![t] = FullEntry(c)]
    /\ bases' = [bases EXCEPT ![t] = @ \cup {c}]
    /\ pc' = [pc EXCEPT ![t] = "lookup"]
    /\ UNCHANGED <<disk_vars, batch, batchId, frames, reply, owed, ghost_vars>>

StartNearDup(t, c, b) ==
    /\ pc[t] = "ready"
    /\ IsSent(c)
    /\ b \in bases[t] \ {c}
    /\ item' = [item EXCEPT ![t] = DeltaEntry(c, b)]
    /\ frames' = [frames EXCEPT ![t] = <<NewCall(b)>>]
    /\ pc' = [pc EXCEPT ![t] = "get"]
    /\ UNCHANGED <<disk_vars, batch, batchId, reply, bases, owed, ghost_vars>>

(* The writer has what get(base) returned: without it, or when the delta    *)
(* does not pay, it stores the chunk in full.                               *)
EncodeDelta(t) ==
    /\ pc[t] = "get"
    /\ frames[t] = <<>>
    /\ \/ /\ reply[t] \in Bytes
          /\ item' = [item EXCEPT ![t] = StoredAs(@.hash, @.base, reply[t])]
       \/ item' = [item EXCEPT ![t] = FullEntry(@.hash)]
    /\ reply' = [reply EXCEPT ![t] = "none"]
    /\ pc' = [pc EXCEPT ![t] = "lookup"]
    /\ UNCHANGED <<disk_vars, batch, batchId, frames, bases, owed, ghost_vars>>

-----------------------------------------------------------------------------
(* put and put_delta.  Phase 1 asks the dedup index before the store is     *)
(* locked.                                                                  *)

Lookup(t) ==
    /\ pc[t] = "lookup"
    /\ pc' = [pc EXCEPT ![t] = IF IndexHas(item[t].hash) THEN "insert" ELSE "append"]
    /\ UNCHANGED <<disk_vars, item, batch, batchId, frames, reply, bases, owed,
                   ghost_vars>>

(* Mistakes: the id is read but not advanced; the buffer is drained before  *)
(* the entry that fills it is added; only deltas are drained.               *)
DrainAs(t, id, next, entries, kept) ==
    /\ nextId <= MaxPack
    /\ nextId' = next
    /\ batchId' = [batchId EXCEPT ![t] = id]
    /\ batch' = [batch EXCEPT ![t] = entries]
    /\ pending' = kept
    /\ pc' = [pc EXCEPT ![t] = "write"]

DrainSameId(t, entries)   == DrainAs(t, nextId, nextId, entries, {})
DrainTooEarly(t, entries) == DrainAs(t, nextId, nextId + 1, pending, {})
DrainDeltas(t, entries)   ==
    LET fulls == {e \in entries : e.base = NoBase}
    IN  DrainAs(t, nextId, nextId + 1, entries \ fulls, fulls)

(* flush_prepare: take an id and the entries, under the lock.               *)
Drain(t, entries) == DrainAs(t, nextId, nextId + 1, entries, {})

TargetReached(entries) == Cardinality(entries) >= PackTarget

(* Phases 2 and 3, under the lock: a pending chunk is not added again; the  *)
(* put that fills the buffer also writes it out.                            *)
AppendPending(t) ==
    LET filled == pending \cup {item[t]} IN
    /\ pc[t] = "append"
    /\ \/ /\ InPending(item[t].hash)
          /\ pc' = [pc EXCEPT ![t] = "insert"]
          /\ UNCHANGED <<pending, nextId, batch, batchId>>
       \/ /\ ~InPending(item[t].hash)
          /\ ~TargetReached(filled)
          /\ pending' = filled
          /\ pc' = [pc EXCEPT ![t] = "insert"]
          /\ UNCHANGED <<nextId, batch, batchId>>
       \/ /\ ~InPending(item[t].hash)
          /\ TargetReached(filled)
          /\ Drain(t, filled)
    /\ UNCHANGED <<disk, packs, index, item, frames, reply, bases, owed,
                   ghost_vars>>

(* flush: the backup's last call, after its last message.                   *)
FlushReturns(t) ==
    /\ promised' = promised \cup owed[t]
    /\ owed' = [owed EXCEPT ![t] = {}]
    /\ bases' = [bases EXCEPT ![t] = {}]

Flush(t) ==
    /\ pc[t] = "ready"
    /\ \/ /\ pending = {}
          /\ FlushReturns(t)
          /\ UNCHANGED <<pending, nextId, batch, batchId, pc, item>>
       \/ /\ pending # {}
          /\ Drain(t, pending)
          /\ item' = [item EXCEPT ![t] = NoEntry]
          /\ UNCHANGED <<bases, owed, promised>>
    /\ UNCHANGED <<disk, packs, index, frames, reply, dropped>>

-----------------------------------------------------------------------------
(* flush_write and what follows it, outside the lock: the pack is written   *)
(* to <id>.tmp, synced, and renamed over <id>.pack.                         *)

(* Mistake: the rename is forgotten. *)
WriteNothing(t) ==
    /\ pc[t] = "write"
    /\ pc' = [pc EXCEPT ![t] = "install"]
    /\ UNCHANGED <<disk_vars, item, batch, batchId, frames, reply, bases, owed,
                   ghost_vars>>

WritePack(t) ==
    /\ pc[t] = "write"
    /\ disk' = [disk EXCEPT ![batchId[t]] = batch[t]]
    /\ pc' = [pc EXCEPT ![t] = "install"]
    /\ UNCHANGED <<packs, pending, nextId, index, item, batch, batchId, frames,
                   reply, bases, owed, ghost_vars>>

(* The error returns through put or flush and ends the writer; the backup   *)
(* fails.  Either nothing reached <id>.pack, or the rename did and syncing  *)
(* the directory failed.                                                    *)
WriteFails(t) ==
    /\ WriteCanFail
    /\ \/ /\ pc[t] = "write"
          /\ dropped' = dropped \cup Hashes(batch[t])
       \/ /\ pc[t] = "install"
          /\ UNCHANGED dropped
    /\ pc' = [pc EXCEPT ![t] = "ready"]
    /\ item' = [item EXCEPT ![t] = NoEntry]
    /\ batch' = [batch EXCEPT ![t] = {}]
    /\ owed' = [owed EXCEPT ![t] = {}]
    /\ bases' = [bases EXCEPT ![t] = {}]
    /\ UNCHANGED <<disk_vars, batchId, frames, reply, promised>>

(* The lock is taken again and the pack's metadata recorded; a put goes on  *)
(* to the writer's index.insert, a flush returns Ok.                        *)
Install(t) ==
    /\ pc[t] = "install"
    /\ packs' = [packs EXCEPT ![batchId[t]] = batch[t]]
    /\ batch' = [batch EXCEPT ![t] = {}]
    /\ \/ /\ item[t] = NoEntry
          /\ FlushReturns(t)
          /\ pc' = [pc EXCEPT ![t] = "ready"]
       \/ /\ item[t] # NoEntry
          /\ pc' = [pc EXCEPT ![t] = "insert"]
          /\ UNCHANGED <<bases, owed, promised>>
    /\ UNCHANGED <<disk, pending, nextId, index, item, batchId, frames, reply,
                   dropped>>

(* The writer inserts the location put returned: that of the index hit, or  *)
(* a placeholder with the next pack id and no offset.                       *)
InsertIndex(t) ==
    LET c == item[t].hash IN
    /\ pc[t] = "insert"
    /\ index' = [index EXCEPT ![c] = IF @ = "absent" THEN "placeholder" ELSE @]
    /\ owed' = [owed EXCEPT ![t] = @ \cup {c}]
    /\ pc' = [pc EXCEPT ![t] = "sign"]
    /\ UNCHANGED <<disk, packs, pending, nextId, item, batch, batchId, frames,
                   reply, bases, ghost_vars>>

(* put_signature: only a pending entry can be given its signature; the      *)
(* writer ignores the error otherwise.                                      *)
PutSignature(t) ==
    LET mine == {e \in pending : e.hash = item[t].hash} IN
    /\ pc[t] = "sign"
    /\ pending' = (pending \ mine) \cup {Signed(e) : e \in mine}
    /\ item' = [item EXCEPT ![t] = NoEntry]
    /\ pc' = [pc EXCEPT ![t] = "ready"]
    /\ UNCHANGED <<disk, packs, nextId, index, batch, batchId, frames, reply,
                   bases, owed, ghost_vars>>

-----------------------------------------------------------------------------
(* get: the pending buffer, then the dedup index, then a scan of the packs. *)
(* The base of a delta is read by a nested call.                            *)

StartGet(t, c) ==
    /\ pc[t] = "ready"
    /\ item' = [item EXCEPT ![t] = FullEntry(c)]
    /\ frames' = [frames EXCEPT ![t] = <<NewCall(c)>>]
    /\ owed' = [owed EXCEPT ![t] = promised]
    /\ pc' = [pc EXCEPT ![t] = "get"]
    /\ UNCHANGED <<disk_vars, batch, batchId, reply, bases, ghost_vars>>

Top(t) == Head(frames[t])

ReplaceTop(t, f) == frames' = [frames EXCEPT ![t] = <<f>> \o Tail(@)]

Returns(t, r) ==
    /\ reply' = [reply EXCEPT ![t] = r]
    /\ frames' = [frames EXCEPT ![t] = Tail(@)]

(* Mistake: an index miss is the call's answer. *)
GiveUpAtOnce(t) == Returns(t, "err")

(* A failed read through the index falls through to the scan; a failed read *)
(* after the scan is the call's error.                                      *)
GiveUp(t) ==
    IF Top(t).at = "scan"
    THEN Returns(t, "err")
    ELSE /\ ReplaceTop(t, Call(Top(t).hash, "scan", "none"))
         /\ reply' = [reply EXCEPT ![t] = "none"]

(* A pending entry's data is returned as it is, a delta's included.         *)
GetPending(t) ==
    /\ pc[t] = "get"
    /\ frames[t] # <<>>
    /\ Top(t).at = "pending"
    /\ \/ /\ Len(frames[t]) - 1 > MaxDepth
          /\ Returns(t, "err")
       \/ /\ Len(frames[t]) - 1 <= MaxDepth
          /\ \E e \in pending :
                /\ e.hash = Top(t).hash
                /\ Returns(t, IF e.base = NoBase THEN "content" ELSE "raw")
       \/ /\ Len(frames[t]) - 1 <= MaxDepth
          /\ ~InPending(Top(t).hash)
          /\ ReplaceTop(t, Call(Top(t).hash, "index", "none"))
          /\ UNCHANGED reply
    /\ UNCHANGED <<disk_vars, pc, item, batch, batchId, bases, owed, ghost_vars>>

(* The entry metadata comes from `packs`, the bytes from the pack file.     *)
ReadEntry(t, p, e) ==
    IF e \notin disk[p] THEN GiveUp(t)
    ELSE IF e.base = NoBase THEN Returns(t, "content")
    ELSE /\ frames' = [frames EXCEPT ![t] =
                <<NewCall(e.base), Call(Top(t).hash, Top(t).at, e.over)>> \o Tail(@)]
         /\ UNCHANGED reply

GetStored(t) ==
    LET h == Top(t).hash IN
    /\ pc[t] = "get"
    /\ frames[t] # <<>>
    /\ Top(t).at # "pending"
    /\ Top(t).over = "none"
    /\ \/ /\ Top(t).at = "scan" \/ index[h] = "located"
          /\ \E p \in PackId : \E e \in packs[p] : e.hash = h /\ ReadEntry(t, p, e)
       \/ /\ \/ Top(t).at = "index" /\ index[h] # "located"
             \/ \A p \in PackId : h \notin Hashes(packs[p])
          /\ GiveUp(t)
    /\ UNCHANGED <<disk_vars, pc, item, batch, batchId, bases, owed, ghost_vars>>

(* Back from the base: the delta decodes to the chunk only over the bytes   *)
(* it was encoded over, and the checksum rejects anything else.  Two deltas *)
(* of one base are both "raw" and need not be the same bytes.               *)
GetResume(t) ==
    /\ pc[t] = "get"
    /\ reply[t] # "none"
    /\ frames[t] # <<>>
    /\ \/ reply[t] = Top(t).over /\ Returns(t, "content")
       \/ reply[t] # "content" /\ GiveUp(t)
       \/ reply[t] # Top(t).over /\ GiveUp(t)
    /\ UNCHANGED <<disk_vars, pc, item, batch, batchId, bases, owed, ghost_vars>>

FinishGet(t) ==
    /\ pc[t] = "get"
    /\ frames[t] = <<>>
    /\ item' = [item EXCEPT ![t] = NoEntry]
    /\ reply' = [reply EXCEPT ![t] = "none"]
    /\ owed' = [owed EXCEPT ![t] = {}]
    /\ pc' = [pc EXCEPT ![t] = "ready"]
    /\ UNCHANGED <<disk_vars, batch, batchId, frames, bases, ghost_vars>>

-----------------------------------------------------------------------------
(* The process exits or is killed at any point and the store is opened      *)
(* again: everything in memory is gone and is rebuilt from the pack files.  *)

Reopen ==
    /\ packs' = disk
    /\ pending' = {}
    /\ nextId' \in OpensAt(disk)
    /\ index' = IndexOf(disk)
    /\ pc' = [t \in Thread |-> "ready"]
    /\ item' = [t \in Thread |-> NoEntry]
    /\ batch' = [t \in Thread |-> {}]
    /\ batchId' = [t \in Thread |-> 0]
    /\ frames' = [t \in Thread |-> <<>>]
    /\ reply' = [t \in Thread |-> "none"]
    /\ bases' = [t \in Thread |-> {}]
    /\ owed' = [t \in Thread |-> {}]
    /\ dropped' = {}
    /\ UNCHANGED <<disk, promised>>

Get(t) == GetPending(t) \/ GetStored(t) \/ GetResume(t)

WriterStep(t) ==
    \/ \E c \in Chunk : Skip(t, c) \/ StartStore(t, c)
    \/ \E c \in Chunk : \E b \in bases[t] : StartNearDup(t, c, b)
    \/ EncodeDelta(t) \/ Lookup(t) \/ AppendPending(t) \/ Flush(t)
    \/ WritePack(t) \/ WriteFails(t) \/ Install(t)
    \/ InsertIndex(t) \/ PutSignature(t) \/ Get(t)

ReaderStep(t) ==
    \/ \E c \in Chunk : StartGet(t, c)
    \/ FinishGet(t) \/ Get(t)

Next ==
    \/ \E t \in Writers : WriterStep(t)
    \/ \E t \in Readers : ReaderStep(t)
    \/ Reopen

Spec == Init /\ [][Next]_vars

-----------------------------------------------------------------------------
(* Properties.                                                             *)

(* The values the state may take; a thread between the steps of a call has *)
(* the entry the call is about.                                            *)
TypeOK ==
    /\ disk \in [PackId -> SUBSET Entry]
    /\ packs \in [PackId -> SUBSET Entry]
    /\ pending \in SUBSET Entry
    /\ nextId \in 0 .. (MaxPack + 1)
    /\ index \in [Chunk -> {"absent", "placeholder", "located"}]
    /\ pc \in [Thread -> {"ready", "get", "lookup", "append", "write",
                         "install", "insert", "sign"}]
    /\ item \in [Thread -> Entry \cup {NoEntry}]
    /\ \A t \in Thread :
          pc[t] \in {"get", "lookup", "append", "insert", "sign"} => item[t] \in Entry
    /\ batch \in [Thread -> SUBSET Entry]
    /\ batchId \in [Thread -> PackId]
    /\ frames \in [Thread -> Seq(Frame)]
    /\ reply \in [Thread -> Bytes \cup {"none", "err"}]
    /\ bases \in [Thread -> SUBSET Chunk]
    /\ owed \in [Thread -> SUBSET Chunk]
    /\ promised \in SUBSET Chunk
    /\ dropped \in SUBSET Chunk

(* put asks the index and only then locks the store: two threads storing   *)
(* one chunk still never put it into the buffer, or into a pack, twice.    *)
PendingOnce ==
    \A buffer \in {pending} \cup {batch[t] : t \in Thread} \cup {disk[p] : p \in PackId} :
        \A e, f \in buffer : e.hash = f.hash => e = f

(* What the process believes a pack file holds is what the file holds, so  *)
(* a read through the loaded metadata never finds other bytes.             *)
PacksOnDisk ==
    \A p \in PackId : packs[p] \subseteq disk[p]

(* The dedup index makes later backups skip a chunk.  Whenever it knows    *)
(* one, the chunk is pending, in a batch being written, or on disk, unless *)
(* the write of its batch failed.                                          *)
IndexedIsStored ==
    \A c \in Chunk :
        IndexHas(c) =>
            c \in Hashes(pending) \cup InFlight \cup OnDisk \cup dropped

(* Writing a pack never replaces a pack file: ids are handed out once, also *)
(* by threads that flush at the same time and across crashes.              *)
NoOverwrite ==
    [][\A p \in PackId : disk[p] # {} => disk'[p] = disk[p]]_vars

(* The final flush of a backup returned Ok, its manifest is written: from  *)
(* then on every chunk of the backup is in a pack file, whatever the other *)
(* threads do and however often the process dies.                          *)
PromiseKept == promised \subseteq OnDisk

(* Every chunk is written once: a writer that stored a chunk finds it      *)
(* again, wherever it is on its way to the disk.                           *)
StoredOnce ==
    \A c \in Chunk :
        LET inPacks   == {p \in PackId : c \in Hashes(disk[p])}
            inPending == c \in Hashes(pending)
            inFlight  == c \in InFlight
        IN  /\ Cardinality(inPacks) <= 1
            /\ inPending => inPacks = {} /\ ~inFlight
            /\ inFlight => inPacks = {}

(* A delta on disk has its base on disk, whenever the process may die.     *)
DeltaBaseStored ==
    \A p \in PackId : \A e \in disk[p] :
        e.base # NoBase => e.base \in OnDisk

(* Following the bases of stored deltas ends: no set of chunks is such     *)
(* that each has an entry over another one of them, so the depth limit of  *)
(* get_inner ("possible cycle") is never met because of a cycle.           *)
NoDeltaCycle ==
    LET Stored == (UNION {disk[p] : p \in PackId}) \cup pending
    IN  \A S \in SUBSET Chunk \ {{}} :
            \E c \in S : \A e \in Stored : e.hash = c => e.base \notin S

(* A restore that asks for a chunk of a finished backup gets its bytes,    *)
(* also while a backup drains, writes and installs packs under it.         *)
RestoreCorrect ==
    \A t \in Readers :
        /\ pc[t] = "get"
        /\ frames[t] = <<>>
        /\ item[t].hash \in owed[t]
        => reply[t] = "content"

(* What get returns was checked against the chunk's checksum: it is never  *)
(* the bytes of a delta.                                                   *)
GetReturnsContent ==
    \A t \in Thread : pc[t] = "get" /\ frames[t] = <<>> => reply[t] # "raw"

(* A delta is encoded over the bytes its base is restored to, so that it   *)
(* can be decoded again.                                                   *)
DeltasDecode ==
    \A p \in PackId : \A e \in disk[p] : e.over = "content"

(* A stored chunk has its similarity signature in the pack.                *)
SignaturesPersisted ==
    \A p \in PackId : \A e \in disk[p] : e.signed

-----------------------------------------------------------------------------
(* What the trait asks of a store, with what the pack files hold as its    *)
(* stable storage.                                                         *)
Durable == INSTANCE ContentStore WITH stored <- OnDisk

(* Every step of every thread, and every restart, is one the trait allows: *)
(* it only adds chunks to the pack files, and a flush that returns Ok adds *)
(* its backup's chunks to what has been promised only if they are there.   *)
ImplementsContentStore == Durable!Spec

=============================================================================
