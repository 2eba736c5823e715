---------------------------- MODULE LocalStoreInv ----------------------------
(* The inductive invariants behind the safety properties of LocalStore.     *)
EXTENDS LocalStore

(* File names sort like the ids they spell: true of ids of one digit, and   *)
(* not when "10.pack" stands beside "9.pack".                               *)
OrderedNames == \A p, q \in PackId : p < q <=> <<p, q>> \in NameOrder

Writing(t) == pc[t] \in {"write", "install"}

(* A pack id that was not handed out in this session has no file.           *)
FreshIds == \A p \in PackId : p >= nextId => disk[p] = {}

(* The ids of packs being written were handed out, each to one thread; the  *)
(* file of such a pack is absent until it is written, and then holds the    *)
(* batch the thread goes on to install.                                     *)
BatchIds ==
    /\ \A t \in Thread : Writing(t) => batchId[t] < nextId
    /\ \A t, u \in Thread :
          Writing(t) /\ Writing(u) /\ t # u => batchId[t] # batchId[u]
    /\ \A t \in Thread : pc[t] = "write" => disk[batchId[t]] = {}
    /\ \A t \in Thread : pc[t] = "install" => disk[batchId[t]] = batch[t]

(* Pack files are written under fresh ids and loaded as they were written.  *)
PackInv == TypeOK /\ FreshIds /\ BatchIds /\ PacksOnDisk

Stored == Hashes(pending) \cup InFlight \cup OnDisk \cup dropped

(* A put that writes a pack out writes its own entry with it, and a put     *)
(* that is about to report its chunk to the index has stored it.            *)
PutStores ==
    /\ \A t \in Thread : Writing(t) /\ item[t] # NoEntry => item[t] \in batch[t]
    /\ \A t \in Thread : pc[t] = "insert" => item[t].hash \in Stored

IndexInv == PackInv /\ PutStores /\ IndexedIsStored

(* With one writer and no failed write nothing is pending while a pack is   *)
(* written, what a backup counts as stored is indexed, and readers never    *)
(* hold a batch.                                                            *)
SingleWriter == \A t, u \in Writers : t = u

BackupInv ==
    /\ IndexInv
    /\ \A t \in Readers : pc[t] \in {"ready", "get"}
    /\ \A t \in Writers : Writing(t) => pending = {}
    /\ \A t \in Writers : \A c \in owed[t] : IndexHas(c)
    /\ dropped = {}
    /\ PromiseKept

-----------------------------------------------------------------------------
(* Deltas and their bases.                                                  *)

(* A pack, or what is to become one, holds a chunk once.                    *)
Once(buffer) == \A e, f \in buffer : e.hash = f.hash => e = f

(* Every entry that is, or is about to be, somewhere in the store.          *)
Entries ==
    (UNION {disk[p] : p \in PackId}) \cup pending
        \cup (UNION {batch[t] : t \in Thread})
        \cup {item[t] : t \in {u \in Writers : pc[u] = "append"}}

(* Some chunk of S has no entry over another one of S.                      *)
HasEnd(S, entries) == \E c \in S : \A e \in entries : e.hash = c => e.base \notin S
Acyclic(entries)   == \A S \in SUBSET Chunk \ {{}} : HasEnd(S, entries)

Located     == {c \in Chunk : index[c] = "located"}
Placeholder == {c \in Chunk : index[c] = "placeholder"}

(* A base is a chunk this session has stored and indexed, so it is found at *)
(* a placeholder location.                                                  *)
OverPlaceholder(e) == e.base = NoBase \/ e.base \in Placeholder \ {e.hash}

(* A writer stores only chunks that no pack had when the store was opened,  *)
(* and over chunks its backup has already stored.                           *)
Storing(t)   == pc[t] # "ready" /\ item[t] # NoEntry
StoresNew(t) == Storing(t) => item[t].hash \notin Located /\ OverPlaceholder(item[t])

(* A chunk of a backup's similarity index is stored, or just being stored.  *)
BasesStored(t) ==
    \A b \in bases[t] :
        \/ b \in Placeholder
        \/ Storing(t) /\ pc[t] # "sign" /\ b = item[t].hash

WriterBases ==
    /\ \A t \in Readers : pc[t] \in {"ready", "get"}
    /\ \A t \in Writers : StoresNew(t) /\ BasesStored(t)

(* Entries of chunks that were found when the store was opened are among    *)
(* those found; all others are over chunks of this session, in the order in *)
(* which the chunks entered the index.                                      *)
DeltaInv ==
    /\ TypeOK
    /\ WriterBases
    /\ \A e \in Entries : e.hash \in Located \/ OverPlaceholder(e)
    /\ \A S \in SUBSET Located \ {{}} : HasEnd(S, Entries)
    /\ \A S \in SUBSET Placeholder \ {{}} : HasEnd(S, Entries)

(* With one writer and no failed write, a chunk that is somewhere in the    *)
(* store is indexed or just being stored, and every entry has its base      *)
(* where the entry is, or on disk.                                          *)
InPacks(c) == {p \in PackId : c \in Hashes(disk[p])}

AboutToIndex(t, c) ==
    pc[t] \in {"write", "install", "insert"} /\ item[t] # NoEntry /\ item[t].hash = c

HasBase(e, places) == e.base # NoBase => e.base \in places

StoredIsIndexed ==
    \A c \in Hashes(pending) \cup InFlight \cup OnDisk :
        IndexHas(c) \/ \E t \in Writers : AboutToIndex(t, c)

Apart ==
    /\ \A c \in Chunk : \A p, q \in InPacks(c) : p = q
    /\ (Hashes(pending) \cup InFlight) \cap OnDisk = {}

BasesNear ==
    /\ \A e \in pending : HasBase(e, Hashes(pending) \cup OnDisk)
    /\ \A t \in Writers : pc[t] = "write" =>
          \A e \in batch[t] : HasBase(e, Hashes(batch[t]) \cup OnDisk)
    /\ DeltaBaseStored

SingleInv ==
    /\ BackupInv
    /\ WriterBases
    /\ \A t \in Writers : pc[t] = "append" => ~IndexHas(item[t].hash)
    /\ StoredIsIndexed
    /\ Apart
    /\ BasesNear

-----------------------------------------------------------------------------
(* What a restore relies on, with one writer, no failed write and no chunk  *)
(* evicted from the similarity index.                                       *)

(* A pack file whose metadata is not loaded is being installed.             *)
AllLoaded ==
    \A p \in PackId : packs[p] # disk[p] =>
        \E t \in Writers : pc[t] = "install" /\ batchId[t] = p

Loaded == UNION {packs[p] : p \in PackId}

(* Every entry that is, or is about to be, somewhere in the store holds     *)
(* what its chunk can be restored from: the chunk, or a delta over the      *)
(* chunk's own bytes of a base that is stored in full.                      *)
About(t)  == pc[t] \in {"get", "lookup", "append"} /\ item[t] # NoEntry
Kept      == (UNION {disk[p] : p \in PackId}) \cup pending
                 \cup (UNION {batch[t] : t \in {u \in Writers : pc[u] = "write"}})
Upcoming  == {item[t] : t \in {u \in Writers : About(u)}}
AllKept   == Kept \cup Upcoming

InFullOnly(c, entries) == \A e \in entries : e.hash = c => e.base = NoBase

Decodable(entries) ==
    \A e \in entries :
        /\ e.over = "content"
        /\ e.base # NoBase => InFullOnly(e.base, entries)

(* What a writer stores is new, and what may become a base is in full only. *)
UniqueInFull ==
    \A t \in Writers : \A b \in bases[t] : InFullOnly(b, AllKept)

(* A thread that is not in a get has no call and no answer left.            *)
NoCallLeft ==
    \A t \in Thread : pc[t] # "get" => frames[t] = <<>> /\ reply[t] = "none"

(* A writer reads only what may become a base.                              *)
WriterReads ==
    \A t \in Writers : pc[t] = "get" =>
        /\ reply[t] # "raw"
        /\ \A i \in DOMAIN frames[t] : frames[t][i].hash \in bases[t]

(* The base of a loaded entry is loaded.                                    *)
BasesLoaded == \A e \in Loaded : HasBase(e, Hashes(Loaded))

IsBase(c) == \E e \in Loaded : e.base = c

(* The get of a promised chunk is about to read it, is reading its base, is *)
(* back from the base, or has the chunk.                                    *)
ReaderGets(t) ==
    LET c == item[t].hash IN
    \/ frames[t] = <<>> /\ reply[t] = "content"
    \/ /\ reply[t] = "none"
       /\ \E f \in Frame : f.hash = c /\ f.over = "none" /\ frames[t] = <<f>>
    \/ /\ reply[t] = "none"
       /\ \E g, f \in Frame :
             /\ f.hash = c /\ f.over = "content" /\ f.at # "pending"
             /\ g.over = "none" /\ IsBase(g.hash)
             /\ frames[t] = <<g, f>>
    \/ /\ reply[t] = "content"
       /\ \E f \in Frame : /\ f.hash = c /\ f.over = "content" /\ f.at # "pending"
                           /\ frames[t] = <<f>>

ReaderInv ==
    \A t \in Readers : pc[t] = "get" =>
        owed[t] \subseteq promised /\ (item[t].hash \in owed[t] => ReaderGets(t))

RestoreInv ==
    /\ SingleInv
    /\ AllLoaded
    /\ promised \subseteq Hashes(Loaded)
    /\ BasesLoaded
    /\ Decodable(AllKept)
    /\ UniqueInFull
    /\ NoCallLeft
    /\ WriterReads
    /\ ReaderInv

(* The pack files a store is opened on were written by a store like this.   *)
PacksOnce    == \A p \in PackId : Once(InitDisk[p])
PacksAcyclic == Acyclic(UNION {InitDisk[p] : p \in PackId})
PacksApart   ==
    \A p, q \in PackId : Hashes(InitDisk[p]) \cap Hashes(InitDisk[q]) # {} => p = q
PacksHaveBases ==
    \A p \in PackId : \A e \in InitDisk[p] :
        e.base # NoBase => \E q \in PackId : e.base \in Hashes(InitDisk[q])
PacksDecode == Decodable(UNION {InitDisk[p] : p \in PackId})

=============================================================================
