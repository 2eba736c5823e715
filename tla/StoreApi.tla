------------------------------- MODULE StoreApi -------------------------------
(***************************************************************************)
(* The Store API (store/store_api.rs): threads of one process back up      *)
(* files, restore, verify, list and delete them, while users edit the      *)
(* files and the process may die.  For every file that was backed up there *)
(* is a manifest with the file's size and time and the hashes of its       *)
(* chunks; the chunks are in a content store behind the pipeline of the    *)
(* backup.  Of these two there is what all calls share: the dedup index    *)
(* and the buffer of the store, which a put that fills it or a flush       *)
(* drains and then writes without the lock.                                *)
(*                                                                         *)
(* A file is the sequence of its chunks, and its size their number.        *)
(***************************************************************************)
EXTENDS Naturals, Sequences

CONSTANTS
    Thread,
    Path,
    Name,
    NameOf,         \* manifest_name: the file name of a path
    Chunk,
    Contents,       \* what users write into each file
    First,          \* what each file holds when the process starts
    Damage,         \* the sets of chunks the disk may have damaged
    None,           \* no manifest, no path, no name
    Torn,           \* part of a manifest
    MaxSecond,      \* bound: the last second of the clock
    MaxEdits,       \* bound: edits of all files
    StoreCanFail    \* whether reading, storing and saving may return an error

(* ManifestEntry: size, modified (in seconds) and chunk_hashes.            *)
Entry == [size : Nat, modified : Nat, chunks : Seq(Chunk)]

ASSUME ApiNames  == NameOf \in [Path -> Name]
ASSUME ApiFiles  == /\ Contents \in [Path -> SUBSET Seq(Chunk)]
                    /\ \A p \in Path : First[p] \in Contents[p]
                    /\ Damage \subseteq SUBSET Chunk
ASSUME ApiMarks  == /\ None \notin Path \cup Name \cup Entry \cup Seq(Chunk) \cup {Torn}
                    /\ Torn \notin Entry \cup Seq(Chunk)
ASSUME ApiBounds == MaxSecond \in Nat /\ MaxEdits \in Nat /\ StoreCanFail \in BOOLEAN

VARIABLES
    backend,    \* StoreConfig: "local" or "cloud"
    damaged,    \* chunks whose stored bytes fail their checksum
    source,     \* the users' files: content and second of the last edit
    clock,      \* the second it is
    edits,      \* how many edits there were
    stored,     \* the chunks the store has written
    pending,    \* pending_chunks: those in its buffer
    batch,      \* those the call's writer has drained and not yet written
    known,      \* those the dedup index has
    lost,       \* history: those in a batch that was not written, nor again
    manifest,   \* manifests/<name>.manifest
    pc,         \* what a thread does next
    call,       \* the local variables of the call a thread is in
    versions,   \* history: the <<second, content>> a file has had
    blind,      \* history: files with an edit that sizes and times do not show
    stable,     \* history: names asked for that have not changed since
    acked,      \* history: names whose last change was a backup that was Ok
    broken      \* history: names whose last write was cut short or overlapped

store == <<stored, pending, batch, known, lost>>
world == <<source, clock, edits, versions, blind>>
marks == <<stable, acked, broken>>
vars  == <<backend, damaged, world, store, manifest, pc, call, marks>>

NoEntry == [size |-> 0, modified |-> 0, chunks |-> <<>>]

Idle ==
    [op |-> "none",
     path |-> None,                 \* backup: the file
     name |-> None,                 \* backup, delete: its manifest
     got |-> <<>>,                  \* backup: the chunks read so far
     entry |-> NoEntry,             \* backup: the entry compared, or to save
     linked |-> FALSE,              \* backup: the file written has its name
     todo |-> {},                   \* restore, verify, list: names to visit
     errors |-> FALSE,              \* verify: the report has errors
     out |-> [n \in Name |-> None]] \* restore: the contents of the files it wrote

ChunksOf(s)   == {s[i] : i \in DOMAIN s}
Readable(e)   == ChunksOf(e.chunks) \subseteq pending \cup (stored \ damaged)
Listed        == {n \in Name : manifest[n] # None}
Parses(n)     == manifest[n] \notin {None, Torn}
Writing(t, n) == pc[t] = "write" /\ call[t].name = n /\ call[t].linked

(* What the store has taken out of its buffer, and all it was given.       *)
Unwritten     == UNION {batch[t] : t \in Thread}
Settled       == stored \cup Unwritten \cup lost
Given         == pending \cup Settled

Init ==
    /\ backend \in {"local", "cloud"}
    /\ damaged \in Damage
    /\ source = [p \in Path |-> [content |-> First[p], second |-> 0]]
    /\ clock = 0
    /\ edits = 0
    /\ stored = {} /\ pending = {} /\ known = {} /\ lost = {}
    /\ batch = [t \in Thread |-> {}]
    /\ manifest = [n \in Name |-> None]
    /\ pc = [t \in Thread |-> "idle"]
    /\ call = [t \in Thread |-> Idle]
    /\ versions = [p \in Path |-> {<<0, source[p].content>>}]
    /\ blind = {}
    /\ stable = [t \in Thread |-> {}]
    /\ acked = {}
    /\ broken = {}

Goes(t, step) == pc' = [pc EXCEPT ![t] = step]

(* The call returns, with Ok or with an error.                             *)
Returns(t) ==
    /\ Goes(t, "idle")
    /\ call' = [call EXCEPT ![t] = Idle]

SetManifest(n, m) ==
    /\ manifest' = [manifest EXCEPT ![n] = m]
    /\ stable' = [t \in Thread |-> stable[t] \ {n}]

-----------------------------------------------------------------------------
(* backup.                                                                 *)

StartBackup(t, p, force) ==
    /\ pc[t] = "idle"
    /\ Goes(t, IF force THEN "read" ELSE "check")
    /\ call' = [call EXCEPT ![t] = [Idle EXCEPT !.op = "backup", !.path = p,
                                                !.name = NameOf[p]]]
    /\ UNCHANGED <<backend, damaged, world, store, manifest, marks>>

(* is_file_unchanged: a manifest that does not parse is an error, also for *)
(* the backup that would replace it.                                       *)
CheckManifest(t) ==
    LET m == manifest[call[t].name] IN
    /\ pc[t] = "check"
    /\ \/ m = None /\ Goes(t, "read") /\ UNCHANGED call
       \/ m = Torn /\ Returns(t)
       \/ /\ m \notin {None, Torn}
          /\ Goes(t, "compare")
          /\ call' = [call EXCEPT ![t].entry = m]
    /\ UNCHANGED <<backend, damaged, world, store, manifest, marks>>

(* Mistake: only the times are compared. *)
SameTime(e, f) == e.modified = f.second

Unchanged(e, f) == e.size = Len(f.content) /\ e.modified = f.second

CompareSource(t) ==
    /\ pc[t] = "compare"
    /\ IF Unchanged(call[t].entry, source[call[t].path])
       THEN Goes(t, "ok") /\ UNCHANGED call
       ELSE Goes(t, "read") /\ call' = [call EXCEPT ![t].entry = NoEntry]
    /\ UNCHANGED <<backend, damaged, world, store, manifest, marks>>

Drains(t, chunks) ==
    /\ batch' = [batch EXCEPT ![t] = chunks]
    /\ pending' = {}

(* backup_file streams the file as it is while it reads.  A chunk that is  *)
(* indexed or in the buffer is not stored again; another may fill the      *)
(* buffer, and is indexed when the put that did returns.                   *)
ReadChunk(t) ==
    LET content == source[call[t].path].content
        c       == content[Len(call[t].got) + 1]
    IN
    /\ pc[t] = "read" /\ batch[t] = {}
    /\ Len(call[t].got) < Len(content)
    /\ call' = [call EXCEPT ![t].got = Append(@, c)]
    /\ \/ c \in known \cup pending /\ UNCHANGED store
       \/ /\ c \notin known \cup pending
          /\ \/ /\ pending' = pending \cup {c} /\ known' = known \cup {c}
                /\ UNCHANGED batch
             \/ /\ Drains(t, pending \cup {c})
                /\ UNCHANGED known
          /\ UNCHANGED <<stored, lost>>
    /\ UNCHANGED <<backend, damaged, world, manifest, pc, marks>>

(* Mistake: the manifest is saved without waiting for the flush. *)
NotFlushed(t) ==
    /\ pc[t] = "read"
    /\ Len(call[t].got) >= Len(source[call[t].path].content)
    /\ Goes(t, "stat")
    /\ UNCHANGED <<backend, damaged, world, store, manifest, call, marks>>

(* The end of the file: with nothing in the buffer flush has nothing to do *)
(* or to wait for.  So does the writer of a call that left it.             *)
Flush(t) ==
    /\ batch[t] = {}
    /\ \/ pc[t] = "read" /\ Len(call[t].got) >= Len(source[call[t].path].content)
       \/ pc[t] = "left"
    /\ \/ /\ pending = {}
          /\ Goes(t, IF pc[t] = "left" THEN "idle" ELSE "stat")
          /\ UNCHANGED store
       \/ /\ pending # {}
          /\ Drains(t, pending)
          /\ Goes(t, IF pc[t] = "left" THEN "left" ELSE "flush")
          /\ UNCHANGED <<stored, known, lost>>
    /\ UNCHANGED <<backend, damaged, world, manifest, call, marks>>

(* Names with a chunk that can no longer be read are not as they were.     *)
Spoils(chunks) ==
    LET spoilt == {n \in Name : Parses(n) /\ ChunksOf(manifest[n].chunks) \cap chunks # {}}
    IN  stable' = [u \in Thread |-> stable[u] \ spoilt]

(* flush_write, of the put or the flush that drained the buffer.           *)
WriteBatch(t) ==
    /\ batch[t] # {}
    /\ stored' = stored \cup batch[t]
    /\ known' = known \cup batch[t]
    /\ lost' = lost \ batch[t]
    /\ batch' = [batch EXCEPT ![t] = {}]
    /\ pc' = [pc EXCEPT ![t] = IF @ = "flush" THEN "stat" ELSE @]
    /\ Spoils(batch[t] \cap damaged)
    /\ UNCHANGED <<backend, damaged, world, pending, manifest, call, acked, broken>>

(* The call returns the error.  Its chunks may have been written, or are   *)
(* gone from the buffer and still in the index.                            *)
WriteBatchFails(t) ==
    /\ StoreCanFail
    /\ batch[t] # {}
    /\ \E kept \in {{}, batch[t]} :
          /\ stored' = stored \cup kept
          /\ known' = known \cup kept
          /\ lost' = (lost \cup batch[t]) \ stored'
    /\ batch' = [batch EXCEPT ![t] = {}]
    /\ Returns(t)
    /\ Spoils(batch[t])
    /\ UNCHANGED <<backend, damaged, world, pending, manifest, acked, broken>>

(* The file cannot be read on: the call returns while its writer goes on.  *)
LeaveWriter(t) ==
    /\ StoreCanFail
    /\ pc[t] = "read"
    /\ Goes(t, "left")
    /\ call' = [call EXCEPT ![t] = Idle]
    /\ UNCHANGED <<backend, damaged, world, store, manifest, marks>>

(* Mistake: the entry has the time of the backup. *)
StatNow(t) ==
    LET f == source[call[t].path] IN
    /\ pc[t] = "stat"
    /\ call' = [call EXCEPT ![t].entry =
           [size |-> Len(f.content), modified |-> clock, chunks |-> call[t].got]]
    /\ Goes(t, "save")
    /\ UNCHANGED <<backend, damaged, world, store, manifest, marks>>

(* The entry's size and time are those the file has after it was read.     *)
StatSource(t) ==
    LET f == source[call[t].path] IN
    /\ pc[t] = "stat"
    /\ call' = [call EXCEPT ![t].entry =
           [size |-> Len(f.content), modified |-> f.second, chunks |-> call[t].got]]
    /\ Goes(t, "save")
    /\ UNCHANGED <<backend, damaged, world, store, manifest, marks>>

(* An object is written whole.                                             *)
PutManifest(t) ==
    LET n == call[t].name IN
    /\ backend = "cloud" /\ pc[t] = "save"
    /\ SetManifest(n, call[t].entry)
    /\ acked' = acked \cup {n}
    /\ Returns(t)
    /\ UNCHANGED <<backend, damaged, world, store, broken>>

(* std::fs::write truncates the file ...                                   *)
OpenManifest(t) ==
    LET n == call[t].name IN
    /\ backend = "local" /\ pc[t] = "save"
    /\ SetManifest(n, Torn)
    /\ broken' = IF \E u \in Thread : Writing(u, n) THEN broken \cup {n} ELSE broken \ {n}
    /\ call' = [call EXCEPT ![t].linked = TRUE]
    /\ Goes(t, "write")
    /\ UNCHANGED <<backend, damaged, world, store, acked>>

(* Mistake: what a single call of write accepted is taken for the whole. *)
WriteSome(t) ==
    LET n == call[t].name IN
    /\ pc[t] = "write"
    /\ call[t].linked
    /\ SetManifest(n, call[t].entry) \/ SetManifest(n, Torn)
    /\ acked' = acked \cup {n}
    /\ Returns(t)
    /\ UNCHANGED <<backend, damaged, world, store, broken>>

(* ... and writes it.  When two threads write one file, the lengths decide *)
(* whether the later text covers the earlier one; a deleted file has no    *)
(* name any more.                                                          *)
WriteManifest(t) ==
    LET n == call[t].name IN
    /\ pc[t] = "write"
    /\ \/ /\ ~call[t].linked
          /\ UNCHANGED <<manifest, stable, acked>>
       \/ /\ call[t].linked
          /\ SetManifest(n, call[t].entry) \/ (n \in broken /\ SetManifest(n, Torn))
          /\ acked' = acked \cup {n}
    /\ Returns(t)
    /\ UNCHANGED <<backend, damaged, world, store, broken>>

(* Any other step may fail: what was read or stored has no manifest.       *)
BackupFails(t) ==
    /\ StoreCanFail
    /\ pc[t] \in {"check", "compare", "read", "stat", "save"} /\ batch[t] = {}
    /\ Returns(t)
    /\ UNCHANGED <<backend, damaged, world, store, manifest, marks>>

(* An object may be there although writing it returned an error ...        *)
PutFails(t) ==
    /\ StoreCanFail
    /\ backend = "cloud" /\ pc[t] = "save"
    /\ SetManifest(call[t].name, call[t].entry)
    /\ Returns(t)
    /\ UNCHANGED <<backend, damaged, world, store, acked, broken>>

(* ... and part of a file.                                                 *)
WriteFails(t) ==
    LET n == call[t].name IN
    /\ StoreCanFail
    /\ pc[t] = "write"
    /\ IF call[t].linked
       THEN /\ SetManifest(n, Torn) \/ UNCHANGED <<manifest, stable>>
            /\ broken' = broken \cup {n}
       ELSE UNCHANGED <<manifest, stable, broken>>
    /\ Returns(t)
    /\ UNCHANGED <<backend, damaged, world, store, acked>>

BackupStep(t) ==
    \/ \E p \in Path, force \in BOOLEAN : StartBackup(t, p, force)
    \/ CheckManifest(t) \/ CompareSource(t) \/ ReadChunk(t) \/ Flush(t)
    \/ WriteBatch(t) \/ WriteBatchFails(t) \/ LeaveWriter(t) \/ StatSource(t)
    \/ PutManifest(t) \/ OpenManifest(t) \/ WriteManifest(t)
    \/ BackupFails(t) \/ PutFails(t) \/ WriteFails(t)

-----------------------------------------------------------------------------
(* restore, verify, and list_files with info, which reads the same way:    *)
(* one manifest after another.  A restore that finds none at all is an     *)
(* error.                                                                  *)

StartWalk(t, o, names) ==
    /\ pc[t] = "idle"
    /\ o = "restore" => names # {}
    /\ Goes(t, "walk")
    /\ call' = [call EXCEPT ![t] = [Idle EXCEPT !.op = o, !.todo = names]]
    /\ stable' = [stable EXCEPT ![t] = names]
    /\ UNCHANGED <<backend, damaged, world, store, manifest, acked, broken>>

WalkReturns(t) ==
    /\ Returns(t)
    /\ stable' = [stable EXCEPT ![t] = {}]
    /\ UNCHANGED <<backend, damaged, world, store, manifest, acked, broken>>

WalkOne(t, n) == \E o \in {"restore", "verify"} : StartWalk(t, o, {n})
WalkAll(t)    == \E o \in {"restore", "verify", "list"} : StartWalk(t, o, Listed)

Visits(t, n) == pc[t] = "walk" /\ n \in call[t].todo

(* A manifest that is gone is passed over; verify reports it.              *)
VisitAbsent(t, n) ==
    /\ Visits(t, n)
    /\ manifest[n] = None
    /\ call' = [call EXCEPT ![t].todo = @ \ {n},
                            ![t].errors = @ \/ call[t].op = "verify"]
    /\ UNCHANGED <<backend, damaged, world, store, manifest, pc, marks>>

(* Mistake: a manifest that does not parse is passed over. *)
PassOverTorn(t, n) ==
    /\ Visits(t, n)
    /\ manifest[n] = Torn
    /\ call' = [call EXCEPT ![t].todo = @ \ {n}]
    /\ UNCHANGED <<backend, damaged, world, store, manifest, pc, marks>>

VisitTorn(t, n) ==
    /\ Visits(t, n)
    /\ manifest[n] = Torn
    /\ WalkReturns(t)

(* Mistake: verify looks at the manifest and not at its chunks. *)
VisitUnread(t, n) ==
    /\ Visits(t, n)
    /\ manifest[n] \notin {None, Torn}
    /\ call' = [call EXCEPT ![t].todo = @ \ {n}]
    /\ UNCHANGED <<backend, damaged, world, store, manifest, pc, marks>>

(* restore collects all chunks before it writes the file, and ends at the  *)
(* first it cannot get; verify goes on.  That the file's time is set is    *)
(* nothing to count on: an error of set_file_mtime is dropped.             *)
VisitEntry(t, n) ==
    LET e == manifest[n] IN
    /\ Visits(t, n)
    /\ e \notin {None, Torn}
    /\ \/ /\ call[t].op = "restore" /\ Readable(e)
          /\ call' = [call EXCEPT ![t].todo = @ \ {n}, ![t].out[n] = e.chunks]
       \/ /\ call[t].op = "verify"
          /\ call' = [call EXCEPT ![t].todo = @ \ {n}, ![t].errors = @ \/ ~Readable(e)]
       \/ /\ call[t].op = "list"
          /\ call' = [call EXCEPT ![t].todo = @ \ {n}]
    /\ UNCHANGED <<backend, damaged, world, store, manifest, pc, marks>>

VisitUnreadable(t, n) ==
    /\ Visits(t, n)
    /\ call[t].op = "restore"
    /\ manifest[n] \notin {None, Torn} /\ ~Readable(manifest[n])
    /\ WalkReturns(t)

FinishWalk(t) ==
    /\ pc[t] = "walk"
    /\ call[t].todo = {}
    /\ Goes(t, "ok")
    /\ UNCHANGED <<backend, damaged, world, store, manifest, call, marks>>

WalkFails(t) == StoreCanFail /\ pc[t] = "walk" /\ WalkReturns(t)

WalkStep(t) ==
    \/ WalkAll(t) \/ FinishWalk(t) \/ WalkFails(t)
    \/ \E n \in Name : \/ WalkOne(t, n)
                       \/ VisitAbsent(t, n) \/ VisitTorn(t, n)
                       \/ VisitEntry(t, n) \/ VisitUnreadable(t, n)

-----------------------------------------------------------------------------
(* delete_file.                                                            *)

StartDelete(t, n) ==
    /\ pc[t] = "idle"
    /\ Goes(t, "has")
    /\ call' = [call EXCEPT ![t] = [Idle EXCEPT !.op = "delete", !.name = n]]
    /\ UNCHANGED <<backend, damaged, world, store, manifest, marks>>

HasFile(t) ==
    /\ pc[t] = "has"
    /\ IF manifest[call[t].name] \in {None, Torn}
       THEN Returns(t)
       ELSE Goes(t, "remove") /\ UNCHANGED call
    /\ UNCHANGED <<backend, damaged, world, store, manifest, marks>>

(* The file goes; a thread that is writing it goes on writing.             *)
RemoveManifest(t) ==
    LET n == call[t].name IN
    /\ pc[t] = "remove"
    /\ SetManifest(n, None)
    /\ call' = [u \in Thread |->
                   IF u = t THEN Idle
                   ELSE [call[u] EXCEPT !.linked = @ /\ ~Writing(u, n)]]
    /\ acked' = acked \ {n}
    /\ broken' = broken \ {n}
    /\ Goes(t, "idle")
    /\ UNCHANGED <<backend, damaged, world, store>>

(* An error that deleting an object returns is dropped.                    *)
DeleteFails(t) ==
    /\ StoreCanFail
    /\ pc[t] \in {"has", "remove"}
    /\ Returns(t)
    /\ UNCHANGED <<backend, damaged, world, store, manifest, marks>>

DeleteStep(t) ==
    \/ \E n \in Name : StartDelete(t, n)
    \/ HasFile(t) \/ RemoveManifest(t) \/ DeleteFails(t)

-----------------------------------------------------------------------------
(* The caller takes the result; the process dies; users edit their files.  *)

Return(t) ==
    /\ pc[t] = "ok"
    /\ Returns(t)
    /\ stable' = [stable EXCEPT ![t] = {}]
    /\ UNCHANGED <<backend, damaged, world, store, manifest, acked, broken>>

(* The buffer is gone, and of what was being written some is found when    *)
(* the store is opened again; the index is made from what is there.        *)
Crash ==
    LET cut == {n \in Name : \E t \in Thread : Writing(t, n)} IN
    /\ \E t \in Thread : pc[t] # "idle"
    /\ \E found \in SUBSET (Unwritten \cup lost) :
          /\ stored' = stored \cup found
          /\ known' = stored'
          /\ lost' = (lost \cup Unwritten) \ stored'
    /\ pending' = {}
    /\ batch' = [t \in Thread |-> {}]
    /\ \E torn \in SUBSET cut :
          manifest' = [n \in Name |-> IF n \in torn THEN Torn ELSE manifest[n]]
    /\ broken' = broken \cup cut
    /\ pc' = [t \in Thread |-> "idle"]
    /\ call' = [t \in Thread |-> Idle]
    /\ stable' = [t \in Thread |-> {}]
    /\ UNCHANGED <<backend, damaged, world, acked>>

(* A backup has read some of the file and not yet noted its size and time. *)
BeingRead(p) ==
    \E t \in Thread : /\ call[t].path = p
                      /\ \/ pc[t] \in {"flush", "stat"}
                         \/ pc[t] = "read" /\ call[t].got # <<>>

(* An edit escapes a later comparison if it happens while the file is read *)
(* or gives it the size it had with other content in the same second.      *)
Edit(p, content) ==
    /\ edits < MaxEdits
    /\ edits' = edits + 1
    /\ source[p].content # content
    /\ source' = [source EXCEPT ![p] = [content |-> content, second |-> clock]]
    /\ versions' = [versions EXCEPT ![p] = @ \cup {<<clock, content>>}]
    /\ blind' = IF \/ BeingRead(p)
                   \/ \E v \in versions[p] : /\ v[1] = clock /\ v[2] # content
                                             /\ Len(v[2]) = Len(content)
                THEN blind \cup {p} ELSE blind
    /\ UNCHANGED <<backend, damaged, clock, store, manifest, pc, call, marks>>

Tick ==
    /\ clock < MaxSecond
    /\ clock' = clock + 1
    /\ UNCHANGED <<backend, damaged, source, edits, versions, blind, store,
                   manifest, pc, call, marks>>

Next ==
    \/ \E t \in Thread : BackupStep(t) \/ WalkStep(t) \/ DeleteStep(t) \/ Return(t)
    \/ Crash \/ Tick
    \/ \E p \in Path : \E content \in Contents[p] : Edit(p, content)

Spec == Init /\ [][Next]_vars

-----------------------------------------------------------------------------
(* Properties.                                                             *)

Call == [op : {"none", "backup", "restore", "verify", "list", "delete"},
         path : Path \cup {None}, name : Name \cup {None}, got : Seq(Chunk),
         entry : Entry, linked : BOOLEAN, todo : SUBSET Name, errors : BOOLEAN,
         out : [Name -> Seq(Chunk) \cup {None}]]

Steps == {"idle", "check", "compare", "read", "flush", "left", "stat", "save", "write",
          "walk", "has", "remove", "ok"}

(* What a thread knows at a step of a backup or a delete: a backup that    *)
(* compares has read nothing, and one that saves has an entry for the      *)
(* chunks it read.                                                         *)
Fits(step, c) ==
    /\ step \in {"check", "compare", "read", "flush", "stat", "save", "write"} =>
          c.op = "backup" /\ c.path \in Path /\ c.name = NameOf[c.path]
    /\ step \in {"check", "compare"} => c.got = <<>>
    /\ step \in {"save", "write"} => c.entry.chunks = c.got
    /\ step \in {"has", "remove"} => c.name \in Name

CallsOK ==
    /\ pc \in [Thread -> Steps]
    /\ call \in [Thread -> Call]
    /\ \A t \in Thread : Fits(pc[t], call[t])

WorldOK ==
    /\ source \in [Path -> [content : Seq(Chunk), second : 0 .. MaxSecond]]
    /\ clock \in 0 .. MaxSecond /\ edits \in 0 .. MaxEdits
    /\ versions \in [Path -> SUBSET ((0 .. MaxSecond) \X Seq(Chunk))]
    /\ blind \subseteq Path

StoreOK ==
    /\ backend \in {"local", "cloud"}
    /\ damaged \subseteq Chunk /\ Given \subseteq Chunk /\ known \subseteq Chunk
    /\ batch \in [Thread -> SUBSET Chunk]
    /\ manifest \in [Name -> Entry \cup {None, Torn}]
    /\ stable \in [Thread -> SUBSET Name]
    /\ acked \subseteq Name /\ broken \subseteq Name

(* The values the state may take, between any two steps of any threads.    *)
TypeOK == CallsOK /\ WorldOK /\ StoreOK

(* A manifest names no chunk that still waits in the buffer or never got   *)
(* there: each is in a pack, or in a batch another call is writing or has  *)
(* failed to write, whatever fails and also after a crash.                 *)
ManifestsWritten ==
    \A n \in Name : Parses(n) => ChunksOf(manifest[n].chunks) \subseteq Settled

(* So when calls of one thread follow each other and the store does not    *)
(* fail, every manifest names chunks in packs.                             *)
ManifestsRestorable ==
    \A n \in Name : Parses(n) => ChunksOf(manifest[n].chunks) \subseteq stored

(* e is what the file p was at some time: its content and size with the    *)
(* second of the edit that made it so.                                     *)
IsSnapshot(p, e) ==
    <<e.modified, e.chunks>> \in versions[p] /\ e.size = Len(e.chunks)

Describes(n, e) ==
    \E p \in Path : NameOf[p] = n /\ (p \in blind \/ IsSnapshot(p, e))

(* A manifest describes one version of one file of its name, never a mix   *)
(* of two, unless the file had an edit that size and time do not show.     *)
EntryIsSnapshot ==
    \A n \in Name : Parses(n) => Describes(n, manifest[n])

OnlyOne(p) == \A q \in Path : NameOf[q] = NameOf[p] => q = p

(* A backup that skips the file is right to do so: what the manifest names *)
(* is what the file holds, unless another file has its name or an edit did *)
(* not show.                                                               *)
SkipIsSound ==
    [][\A t \in Thread :
          LET p == call[t].path IN
          pc[t] = "compare" /\ pc'[t] = "ok" /\ p \notin blind /\ OnlyOne(p)
              => call[t].entry.chunks = source[p].content]_vars

(* A file whose backup returned Ok has a manifest until it is deleted or   *)
(* another backup replaces it, unless that was cut short or overlapped.    *)
AckedHasManifest ==
    \A n \in acked \ broken :
        (\A t \in Thread : ~Writing(t, n)) => Parses(n)

ContentOf(n) == IF Parses(n) THEN manifest[n].chunks ELSE manifest[n]

(* A restore that returns Ok has written the content of every file whose   *)
(* manifest was there throughout, and of no other it was asked for.        *)
RestoreCovers ==
    \A t \in Thread : call[t].op = "restore" /\ pc[t] = "ok" =>
        \A n \in stable[t] : call[t].out[n] = ContentOf(n)

Sound == pending \cup Unwritten \cup (stored \ damaged)

(* When verify reports no errors, every manifest it was asked about and    *)
(* that did not change meanwhile names only chunks that are whole, in the  *)
(* buffer, in a pack or on the way there.                                  *)
VerifyCovers ==
    \A t \in Thread : call[t].op = "verify" /\ pc[t] = "ok" /\ ~call[t].errors =>
        \A n \in stable[t] :
            Parses(n) /\ ChunksOf(manifest[n].chunks) \subseteq Sound

-----------------------------------------------------------------------------
(* The inductive invariant.                                                *)

(* What is indexed or was read was given to the store, and none of what a  *)
(* backup read is in the buffer once it has flushed; batches are those of  *)
(* calls that read or flush.                                               *)
FlushedInv ==
    /\ known \subseteq Given
    /\ \A t \in Thread :
          /\ pc[t] = "read" => ChunksOf(call[t].got) \subseteq Given
          /\ pc[t] \in {"flush", "stat", "save", "write"} => ChunksOf(call[t].got) \subseteq Settled
          /\ batch[t] # {} => pc[t] \in {"read", "flush", "left"}

(* A file is always one of its versions; size and second tell them apart.  *)
VersionInv ==
    \A p \in Path :
        /\ <<source[p].second, source[p].content>> \in versions[p]
        /\ p \notin blind =>
              \A v, w \in versions[p] : v[1] = w[1] /\ Len(v[2]) = Len(w[2]) => v = w

(* A backup has read what the file still holds.                            *)
ReadInv ==
    \A t \in Thread : call[t].path \notin blind =>
        LET content == source[call[t].path].content IN
        /\ pc[t] = "read" => /\ Len(call[t].got) <= Len(content)
                             /\ \A i \in 1 .. Len(call[t].got) : call[t].got[i] = content[i]
        /\ pc[t] \in {"flush", "stat"} => call[t].got = content

EntryInv ==
    \A t \in Thread : pc[t] \in {"compare", "save", "write"} => Describes(call[t].name, call[t].entry)

(* Of the names a loop has visited, those that did not change are as found.*)
WalkInv ==
    \A t \in Thread : pc[t] \in {"walk", "ok"} =>
        /\ call[t].op = "restore" =>
              /\ \A n \in call[t].todo : call[t].out[n] = None
              /\ \A n \in stable[t] \ call[t].todo : call[t].out[n] = ContentOf(n)
        /\ call[t].op = "verify" /\ ~call[t].errors =>
              \A n \in stable[t] \ call[t].todo :
                  Parses(n) /\ ChunksOf(manifest[n].chunks) \subseteq Sound
        /\ pc[t] = "ok" /\ call[t].op # "backup" => call[t].todo = {}

ApiInv ==
    /\ TypeOK /\ ManifestsWritten /\ EntryIsSnapshot /\ AckedHasManifest
    /\ FlushedInv /\ VersionInv /\ ReadInv /\ EntryInv /\ WalkInv

=============================================================================
