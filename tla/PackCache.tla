------------------------------- MODULE PackCache -------------------------------
(***************************************************************************)
(* The directory in which the cloud store of one process caches packs      *)
(* (read_pack_cached and flush_write of store/cloud.rs): the files, and    *)
(* the LruCache that decides which of them go.  CloudStore has what stale  *)
(* or torn files of earlier processes do to reads; here all packs are what *)
(* the bucket holds, and the threads of the process call at the same time. *)
(***************************************************************************)
EXTENDS Naturals, Sequences, FiniteSets, SequencesExt

CONSTANTS
    Thread,
    Pack,
    NoPack,         \* a thread is in no call
    Capacity        \* DEFAULT_CACHE_CAPACITY: 128 in the code

ASSUME CacheAssumption == NoPack \notin Pack /\ Capacity \in Nat \ {0}

VARIABLES
    bucket,     \* the packs in the bucket
    file,       \* the cache file of each pack: "none", "part" or "whole"
    writers,    \* the threads that have the file open to write it
    lru,        \* the LruCache, the least recently used pack first
    pc,         \* what each thread does next
    pack,       \* the pack its call is about
    extra,      \* history: packs with a file when the process began, or flushed
    failed,     \* history: packs whose file could not be written
    overlapped  \* history: whether calls ever overlapped

vars == <<bucket, file, writers, lru, pc, pack, extra, failed, overlapped>>

Init ==
    /\ bucket \in SUBSET Pack
    /\ extra \in SUBSET bucket
    /\ file = [p \in Pack |-> IF p \in extra THEN "whole" ELSE "none"]
    /\ writers = [p \in Pack |-> {}]
    /\ lru = <<>>
    /\ pc = [t \in Thread |-> "idle"]
    /\ pack = [t \in Thread |-> NoPack]
    /\ failed = {}
    /\ overlapped = FALSE

Begin(t, p, step) ==
    /\ pc[t] = "idle"
    /\ pc' = [pc EXCEPT ![t] = step]
    /\ pack' = [pack EXCEPT ![t] = p]
    /\ overlapped' = (overlapped \/ \E u \in Thread \ {t} : pc[u] # "idle")

Goes(t, step) ==
    /\ pc' = [pc EXCEPT ![t] = step]
    /\ pack' = [pack EXCEPT ![t] = IF step = "idle" THEN NoPack ELSE @]

-----------------------------------------------------------------------------
(* LruCache: put drops the oldest other entry when it is full, and says    *)
(* nothing of it; push returns what it dropped, or the entry it replaced.  *)

Recent(p) ==
    LET others == IF Contains(lru, p)
                  THEN RemoveAt(lru, CHOOSE i \in 1 .. Len(lru) : lru[i] = p) ELSE lru
    IN  Append(IF Len(others) = Capacity THEN Tail(others) ELSE others, p)

Dropped(p) ==
    CASE Contains(lru, p)     -> {p}
      [] ~Contains(lru, p) /\ Len(lru) = Capacity -> {Head(lru)}
      [] OTHER                -> {}

(* A file that is removed while it is written stays removed.               *)
RemoveFiles(ps) ==
    /\ file' = [p \in Pack |-> IF p \in ps THEN "none" ELSE file[p]]
    /\ writers' = [p \in Pack |-> IF p \in ps THEN {} ELSE writers[p]]

-----------------------------------------------------------------------------
(* read_pack_cached.                                                       *)

Read(t, p) ==
    /\ Begin(t, p, "look")
    /\ UNCHANGED <<bucket, file, writers, lru, extra, failed>>

(* The file is read if there is one.                                       *)
Look(t) ==
    /\ pc[t] = "look"
    /\ Goes(t, IF file[pack[t]] = "none" THEN "download" ELSE "touch")
    /\ UNCHANGED <<bucket, file, writers, lru, extra, failed, overlapped>>

(* Mistake: a hit is pushed, and what that returns is removed.             *)
TouchPushes(t) ==
    /\ pc[t] = "touch"
    /\ lru' = Recent(pack[t])
    /\ RemoveFiles(Dropped(pack[t]))
    /\ Goes(t, "idle")
    /\ UNCHANGED <<bucket, extra, failed, overlapped>>

Touch(t) ==
    /\ pc[t] = "touch"
    /\ lru' = Recent(pack[t])
    /\ Goes(t, "idle")
    /\ UNCHANGED <<bucket, file, writers, extra, failed, overlapped>>

(* Only a pack that is in the bucket can be downloaded, and not always.    *)
Download(t) ==
    /\ pc[t] = "download"
    /\ \E step \in {"push", "idle"} : (step = "push" => pack[t] \in bucket) /\ Goes(t, step)
    /\ UNCHANGED <<bucket, file, writers, lru, extra, failed, overlapped>>

(* Mistake: the file of the entry that was dropped stays.                  *)
PushKeepsFile(t) ==
    /\ pc[t] = "push"
    /\ lru' = Recent(pack[t])
    /\ Goes(t, "create")
    /\ UNCHANGED <<bucket, file, writers, extra, failed, overlapped>>

(* Under the lock of the LruCache.                                         *)
Push(t) ==
    /\ pc[t] = "push"
    /\ lru' = Recent(pack[t])
    /\ RemoveFiles(Dropped(pack[t]))
    /\ Goes(t, "create")
    /\ UNCHANGED <<bucket, extra, failed, overlapped>>

-----------------------------------------------------------------------------
(* fs::write, after the lock: the file is cut to nothing and then filled.  *)

Create(t) ==
    /\ pc[t] = "create"
    /\ file' = [file EXCEPT ![pack[t]] = "part"]
    /\ writers' = [writers EXCEPT ![pack[t]] = @ \cup {t}]
    /\ Goes(t, "fill")
    /\ UNCHANGED <<bucket, lru, extra, failed, overlapped>>

(* Mistake: part of the file is written.                                   *)
FillsPart(t) ==
    /\ pc[t] = "fill"
    /\ writers' = [writers EXCEPT ![pack[t]] = @ \ {t}]
    /\ Goes(t, "idle")
    /\ UNCHANGED <<bucket, file, lru, extra, failed, overlapped>>

(* Two threads write the same bytes: the file is whole when both have, and *)
(* may be before.                                                          *)
Fill(t) ==
    LET p == pack[t] IN
    /\ pc[t] = "fill"
    /\ file' \in {[file EXCEPT ![p] = IF t \in writers[p] THEN x ELSE @] :
                     x \in {"whole"} \cup (IF writers[p] = {t} THEN {} ELSE {"part"})}
    /\ writers' = [writers EXCEPT ![p] = @ \ {t}]
    /\ Goes(t, "idle")
    /\ UNCHANGED <<bucket, lru, extra, failed, overlapped>>

(* The error is dropped: the call succeeds, and the file stays as it is.   *)
WriteFails(t) ==
    /\ pc[t] \in {"create", "fill"}
    /\ writers' = [writers EXCEPT ![pack[t]] = @ \ {t}]
    /\ failed' = failed \cup {pack[t]}
    /\ Goes(t, "idle")
    /\ UNCHANGED <<bucket, file, lru, extra, overlapped>>

-----------------------------------------------------------------------------
(* flush_write of a new pack: its file is written past the LruCache.       *)

Flush(t, p) ==
    /\ p \notin bucket \cup {pack[u] : u \in {v \in Thread : pc[v] = "upload"}}
    /\ Begin(t, p, "upload")
    /\ UNCHANGED <<bucket, file, writers, lru, extra, failed>>

Upload(t) ==
    /\ pc[t] = "upload"
    /\ bucket' = bucket \cup {pack[t]}
    /\ extra' = extra \cup {pack[t]}
    /\ Goes(t, "create")
    /\ UNCHANGED <<file, writers, lru, failed, overlapped>>

(* The upload returns an error, and flush_write with it.                   *)
UploadFails(t) ==
    /\ pc[t] = "upload"
    /\ bucket' \in {bucket, bucket \cup {pack[t]}}
    /\ Goes(t, "idle")
    /\ UNCHANGED <<file, writers, lru, extra, failed, overlapped>>

Next ==
    \E t \in Thread :
        \/ \E p \in Pack : Read(t, p) \/ Flush(t, p)
        \/ Look(t) \/ Touch(t) \/ Download(t) \/ Push(t)
        \/ Create(t) \/ Fill(t) \/ WriteFails(t) \/ Upload(t) \/ UploadFails(t)

Spec == Init /\ [][Next]_vars

-----------------------------------------------------------------------------
(* Properties.                                                             *)

Files   == {p \in Pack : file[p] # "none"}
Cached  == ToSet(lru)

(* The values the state may take; no pack has two entries in the LruCache. *)
TypeOK ==
    /\ bucket \subseteq Pack /\ extra \subseteq bucket
    /\ failed \subseteq Pack
    /\ file \in [Pack -> {"none", "part", "whole"}]
    /\ writers \in [Pack -> SUBSET Thread]
    /\ lru \in Seq(Pack) /\ Len(lru) <= Capacity
    /\ \A i, j \in 1 .. Len(lru) : lru[i] = lru[j] => i = j
    /\ pc \in [Thread -> {"idle", "look", "touch", "download", "push", "create", "fill", "upload"}]
    /\ pack \in [Thread -> Pack \cup {NoPack}]
    /\ \A t \in Thread : pc[t] # "idle" => pack[t] \in Pack
    /\ overlapped \in BOOLEAN

(* The capacity bounds the files that reads fetched, however hits, misses  *)
(* and flushes follow one another: others there are only as many as the    *)
(* process found when it began and as it flushed packs.                    *)
FilesBounded ==
    ~overlapped => Cardinality(Files) <= Capacity + Cardinality(extra)

(* A file that is not whole is being written, or writing it has failed:    *)
(* otherwise a call that overlaps no other never reads part of a pack,     *)
(* whatever overlapping calls wrote, removed and wrote again before.       *)
PartIsBeingWritten ==
    \A p \in Pack \ failed : file[p] = "part" => writers[p] # {}

(* An entry of the LruCache has its file, once the call that made it ends, *)
(* if it could be written: hits and evictions of one call after another do *)
(* not spend the capacity on packs that are not there.                     *)
EntriesHaveFiles ==
    ~overlapped /\ (\A t \in Thread : pc[t] = "idle") => Cached \subseteq Files \cup failed

(* "max 128 packs": false, flushed packs and those of earlier processes    *)
(* come on top.                                                            *)
FilesWithinCapacity == Cardinality(Files) <= Capacity

(* So come, with calls that overlap, packs whose entry another call        *)
(* dropped before their file was written.                                  *)
FilesBoundedAlways == Cardinality(Files) <= Capacity + Cardinality(extra)

=============================================================================
