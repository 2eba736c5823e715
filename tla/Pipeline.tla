------------------------------- MODULE Pipeline -------------------------------
(***************************************************************************)
(* Backups (pipeline/mod.rs): each call of `backup_file` runs a main       *)
(* thread, which chunks and hashes the file, asks the dedup index and the  *)
(* similarity index about every chunk and sends one message per chunk, and *)
(* a writer thread, which stores what it receives and flushes the store    *)
(* when the sender is gone.  A bounded channel joins the two.  All calls   *)
(* share the store and the dedup index; the similarity index is the call's *)
(* own (Store::backup builds a pipeline per call).                         *)
(*                                                                         *)
(* Of the store there is what local and cloud store have in common: a      *)
(* buffer that all calls share, which a put that fills it or a flush       *)
(* drains and then writes without the lock; meanwhile the buffer is empty  *)
(* for everybody else, and a write that fails loses what was drained.      *)
(***************************************************************************)
EXTENDS Naturals, Sequences, FiniteSets, SequencesExt

CONSTANTS
    Chunk,
    Backups,        \* calls of backup_file that may be in progress
    Files,          \* the files they read, as sequences of chunks
    Resembles,      \* pairs of chunks the similarity index takes for similar
    Capacity,       \* messages the channel holds (64 in the code)
    ReadCanFail,    \* whether the chunker may return an error
    StoreCanFail    \* whether calls of the store may return an error

ASSUME FilesAssumption    == Files \subseteq Seq(Chunk)
ASSUME CapacityAssumption == Capacity \in Nat \ {0}
ASSUME SimilarAssumption  == Resembles \subseteq Chunk \X Chunk
ASSUME FailingAssumption  == ReadCanFail \in BOOLEAN /\ StoreCanFail \in BOOLEAN

VARIABLES
    index,      \* chunks in the dedup index
    pending,    \* pending_chunks: the store's buffer
    batch,      \* what the call's writer has drained and not yet written
    durable,    \* chunks the store has written
    lost,       \* history: chunks in batches that were not written, nor again
    main,       \* where the call's main thread is
    file,       \* the file the call backs up
    hashes,     \* chunk_hashes: the chunks hashed so far
    similar,    \* chunks in the call's similarity index
    toSend,     \* the message the main thread is about to send
    sending,    \* whether the call's sender still exists
    queue,      \* the messages in the channel
    writer,     \* where the call's writer thread is
    handling,   \* the message the writer handles
    near,       \* near_duplicate_chunks
    counts      \* WriterOutput

store_vars  == <<index, pending, batch, durable, lost>>
main_vars   == <<main, file, hashes, similar, toSend, sending, near>>
writer_vars == <<writer, handling, counts>>
vars == <<store_vars, main_vars, queue, writer_vars>>

Message == [kind : {"Store", "StoreNearDuplicate", "Skip"},
            hash : Chunk, similar_to : Chunk]

Store(c)            == [kind |-> "Store", hash |-> c, similar_to |-> c]
StoreNearDup(c, b)  == [kind |-> "StoreNearDuplicate", hash |-> c, similar_to |-> b]
SkipMessage(c)      == [kind |-> "Skip", hash |-> c, similar_to |-> c]
NoCounts            == [dedup |-> 0, stored |-> 0, deltas |-> 0, fallbacks |-> 0]

Alive(b)    == writer[b] \in {"receive", "encode", "put", "putDelta", "write", "insert", "flush"}
Returned(b) == main[b] \in {"ok", "err"}

(* What the store has taken out of its buffer, and all it was given.       *)
Unwritten   == UNION {batch[b] : b \in Backups}
Settled     == durable \cup Unwritten \cup lost
Accepted    == pending \cup Settled

Init ==
    /\ index = {} /\ pending = {} /\ durable = {} /\ lost = {}
    /\ batch = [b \in Backups |-> {}]
    /\ main = [b \in Backups |-> "idle"]
    /\ file = [b \in Backups |-> <<>>]
    /\ hashes = [b \in Backups |-> <<>>]
    /\ similar = [b \in Backups |-> {}]
    /\ toSend = [b \in Backups |-> <<>>]
    /\ sending = [b \in Backups |-> FALSE]
    /\ queue = [b \in Backups |-> <<>>]
    /\ writer = [b \in Backups |-> "none"]
    /\ handling = [b \in Backups |-> <<>>]
    /\ near = [b \in Backups |-> 0]
    /\ counts = [b \in Backups |-> NoCounts]

-----------------------------------------------------------------------------
(* The main thread.                                                        *)

Begin(b, f) ==
    /\ main[b] = "idle"
    /\ main' = [main EXCEPT ![b] = "chunk"]
    /\ file' = [file EXCEPT ![b] = f]
    /\ sending' = [sending EXCEPT ![b] = TRUE]
    /\ writer' = [writer EXCEPT ![b] = "receive"]
    /\ UNCHANGED <<store_vars, hashes, similar, toSend, near, queue, handling,
                   counts>>

Hashed(b, c) == hashes' = [hashes EXCEPT ![b] = Append(@, c)]

Candidates(b, c) == {d \in similar[b] \ {c} : <<d, c>> \in Resembles}

(* DedupStage::check, then SimilarityStage::process: a near-duplicate does *)
(* not enter the similarity index.                                         *)
NextChunk(b) ==
    LET c == file[b][Len(hashes[b]) + 1] IN
    /\ main[b] = "chunk"
    /\ Len(hashes[b]) < Len(file[b])
    /\ Hashed(b, c)
    /\ \/ /\ c \in index
          /\ toSend' = [toSend EXCEPT ![b] = <<SkipMessage(c)>>]
          /\ UNCHANGED <<similar, near>>
       \/ /\ c \notin index
          /\ Candidates(b, c) = {}
          /\ toSend' = [toSend EXCEPT ![b] = <<Store(c)>>]
          /\ similar' = [similar EXCEPT ![b] = @ \cup {c}]
          /\ UNCHANGED near
       \/ /\ c \notin index
          /\ \E d \in Candidates(b, c) :
                toSend' = [toSend EXCEPT ![b] = <<StoreNearDup(c, d)>>]
          /\ near' = [near EXCEPT ![b] = @ + 1]
          /\ UNCHANGED similar
    /\ main' = [main EXCEPT ![b] = "send"]
    /\ UNCHANGED <<store_vars, file, sending, queue, writer_vars>>

(* Mistake: try_send, a full channel loses the message. *)
SendOrDrop(b) ==
    /\ main[b] = "send"
    /\ queue' = [queue EXCEPT ![b] = IF Len(@) < Capacity THEN @ \o toSend[b] ELSE @]
    /\ toSend' = [toSend EXCEPT ![b] = <<>>]
    /\ main' = [main EXCEPT ![b] = "chunk"]
    /\ UNCHANGED <<store_vars, file, hashes, similar, sending, near, writer_vars>>

(* Mistake: messages overtake each other in the channel. *)
SendFirst(b) ==
    /\ main[b] = "send"
    /\ Alive(b) /\ Len(queue[b]) < Capacity
    /\ queue' = [queue EXCEPT ![b] = toSend[b] \o @]
    /\ toSend' = [toSend EXCEPT ![b] = <<>>]
    /\ main' = [main EXCEPT ![b] = "chunk"]
    /\ UNCHANGED <<store_vars, file, hashes, similar, sending, near, writer_vars>>

(* Mistake: send blocks although the receiver is gone. *)
SendBlocks(b) ==
    /\ main[b] = "send"
    /\ Alive(b) /\ Len(queue[b]) < Capacity
    /\ queue' = [queue EXCEPT ![b] = @ \o toSend[b]]
    /\ toSend' = [toSend EXCEPT ![b] = <<>>]
    /\ main' = [main EXCEPT ![b] = "chunk"]
    /\ UNCHANGED <<store_vars, file, hashes, similar, sending, near, writer_vars>>

(* send blocks while the channel is full and fails once the writer exited. *)
Send(b) ==
    /\ main[b] = "send"
    /\ toSend' = [toSend EXCEPT ![b] = <<>>]
    /\ \/ /\ Alive(b) /\ Len(queue[b]) < Capacity
          /\ queue' = [queue EXCEPT ![b] = @ \o toSend[b]]
          /\ main' = [main EXCEPT ![b] = "chunk"]
          /\ UNCHANGED sending
       \/ /\ ~Alive(b)
          /\ main' = [main EXCEPT ![b] = "err"]
          /\ sending' = [sending EXCEPT ![b] = FALSE]
          /\ UNCHANGED queue
    /\ UNCHANGED <<store_vars, file, hashes, similar, near, writer_vars>>

(* The chunker fails: the call returns, dropping the sender and detaching   *)
(* the writer.                                                             *)
ReadFails(b) ==
    /\ ReadCanFail
    /\ main[b] = "chunk"
    /\ main' = [main EXCEPT ![b] = "err"]
    /\ sending' = [sending EXCEPT ![b] = FALSE]
    /\ UNCHANGED <<store_vars, file, hashes, similar, toSend, near, queue, writer_vars>>

(* Mistake: the sender is kept until the writer was joined. *)
JoinFirst(b) ==
    /\ main[b] = "chunk"
    /\ Len(hashes[b]) = Len(file[b])
    /\ main' = [main EXCEPT ![b] = "join"]
    /\ UNCHANGED <<store_vars, file, hashes, similar, toSend, sending, near, queue,
                   writer_vars>>

EndOfFile(b) ==
    /\ main[b] = "chunk"
    /\ Len(hashes[b]) = Len(file[b])
    /\ sending' = [sending EXCEPT ![b] = FALSE]
    /\ main' = [main EXCEPT ![b] = "join"]
    /\ UNCHANGED <<store_vars, file, hashes, similar, toSend, near, queue, writer_vars>>

Join(b) ==
    /\ main[b] = "join"
    /\ writer[b] \in {"ok", "err"}
    /\ main' = [main EXCEPT ![b] = writer[b]]
    /\ UNCHANGED <<store_vars, file, hashes, similar, toSend, sending, near, queue,
                   writer_vars>>

(* The caller has the result and the writer has ended: the name of the     *)
(* call may be used for another one.                                       *)
Forget(b) ==
    /\ Returned(b) /\ ~Alive(b)
    /\ main' = [main EXCEPT ![b] = "idle"]
    /\ file' = [file EXCEPT ![b] = <<>>]
    /\ hashes' = [hashes EXCEPT ![b] = <<>>]
    /\ similar' = [similar EXCEPT ![b] = {}]
    /\ writer' = [writer EXCEPT ![b] = "none"]
    /\ near' = [near EXCEPT ![b] = 0]
    /\ counts' = [counts EXCEPT ![b] = NoCounts]
    /\ UNCHANGED <<store_vars, toSend, sending, queue, handling>>

-----------------------------------------------------------------------------
(* The writer thread.                                                      *)

Msg(b) == handling[b][1]

Receive(b) ==
    /\ writer[b] = "receive"
    /\ queue[b] # <<>>
    /\ queue' = [queue EXCEPT ![b] = Tail(@)]
    /\ LET m == Head(queue[b]) IN
       \/ /\ m.kind = "Skip"
          /\ counts' = [counts EXCEPT ![b].dedup = @ + 1]
          /\ UNCHANGED <<writer, handling>>
       \/ /\ m.kind # "Skip"
          /\ handling' = [handling EXCEPT ![b] = <<m>>]
          /\ writer' = [writer EXCEPT ![b] =
                IF m.kind = "Store" THEN "put" ELSE "encode"]
          /\ UNCHANGED counts
    /\ UNCHANGED <<store_vars, main_vars>>

(* The base is read and the delta encoded; it is stored if there is one    *)
(* that pays, the chunk itself otherwise.  get does not find what another  *)
(* call has drained and not yet written.                                   *)
Encode(b) ==
    /\ writer[b] = "encode"
    /\ \/ /\ Msg(b).similar_to \in pending \cup durable
          /\ writer' = [writer EXCEPT ![b] = "putDelta"]
          /\ counts' = [counts EXCEPT ![b].deltas = @ + 1]
       \/ /\ writer' = [writer EXCEPT ![b] = "put"]
          /\ counts' = [counts EXCEPT ![b].fallbacks = @ + 1]
    /\ UNCHANGED <<store_vars, main_vars, queue, handling>>

Drains(b, chunks) ==
    /\ batch' = [batch EXCEPT ![b] = chunks]
    /\ pending' = {}
    /\ writer' = [writer EXCEPT ![b] = "write"]

(* put and put_delta: a chunk that is indexed or in the buffer is not      *)
(* stored again; another may fill the buffer.                              *)
Put(b) ==
    LET c == Msg(b).hash IN
    /\ writer[b] \in {"put", "putDelta"}
    /\ \/ /\ c \in index \cup pending
          /\ writer' = [writer EXCEPT ![b] = "insert"]
          /\ UNCHANGED <<pending, batch>>
       \/ /\ c \notin index \cup pending
          /\ \/ /\ pending' = pending \cup {c}
                /\ writer' = [writer EXCEPT ![b] = "insert"]
                /\ UNCHANGED batch
             \/ Drains(b, pending \cup {c})
    /\ UNCHANGED <<index, durable, lost, main_vars, queue, handling, counts>>

Insert(b) ==
    /\ writer[b] = "insert"
    /\ index' = index \cup {Msg(b).hash}
    /\ counts' = [counts EXCEPT ![b].stored = @ + 1]
    /\ handling' = [handling EXCEPT ![b] = <<>>]
    /\ writer' = [writer EXCEPT ![b] = "receive"]
    /\ UNCHANGED <<pending, batch, durable, lost, main_vars, queue>>

Finish(b) ==
    /\ writer[b] = "receive"
    /\ queue[b] = <<>>
    /\ ~sending[b]
    /\ writer' = [writer EXCEPT ![b] = "flush"]
    /\ UNCHANGED <<store_vars, main_vars, queue, handling, counts>>

(* Mistake: the writer ends without the flush. *)
NoFlush(b) ==
    /\ writer[b] = "flush"
    /\ writer' = [writer EXCEPT ![b] = "ok"]
    /\ UNCHANGED <<store_vars, main_vars, queue, handling, counts>>

(* flush: with nothing in the buffer there is nothing to do or to wait for. *)
Flush(b) ==
    /\ writer[b] = "flush"
    /\ \/ /\ pending = {}
          /\ writer' = [writer EXCEPT ![b] = "ok"]
          /\ UNCHANGED <<pending, batch>>
       \/ /\ pending # {}
          /\ Drains(b, pending)
    /\ UNCHANGED <<index, durable, lost, main_vars, queue, handling, counts>>

(* flush_write, of the put or the flush that drained the buffer.           *)
Write(b) ==
    /\ writer[b] = "write"
    /\ durable' = durable \cup batch[b]
    /\ lost' = lost \ batch[b]
    /\ batch' = [batch EXCEPT ![b] = {}]
    /\ writer' = [writer EXCEPT ![b] = IF handling[b] = <<>> THEN "ok" ELSE "insert"]
    /\ UNCHANGED <<index, pending, main_vars, queue, handling, counts>>

(* An error ends the writer; the channel is closed from its side and what  *)
(* was queued is dropped.  A write that fails may have left its pack.      *)
StoreFails(b) ==
    /\ StoreCanFail
    /\ writer[b] \in {"encode", "put", "putDelta", "flush", "write"}
    /\ \/ durable' = durable /\ lost' = lost \cup (batch[b] \ durable)
       \/ durable' = durable \cup batch[b] /\ lost' = lost \ batch[b]
    /\ batch' = [batch EXCEPT ![b] = {}]
    /\ writer' = [writer EXCEPT ![b] = "err"]
    /\ queue' = [queue EXCEPT ![b] = <<>>]
    /\ handling' = [handling EXCEPT ![b] = <<>>]
    /\ UNCHANGED <<index, pending, main_vars, counts>>

MainStep(b) ==
    \/ NextChunk(b) \/ Send(b) \/ ReadFails(b) \/ EndOfFile(b) \/ Join(b)

WriterStep(b) ==
    \/ Receive(b) \/ Encode(b) \/ Put(b) \/ Insert(b) \/ Finish(b) \/ Flush(b)
    \/ Write(b) \/ StoreFails(b)

Next ==
    \E b \in Backups :
        \/ \E f \in Files : Begin(b, f)
        \/ MainStep(b) \/ WriterStep(b) \/ Forget(b)

Spec == Init /\ [][Next]_vars

(* Threads that can run do run. *)
FairSpec ==
    Spec /\ \A b \in Backups : WF_vars(MainStep(b)) /\ WF_vars(WriterStep(b))

-----------------------------------------------------------------------------
(* Properties.                                                             *)

TypeOK ==
    /\ index \subseteq Chunk /\ Accepted \subseteq Chunk
    /\ batch \in [Backups -> SUBSET Chunk]
    /\ main \in [Backups -> {"idle", "chunk", "send", "join", "ok", "err"}]
    /\ \A b \in Backups : /\ file[b] \in Files \cup {<<>>}
                          /\ IsPrefix(hashes[b], file[b])
    /\ similar \in [Backups -> SUBSET Chunk]
    /\ sending \in [Backups -> BOOLEAN]
    /\ \A b \in Backups : /\ Len(queue[b]) <= Capacity
                          /\ \A s \in {queue[b], handling[b], toSend[b]} :
                                s \in Seq(Message)
    /\ writer \in [Backups -> {"none", "receive", "encode", "put", "putDelta",
                               "write", "insert", "flush", "ok", "err"}]

(* backup_file returned Ok: no chunk of the file waits in the buffer, also *)
(* none of those skipped because another call's writer had put them in the *)
(* index.  Each is durable, except that another call may still be writing  *)
(* the pack it is in, or have failed to: flush returns Ok all the same.    *)
OkIsWritten ==
    \A b \in Backups : main[b] = "ok" =>
        ToSet(file[b]) \subseteq durable \cup lost \cup UNION {batch[d] : d \in Backups \ {b}}

(* So after a call that was alone on a store that does not fail, each is.  *)
OkIsDurable ==
    \A b \in Backups : main[b] = "ok" => ToSet(file[b]) \subseteq durable

(* Its statistics account for every chunk of the file once, although main  *)
(* thread and writer count apart from each other.                          *)
CountsAddUp ==
    \A b \in Backups : main[b] = "ok" =>
        /\ hashes[b] = file[b]
        /\ counts[b].dedup + counts[b].stored = Len(hashes[b])
        /\ counts[b].deltas + counts[b].fallbacks = near[b]

(* A message to store a delta never overtakes the one that stores its base *)
(* so that the store was given the base before the writer asks for it.     *)
BaseFirst ==
    \A b \in Backups : writer[b] = "encode" => Msg(b).similar_to \in Accepted

(* A chunk is in the dedup index, where other calls skip it, only after    *)
(* the store accepted it.                                                  *)
IndexedIsAccepted == index \subseteq Accepted

(* Every call returns, and every writer ends, also one that was detached.  *)
BackupReturns ==
    \A b \in Backups : main[b] = "chunk" ~> Returned(b)

WriterEnds ==
    \A b \in Backups : Alive(b) ~> ~Alive(b)

(* unique_chunks counts no chunk of the file twice.                        *)
UniqueIsDistinct ==
    \A b \in Backups : main[b] = "ok" => counts[b].stored <= Cardinality(ToSet(file[b]))

=============================================================================
