---------------------------- MODULE StoreApiProofs ----------------------------
(* Proofs about StoreApi, for any number of threads, files and names.      *)
EXTENDS StoreApi, TLAPS

(* The sentinels are no entries.                                           *)
LEMMA Marks ==
    /\ \A e \in Entry : e # None /\ e # Torn
    /\ None # Torn
    /\ \A p \in Path : p # None
    /\ \A n \in Name : n # None
BY ApiMarks

LEMMA IdleIsCall == Idle \in Call /\ NoEntry \in Entry
<1>1. NoEntry \in Entry
  BY DEF NoEntry, Entry
<1>2. [n \in Name |-> None] \in [Name -> Seq(Chunk) \cup {None}]
  OBVIOUS
<1> QED
  BY <1>1, <1>2 DEF Idle, Call

(* Updating one local variable of a call.                                  *)
LEMMA CallUpdates ==
    ASSUME NEW c \in Call
    PROVE  /\ \A s \in Seq(Chunk) : [c EXCEPT !.got = s] \in Call
           /\ \A e \in Entry : [c EXCEPT !.entry = e] \in Call
           /\ \A b \in BOOLEAN : [c EXCEPT !.linked = b] \in Call
           /\ \A names \in SUBSET Name : [c EXCEPT !.todo = names] \in Call
           /\ \A names \in SUBSET Name, b \in BOOLEAN :
                 [c EXCEPT !.todo = names, !.errors = b] \in Call
BY DEF Call

LEMMA InitType == Init => TypeOK
<1> SUFFICES ASSUME Init PROVE TypeOK
  OBVIOUS
<1>1. \A p \in Path : First[p] \in Seq(Chunk)
  BY ApiFiles
<1>2. call \in [Thread -> Call]
  BY IdleIsCall DEF Init
<1>3. source \in [Path -> [content : Seq(Chunk), second : 0 .. MaxSecond]]
  BY <1>1, ApiBounds DEF Init
<1>4. versions \in [Path -> SUBSET ((0 .. MaxSecond) \X Seq(Chunk))]
  BY <1>1, ApiBounds DEF Init
<1>5. Fits("idle", Idle)
  BY DEF Fits
<1>6. CallsOK
  BY <1>2, <1>5 DEF Init, CallsOK, Steps
<1>7. WorldOK
  BY <1>3, <1>4, ApiBounds DEF Init, WorldOK
<1>8. StoreOK
  <2>1. Given = {}
    BY DEF Init, Given, Settled, Unwritten
  <2> QED
    BY <2>1, ApiFiles DEF Init, StoreOK
<1> QED
  BY <1>6, <1>7, <1>8 DEF TypeOK

(* A thread takes a step and changes its own local variables.              *)
LEMMA OneThread ==
    ASSUME CallsOK, NEW t \in Thread, NEW step \in Steps, NEW c \in Call, Fits(step, c),
           Goes(t, step), call' = [call EXCEPT ![t] = c]
    PROVE  CallsOK'
<1>1. pc' \in [Thread -> Steps] /\ call' \in [Thread -> Call]
  BY DEF CallsOK, Goes
<1>2. \A u \in Thread : pc'[u] = (IF u = t THEN step ELSE pc[u])
                        /\ call'[u] = (IF u = t THEN c ELSE call[u])
  BY DEF CallsOK, Goes
<1>3. ASSUME NEW u \in Thread PROVE Fits(pc'[u], call'[u])
  <2>1. CASE u = t
    BY <1>2, <2>1
  <2>2. CASE u # t
    <3>1. pc'[u] = pc[u] /\ call'[u] = call[u] /\ Fits(pc[u], call[u])
      BY <1>2, <2>2 DEF CallsOK
    <3> QED
      BY <3>1
  <2> QED
    BY <2>1, <2>2
<1> QED
  BY <1>1, <1>3 DEF CallsOK

LEMMA ReturnsType ==
    ASSUME CallsOK, NEW t \in Thread, Returns(t)
    PROVE  CallsOK'
<1>1. Fits("idle", Idle)
  BY DEF Fits
<1> QED
  BY <1>1, OneThread, IdleIsCall DEF Returns, Steps

LEMMA BackupCalls ==
    ASSUME TypeOK, NEW t \in Thread, BackupStep(t)
    PROVE  CallsOK'
<1> DEFINE c == call[t]
<1>0. c \in Call /\ pc[t] \in Steps /\ Fits(pc[t], c) /\ CallsOK
  BY DEF TypeOK, CallsOK
<1>1. ASSUME NEW p \in Path, NEW force \in BOOLEAN, StartBackup(t, p, force) PROVE CallsOK'
  <2> DEFINE d == [Idle EXCEPT !.op = "backup", !.path = p, !.name = NameOf[p]]
  <2>1. d \in Call
    BY IdleIsCall, ApiNames DEF Call
  <2>2. Fits("check", d) /\ Fits("read", d)
    BY DEF Fits, Idle
  <2> QED
    BY <1>0, <1>1, <2>1, <2>2, OneThread DEF StartBackup, Steps
<1>2. CASE CheckManifest(t)
  <2>1. c.name \in Name
    BY <1>0, <1>2, ApiNames DEF CheckManifest, Fits
  <2> DEFINE m == manifest[c.name]
  <2>2. CASE m = None
    BY <1>0, <1>2, <2>2, Marks, OneThread DEF CheckManifest, Fits, Steps, CallsOK
  <2>3. CASE m = Torn
    BY <1>0, <1>2, <2>3, Marks, ReturnsType DEF CheckManifest
  <2>4. CASE m \notin {None, Torn}
    <3>1. m \in Entry
      BY <2>1, <2>4 DEF TypeOK, StoreOK
    <3>2. [c EXCEPT !.entry = m] \in Call
      BY <1>0, <3>1, CallUpdates
    <3>3. Fits("compare", [c EXCEPT !.entry = m])
      BY <1>0, <1>2 DEF CheckManifest, Fits, Call
    <3> QED
      BY <1>0, <1>2, <2>4, <3>2, <3>3, OneThread DEF CheckManifest, Steps
  <2> QED
    BY <2>2, <2>3, <2>4
<1>3. CASE CompareSource(t)
  <2>1. CASE UNCHANGED call
    <3>1. Fits("ok", c) /\ call' = [call EXCEPT ![t] = c] /\ (Goes(t, "ok") \/ Goes(t, "read"))
      BY <1>3, <2>1, <1>0 DEF CompareSource, Fits, CallsOK
    <3>2. Fits("ok", c) /\ Fits("read", c) /\ call' = [call EXCEPT ![t] = c]
      BY <1>3, <2>1, <1>0 DEF CompareSource, Fits, CallsOK
    <3> QED
      BY <1>0, <3>1, <3>2, OneThread DEF Steps
  <2>2. CASE Goes(t, "read") /\ call' = [call EXCEPT ![t].entry = NoEntry]
    <3>1. [c EXCEPT !.entry = NoEntry] \in Call
      BY <1>0, IdleIsCall, CallUpdates
    <3>2. Fits("read", [c EXCEPT !.entry = NoEntry])
      BY <1>0, <1>3 DEF CompareSource, Fits, Call
    <3> QED
      BY <1>0, <2>2, <3>1, <3>2, OneThread DEF Steps
  <2> QED
    BY <1>3, <2>1, <2>2 DEF CompareSource
<1>4. CASE ReadChunk(t)
  <2> DEFINE content == source[c.path].content
             s == Append(c.got, content[Len(c.got) + 1])
  <2>1. content \in Seq(Chunk) /\ c.got \in Seq(Chunk) /\ Len(c.got) < Len(content)
    BY <1>0, <1>4 DEF ReadChunk, Fits, TypeOK, WorldOK, Call
  <2>2. s \in Seq(Chunk)
    BY <2>1
  <2>3. [c EXCEPT !.got = s] \in Call /\ Fits("read", [c EXCEPT !.got = s])
    BY <1>0, <1>4, <2>2, CallUpdates DEF ReadChunk, Fits, Call
  <2>4. Goes(t, "read") /\ call' = [call EXCEPT ![t] = [c EXCEPT !.got = s]]
    BY <1>0, <1>4 DEF ReadChunk, Goes, CallsOK
  <2> QED
    BY <1>0, <2>3, <2>4, OneThread DEF Steps
<1>5. CASE Flush(t) \/ WriteBatch(t)
  <2>1. call' = [call EXCEPT ![t] = c]
    BY <1>0, <1>5 DEF Flush, WriteBatch, CallsOK
  <2>2. CASE Flush(t)
    <3>1. PICK step \in {"stat", "flush", "left", "idle"} :
              Goes(t, step) /\ (step \in {"stat", "flush"} => pc[t] = "read")
      BY <2>2 DEF Flush
    <3>2. Fits(step, c)
      BY <1>0, <3>1 DEF Fits
    <3> QED
      BY <1>0, <2>1, <3>1, <3>2, OneThread DEF Steps
  <2>3. CASE WriteBatch(t)
    <3> DEFINE step == IF pc[t] = "flush" THEN "stat" ELSE pc[t]
    <3>1. Fits(step, c) /\ step \in Steps
      BY <1>0 DEF Fits, Steps
    <3>2. Goes(t, step)
      BY <2>3 DEF WriteBatch, Goes
    <3> QED
      BY <1>0, <2>1, <3>1, <3>2, OneThread
  <2> QED
    BY <1>5, <2>2, <2>3
<1>9. CASE LeaveWriter(t)
  <2>1. Fits("left", Idle)
    BY DEF Fits
  <2> QED
    BY <1>0, <1>9, <2>1, OneThread, IdleIsCall DEF LeaveWriter, Steps
<1>6. CASE StatSource(t)
  <2> DEFINE f == source[c.path]
             e == [size |-> Len(f.content), modified |-> f.second, chunks |-> c.got]
  <2>1. f.content \in Seq(Chunk) /\ f.second \in Nat /\ c.got \in Seq(Chunk)
    BY <1>0, <1>6, ApiBounds DEF StatSource, Fits, TypeOK, WorldOK, Call
  <2>2. e \in Entry
    BY <2>1 DEF Entry
  <2>3. [c EXCEPT !.entry = e] \in Call /\ Fits("save", [c EXCEPT !.entry = e])
    BY <1>0, <1>6, <2>2, CallUpdates DEF StatSource, Fits, Call
  <2>4. Goes(t, "save") /\ call' = [call EXCEPT ![t] = [c EXCEPT !.entry = e]]
    BY <1>6 DEF StatSource
  <2> QED
    BY <1>0, <2>3, <2>4, OneThread DEF Steps
<1>7. CASE OpenManifest(t)
  <2>1. [c EXCEPT !.linked = TRUE] \in Call /\ Fits("write", [c EXCEPT !.linked = TRUE])
    BY <1>0, <1>7, CallUpdates DEF OpenManifest, Fits, Call
  <2>2. Goes(t, "write") /\ call' = [call EXCEPT ![t] = [c EXCEPT !.linked = TRUE]]
    BY <1>7 DEF OpenManifest
  <2> QED
    BY <1>0, <2>1, <2>2, OneThread DEF Steps
<1>8. CASE Returns(t)
  BY <1>0, <1>8, ReturnsType
<1> QED
  BY <1>1, <1>2, <1>3, <1>4, <1>5, <1>6, <1>7, <1>8, <1>9
     DEF BackupStep, WriteBatchFails, PutManifest, WriteManifest, BackupFails, PutFails,
         WriteFails

LEMMA WalkCalls ==
    ASSUME TypeOK, NEW t \in Thread, WalkStep(t)
    PROVE  CallsOK'
<1> DEFINE c == call[t]
<1>0. c \in Call /\ pc[t] \in Steps /\ Fits(pc[t], c) /\ CallsOK
  BY DEF TypeOK, CallsOK
<1>1. ASSUME NEW d \in Call PROVE Fits("walk", d) /\ Fits("ok", d)
  BY DEF Fits
<1>2. ASSUME NEW o \in {"restore", "verify", "list"}, NEW names \in SUBSET Name,
             StartWalk(t, o, names)
      PROVE  CallsOK'
  <2>1. [Idle EXCEPT !.op = o, !.todo = names] \in Call
    BY IdleIsCall DEF Call
  <2> QED
    BY <1>0, <1>1, <1>2, <2>1, OneThread DEF StartWalk, Steps
<1>3. CASE WalkAll(t)
  BY <1>2, <1>3 DEF WalkAll, Listed
<1>4. ASSUME NEW n \in Name, WalkOne(t, n) PROVE CallsOK'
  BY <1>2, <1>4 DEF WalkOne
<1>5. CASE FinishWalk(t)
  <2>1. call' = [call EXCEPT ![t] = c]
    BY <1>0, <1>5 DEF FinishWalk, CallsOK
  <2> QED
    BY <1>0, <1>1, <1>5, <2>1, OneThread DEF FinishWalk, Steps
<1>6. CASE WalkReturns(t)
  BY <1>0, <1>6, ReturnsType DEF WalkReturns
<1>7. ASSUME NEW n \in Name, VisitAbsent(t, n) \/ VisitEntry(t, n) PROVE CallsOK'
  <2>1. Goes(t, "walk") /\ pc[t] = "walk"
    BY <1>0, <1>7 DEF VisitAbsent, VisitEntry, Visits, Goes, CallsOK
  <2>2. \E d \in Call : call' = [call EXCEPT ![t] = d]
    <3>1. c.todo \ {n} \in SUBSET Name /\ c.errors \in BOOLEAN
      BY <1>0 DEF Call
    <3>2. CASE VisitAbsent(t, n)
      <4>1. [c EXCEPT !.todo = @ \ {n}, !.errors = @ \/ c.op = "verify"] \in Call
        BY <1>0 DEF Call
      <4> QED
        BY <3>2, <4>1 DEF VisitAbsent
    <3>3. CASE VisitEntry(t, n)
      <4> DEFINE e == manifest[n]
      <4>1. e \in Entry
        BY <3>3 DEF VisitEntry, TypeOK, StoreOK
      <4>2. /\ [c EXCEPT !.todo = @ \ {n}, !.out[n] = e.chunks] \in Call
            /\ [c EXCEPT !.todo = @ \ {n}, !.errors = @ \/ ~Readable(e)] \in Call
            /\ [c EXCEPT !.todo = @ \ {n}] \in Call
        BY <1>0, <4>1 DEF Call, Entry, Readable
      <4> QED
        BY <3>3, <4>2 DEF VisitEntry
    <3> QED
      BY <1>7, <3>2, <3>3
  <2> QED
    BY <1>0, <1>1, <2>1, <2>2, OneThread DEF Steps
<1> QED
  BY <1>3, <1>4, <1>5, <1>6, <1>7 DEF WalkStep, WalkFails, VisitTorn, VisitUnreadable

LEMMA DeleteCalls ==
    ASSUME TypeOK, NEW t \in Thread, DeleteStep(t)
    PROVE  CallsOK'
<1> DEFINE c == call[t]
<1>0. c \in Call /\ pc[t] \in Steps /\ Fits(pc[t], c) /\ CallsOK
  BY DEF TypeOK, CallsOK
<1>1. ASSUME NEW n \in Name, StartDelete(t, n) PROVE CallsOK'
  <2> DEFINE d == [Idle EXCEPT !.op = "delete", !.name = n]
  <2>1. d \in Call /\ Fits("has", d)
    BY IdleIsCall DEF Call, Fits, Idle
  <2> QED
    BY <1>0, <1>1, <2>1, OneThread DEF StartDelete, Steps
<1>2. CASE HasFile(t)
  <2>1. CASE Returns(t)
    BY <1>0, <2>1, ReturnsType
  <2>2. CASE Goes(t, "remove") /\ UNCHANGED call
    <3>1. Fits("remove", c) /\ call' = [call EXCEPT ![t] = c]
      BY <1>0, <1>2, <2>2 DEF HasFile, Fits, CallsOK
    <3> QED
      BY <1>0, <2>2, <3>1, OneThread DEF Steps
  <2> QED
    BY <1>2, <2>1, <2>2 DEF HasFile
<1>3. CASE RemoveManifest(t)
  <2>1. \A u \in Thread : /\ call'[u] \in Call
                          /\ call'[u].op = (IF u = t THEN "none" ELSE call[u].op)
                          /\ u # t => /\ call'[u].path = call[u].path
                                      /\ call'[u].name = call[u].name
                                      /\ call'[u].entry = call[u].entry
                                      /\ call'[u].got = call[u].got
    <3> TAKE u \in Thread
    <3>1. call[u] \in Call
      BY <1>0 DEF CallsOK
    <3>2. CASE u = t
      BY <1>3, <3>2, IdleIsCall DEF RemoveManifest, Idle
    <3>3. CASE u # t
      <4>1. call'[u] = [call[u] EXCEPT !.linked = @ /\ ~Writing(u, c.name)]
        BY <1>3, <3>3 DEF RemoveManifest
      <4> QED
        BY <3>1, <3>3, <4>1 DEF Call
    <3> QED
      BY <3>2, <3>3
  <2>2. pc' \in [Thread -> Steps] /\ call' \in [Thread -> Call]
    BY <1>0, <1>3, <2>1 DEF RemoveManifest, Goes, CallsOK, Steps
  <2>3. ASSUME NEW u \in Thread PROVE Fits(pc'[u], call'[u])
    <3>1. CASE u = t
      <4>1. pc'[u] = "idle"
        BY <1>0, <1>3, <3>1 DEF RemoveManifest, Goes, CallsOK
      <4> QED
        BY <4>1 DEF Fits
    <3>2. CASE u # t
      <4>1. pc'[u] = pc[u] /\ Fits(pc[u], call[u])
        BY <1>0, <1>3, <3>2 DEF RemoveManifest, Goes, CallsOK
      <4> QED
        BY <2>1, <3>2, <4>1 DEF Fits
    <3> QED
      BY <3>1, <3>2
  <2> QED
    BY <2>2, <2>3 DEF CallsOK
<1>4. CASE DeleteFails(t)
  BY <1>0, <1>4, ReturnsType DEF DeleteFails
<1> QED
  BY <1>1, <1>2, <1>3, <1>4 DEF DeleteStep

LEMMA OtherCalls ==
    ASSUME TypeOK, Crash \/ UNCHANGED <<pc, call>>
    PROVE  CallsOK'
<1>1. CASE Crash
  <2>1. Fits("idle", Idle)
    BY DEF Fits
  <2> QED
    BY <1>1, <2>1, IdleIsCall DEF Crash, CallsOK, Steps
<1>2. CASE UNCHANGED <<pc, call>>
  BY <1>2 DEF TypeOK, CallsOK
<1> QED
  BY <1>1, <1>2

-----------------------------------------------------------------------------
(* What the steps change of the files and of the store.                    *)

LEMMA WorldNext ==
    ASSUME TypeOK, [Next]_vars
    PROVE  WorldOK'
<1> USE DEF TypeOK, WorldOK
<1>1. CASE UNCHANGED world
  BY <1>1 DEF world
<1>2. CASE Tick
  BY <1>2, ApiBounds DEF Tick
<1>3. ASSUME NEW p \in Path, NEW content \in Contents[p], Edit(p, content) PROVE WorldOK'
  <2>1. content \in Seq(Chunk)
    BY ApiFiles
  <2> QED
    BY <1>3, <2>1, ApiBounds DEF Edit
<1>4. ASSUME NEW t \in Thread, BackupStep(t) \/ WalkStep(t) \/ DeleteStep(t) \/ Return(t)
      PROVE  UNCHANGED world
  <2>1. BackupStep(t) => UNCHANGED world
    BY DEF BackupStep, StartBackup, CheckManifest, CompareSource, ReadChunk, Flush, WriteBatch,
           WriteBatchFails, LeaveWriter, StatSource, PutManifest, OpenManifest, WriteManifest,
           BackupFails, PutFails, WriteFails
  <2>2. WalkStep(t) => UNCHANGED world
    BY DEF WalkStep, WalkAll, WalkOne, StartWalk, FinishWalk, WalkFails, WalkReturns,
           VisitAbsent, VisitTorn, VisitEntry, VisitUnreadable
  <2>3. DeleteStep(t) => UNCHANGED world
    BY DEF DeleteStep, StartDelete, HasFile, RemoveManifest, DeleteFails
  <2>4. Return(t) => UNCHANGED world
    BY DEF Return
  <2> QED
    BY <1>4, <2>1, <2>2, <2>3, <2>4
<1>5. Crash => UNCHANGED world
  BY DEF Crash
<1>6. UNCHANGED vars => UNCHANGED world
  BY DEF vars
<1> QED
  BY <1>1, <1>2, <1>3, <1>4, <1>5, <1>6 DEF Next

(* One batch changes, and the others with it stay what they are.           *)
LEMMA BatchIs ==
    ASSUME StoreOK, NEW t \in Thread, NEW chunks, batch' = [batch EXCEPT ![t] = chunks]
    PROVE  /\ batch'[t] = chunks
           /\ \A u \in Thread \ {t} : batch'[u] = batch[u]
           /\ Unwritten' \subseteq Unwritten \cup chunks
           /\ Unwritten \subseteq Unwritten' \cup batch[t]
           /\ batch[t] \subseteq Unwritten /\ chunks \subseteq Unwritten'
<1>1. batch'[t] = chunks /\ \A u \in Thread \ {t} : batch'[u] = batch[u]
  BY DEF StoreOK
<1>2. Unwritten' = UNION {batch'[u] : u \in Thread}
  BY DEF Unwritten
<1>3. ASSUME NEW x \in Unwritten' PROVE x \in Unwritten \cup chunks
  <2>1. PICK u \in Thread : x \in batch'[u]
    BY <1>2, <1>3
  <2> QED
    BY <1>1, <2>1 DEF Unwritten
<1>4. ASSUME NEW x \in Unwritten PROVE x \in Unwritten' \cup batch[t]
  <2>1. PICK u \in Thread : x \in batch[u]
    BY <1>4 DEF Unwritten
  <2>2. u # t => x \in batch'[u]
    BY <1>1, <2>1
  <2> QED
    BY <1>2, <2>1, <2>2
<1>5. batch[t] \subseteq Unwritten
  BY DEF Unwritten
<1>6. chunks \subseteq Unwritten'
  BY <1>1, <1>2
<1> QED
  BY <1>1, <1>3, <1>4, <1>5, <1>6

(* A step that reads a chunk takes the next chunk c of the file.           *)
Reads(t, c) ==
    /\ batch[t] = {}
    /\ \/ c \in known \cup pending /\ UNCHANGED store
       \/ /\ c \notin known \cup pending
          /\ \/ /\ pending' = pending \cup {c} /\ known' = known \cup {c}
                /\ UNCHANGED batch
             \/ /\ Drains(t, pending \cup {c})
                /\ UNCHANGED known
          /\ UNCHANGED <<stored, lost>>

(* What a step of a backup moves between the buffer, its batch and packs.  *)
LEMMA ReadMoves ==
    ASSUME StoreOK, NEW t \in Thread, NEW c, Reads(t, c)
    PROVE  /\ c \in known \cup Given'
           /\ Given \subseteq Given' /\ Given' \subseteq Given \cup {c}
           /\ Settled \subseteq Settled' /\ known' \subseteq known \cup Given'
           /\ batch' \in [Thread -> SUBSET (Chunk \cup {c})]
           /\ stored' = stored /\ Unwritten \subseteq Unwritten'
           /\ pending \subseteq pending' \cup Unwritten'
           /\ c \in known \cup pending' \cup Unwritten'
           /\ known' \subseteq known \cup pending'
<1>0. [Thread -> SUBSET Chunk] \subseteq [Thread -> SUBSET (Chunk \cup {c})]
  <2>1. SUBSET Chunk \subseteq SUBSET (Chunk \cup {c})
    OBVIOUS
  <2> QED
    BY <2>1
<1>1. CASE c \in known \cup pending /\ UNCHANGED store
  <2>1. batch' = batch /\ batch \in [Thread -> SUBSET Chunk]
    BY <1>1 DEF store, StoreOK
  <2>2. batch' \in [Thread -> SUBSET (Chunk \cup {c})]
    BY <1>0, <2>1
  <2>4. UNCHANGED <<stored, pending, known, lost>> /\ Unwritten' = Unwritten
    BY <1>1, <2>1 DEF store, Unwritten
  <2> QED
    BY <1>1, <2>2, <2>4 DEF Given, Settled
<1>2. CASE /\ pending' = pending \cup {c} /\ known' = known \cup {c}
           /\ UNCHANGED <<batch, stored, lost>>
  <2>1. Unwritten' = Unwritten
    BY <1>2 DEF Unwritten
  <2> QED
    BY <1>2, <2>1 DEF Given, Settled, StoreOK
<1>3. CASE Drains(t, pending \cup {c}) /\ UNCHANGED <<known, stored, lost>>
  <2>1. /\ Unwritten' \subseteq Unwritten \cup (pending \cup {c})
        /\ Unwritten \subseteq Unwritten' /\ pending \cup {c} \subseteq Unwritten'
    BY <1>3, BatchIs DEF Drains, Reads
  <2>2. pending \subseteq Chunk
    BY DEF StoreOK, Given
  <2>3. batch' \in [Thread -> SUBSET (Chunk \cup {c})]
    BY <1>3, <2>2 DEF Drains, StoreOK
  <2> QED
    BY <1>3, <2>1, <2>3 DEF Drains, Given, Settled
<1> QED
  BY <1>1, <1>2, <1>3 DEF Reads

LEMMA ReadChunkReads ==
    ASSUME NEW t \in Thread, ReadChunk(t)
    PROVE  Reads(t, source[call[t].path].content[Len(call[t].got) + 1])
BY DEF ReadChunk, Reads

LEMMA FlushMoves ==
    ASSUME StoreOK, NEW t \in Thread, Flush(t)
    PROVE  /\ Given' = Given /\ Settled \subseteq Settled' /\ known' = known
           /\ batch' \in [Thread -> SUBSET Chunk]
           /\ stored' = stored /\ Unwritten \subseteq Unwritten'
           /\ pending \subseteq Unwritten' /\ pending' = {}
           /\ \A u \in Thread \ {t} : batch'[u] = batch[u]
<1>1. CASE UNCHANGED store /\ pending = {}
  BY <1>1 DEF store, Given, Settled, Unwritten, StoreOK
<1>2. CASE Drains(t, pending) /\ UNCHANGED <<known, stored, lost>>
  <2>1. /\ Unwritten' \subseteq Unwritten \cup pending
        /\ Unwritten \subseteq Unwritten' /\ pending \subseteq Unwritten'
        /\ \A u \in Thread \ {t} : batch'[u] = batch[u]
    BY <1>2, BatchIs DEF Flush, Drains
  <2>2. pending \subseteq Chunk
    BY DEF StoreOK, Given
  <2>3. batch' \in [Thread -> SUBSET Chunk]
    BY <1>2, <2>2 DEF Drains, StoreOK
  <2> QED
    BY <1>2, <2>1, <2>3 DEF Drains, Given, Settled
<1> QED
  BY <1>1, <1>2 DEF Flush

LEMMA WriteMoves ==
    ASSUME StoreOK, NEW t \in Thread, WriteBatch(t) \/ WriteBatchFails(t)
    PROVE  /\ Given' = Given /\ Settled \subseteq Settled' /\ known' \subseteq known \cup Given
           /\ batch' \in [Thread -> SUBSET Chunk] /\ batch'[t] = {}
           /\ stored \subseteq stored' /\ pending' = pending
           /\ Unwritten \subseteq Unwritten' \cup batch[t]
           /\ \A u \in Thread \ {t} : batch'[u] = batch[u]
<1>1. batch' = [batch EXCEPT ![t] = {}] /\ pending' = pending
  BY DEF WriteBatch, WriteBatchFails
<1>2. /\ Unwritten' \subseteq Unwritten /\ Unwritten \subseteq Unwritten' \cup batch[t]
      /\ batch[t] \subseteq Unwritten /\ batch'[t] = {}
      /\ \A u \in Thread \ {t} : batch'[u] = batch[u]
  BY <1>1, BatchIs
<1>3. batch' \in [Thread -> SUBSET Chunk]
  BY <1>1 DEF StoreOK
<1>4. PICK kept \in SUBSET batch[t] :
          /\ stored' = stored \cup kept /\ known' = known \cup kept
          /\ stored \cup lost \cup batch[t] = stored' \cup lost'
  <2>1. CASE WriteBatch(t)
    BY <2>1 DEF WriteBatch
  <2>2. CASE WriteBatchFails(t)
    <3>1. PICK kept \in {{}, batch[t]} :
              /\ stored' = stored \cup kept /\ known' = known \cup kept
              /\ lost' = (lost \cup batch[t]) \ stored'
      BY <2>2 DEF WriteBatchFails
    <3> QED
      BY <3>1
  <2> QED
    BY <2>1, <2>2
<1>5. Given' = Given
  BY <1>1, <1>2, <1>4 DEF Given, Settled
<1>6. Settled \subseteq Settled' /\ known' \subseteq known \cup Given
  BY <1>1, <1>2, <1>4 DEF Given, Settled
<1> QED
  BY <1>1, <1>2, <1>3, <1>4, <1>5, <1>6

LEMMA CrashMoves ==
    ASSUME StoreOK, Crash
    PROVE  /\ Given' \subseteq Given /\ Settled \subseteq Settled' /\ known' = stored'
           /\ batch' = [u \in Thread |-> {}] /\ stored \subseteq stored'
<1>1. PICK found \in SUBSET (Unwritten \cup lost) :
          /\ stored' = stored \cup found /\ known' = stored'
          /\ lost' = (lost \cup Unwritten) \ stored'
  BY DEF Crash
<1>2. batch' = [u \in Thread |-> {}] /\ pending' = {}
  BY DEF Crash
<1>3. Unwritten' = {}
  BY <1>2 DEF Unwritten
<1> QED
  BY <1>1, <1>2, <1>3 DEF Given, Settled

LEMMA BackupStore ==
    ASSUME TypeOK, NEW t \in Thread, BackupStep(t)
    PROVE  StoreOK'
<1> DEFINE c == call[t]
<1>0. c \in Call /\ Fits(pc[t], c) /\ StoreOK
  BY DEF TypeOK, CallsOK
<1>1. ASSUME NEW n \in Name, NEW m \in Entry \cup {None, Torn}, SetManifest(n, m)
      PROVE  /\ manifest' \in [Name -> Entry \cup {None, Torn}]
             /\ stable' \in [Thread -> SUBSET Name]
  BY <1>0, <1>1 DEF SetManifest, StoreOK
<1>2. pc[t] \in {"stat", "save", "write"} => c.name \in Name /\ c.entry \in Entry
  BY <1>0, ApiNames DEF Fits, Call
<1>3. ASSUME UNCHANGED store
      PROVE  Given' \subseteq Chunk /\ known' \subseteq Chunk /\ batch' \in [Thread -> SUBSET Chunk]
  BY <1>0, <1>3 DEF StoreOK, store, Given, Settled, Unwritten
<1>4. CASE UNCHANGED <<backend, damaged, store, manifest, marks>>
  BY <1>0, <1>3, <1>4 DEF StoreOK, marks
<1>5. CASE ReadChunk(t)
  <2> DEFINE x == source[c.path].content[Len(c.got) + 1]
  <2>1. x \in Chunk
    <3>1. /\ source[c.path].content \in Seq(Chunk) /\ c.got \in Seq(Chunk)
          /\ Len(c.got) < Len(source[c.path].content)
      BY <1>0, <1>5 DEF ReadChunk, Fits, TypeOK, WorldOK, Call
    <3> QED
      BY <3>1
  <2>2. Chunk \cup {x} = Chunk
    BY <2>1
  <2>3. Given' \subseteq Chunk /\ known' \subseteq Chunk /\ batch' \in [Thread -> SUBSET Chunk]
    <3>1. /\ Given' \subseteq Given \cup {x} /\ known' \subseteq known \cup Given'
          /\ batch' \in [Thread -> SUBSET (Chunk \cup {x})]
      <4>1. Given' \subseteq Given \cup {x}
        BY <1>0, <1>5, ReadChunkReads, ReadMoves
      <4> QED
        BY <1>0, <1>5, <4>1, ReadChunkReads, ReadMoves
    <3> QED
      BY <1>0, <2>1, <2>2, <3>1 DEF StoreOK
  <2> QED
    BY <1>0, <1>5, <2>3 DEF ReadChunk, StoreOK, marks
<1>6. CASE Flush(t)
  <2>1. Given' = Given /\ known' = known /\ batch' \in [Thread -> SUBSET Chunk]
    BY <1>0, <1>6, FlushMoves
  <2>2. UNCHANGED <<backend, damaged, manifest, marks>>
    BY <1>6 DEF Flush
  <2> QED
    BY <1>0, <2>1, <2>2 DEF StoreOK, marks
<1>7. CASE WriteBatch(t) \/ WriteBatchFails(t)
  <2>1. Given' = Given /\ known' \subseteq known \cup Given /\ batch' \in [Thread -> SUBSET Chunk]
    BY <1>0, <1>7, WriteMoves
  <2>2. UNCHANGED <<backend, damaged, manifest, acked, broken>>
    BY <1>7 DEF WriteBatch, WriteBatchFails
  <2>3. stable' \in [Thread -> SUBSET Name]
    BY <1>0, <1>7 DEF WriteBatch, WriteBatchFails, Spoils, StoreOK
  <2> QED
    BY <1>0, <2>1, <2>2, <2>3 DEF StoreOK
<1>8. CASE PutManifest(t)
  BY <1>0, <1>1, <1>2, <1>3, <1>8 DEF PutManifest, StoreOK
<1>9. CASE OpenManifest(t)
  BY <1>0, <1>1, <1>2, <1>3, <1>9 DEF OpenManifest, StoreOK
<1>10. CASE WriteManifest(t)
  BY <1>0, <1>1, <1>2, <1>3, <1>10 DEF WriteManifest, StoreOK
<1>11. CASE PutFails(t)
  BY <1>0, <1>1, <1>2, <1>3, <1>11 DEF PutFails, StoreOK
<1>12. CASE WriteFails(t)
  BY <1>0, <1>1, <1>2, <1>3, <1>12 DEF WriteFails, StoreOK
<1> QED
  BY <1>4, <1>5, <1>6, <1>7, <1>8, <1>9, <1>10, <1>11, <1>12
     DEF BackupStep, StartBackup, CheckManifest, CompareSource, LeaveWriter, StatSource,
         BackupFails

LEMMA StoreNext ==
    ASSUME TypeOK, [Next]_vars
    PROVE  StoreOK'
<1>0. StoreOK
  BY DEF TypeOK
<1>1. ASSUME NEW t \in Thread, BackupStep(t) PROVE StoreOK'
  BY <1>1, BackupStore
<1>8. ASSUME UNCHANGED store
      PROVE  Given' \subseteq Chunk /\ known' \subseteq Chunk /\ batch' \in [Thread -> SUBSET Chunk]
  BY <1>0, <1>8 DEF StoreOK, store, Given, Settled, Unwritten
<1>2. ASSUME UNCHANGED <<backend, damaged, store, manifest, acked, broken>>,
             stable' \in [Thread -> SUBSET Name]
      PROVE  StoreOK'
  BY <1>0, <1>2, <1>8 DEF StoreOK
<1>3. ASSUME NEW t \in Thread, WalkStep(t) PROVE StoreOK'
  <2>1. UNCHANGED <<backend, damaged, store, manifest, acked, broken>>
    BY <1>3 DEF WalkStep, WalkAll, WalkOne, StartWalk, FinishWalk, WalkFails, WalkReturns,
                VisitAbsent, VisitTorn, VisitEntry, VisitUnreadable, marks
  <2>2. UNCHANGED stable \/ \E names \in SUBSET Name : stable' = [stable EXCEPT ![t] = names]
    <3>1. ASSUME NEW n \in Name, WalkOne(t, n)
          PROVE  \E names \in SUBSET Name : stable' = [stable EXCEPT ![t] = names]
      <4>1. stable' = [stable EXCEPT ![t] = {n}]
        BY <3>1 DEF WalkOne, StartWalk
      <4> QED
        BY <4>1
    <3>2. CASE WalkAll(t)
      <4>1. stable' = [stable EXCEPT ![t] = Listed]
        BY <3>2 DEF WalkAll, StartWalk
      <4> QED
        BY <4>1 DEF Listed
    <3>3. CASE WalkReturns(t)
      BY <3>3 DEF WalkReturns
    <3> QED
      BY <1>3, <3>1, <3>2, <3>3 DEF WalkStep, FinishWalk, WalkFails, VisitAbsent, VisitTorn,
                                    VisitEntry, VisitUnreadable, marks
  <2> QED
    BY <1>0, <1>2, <2>1, <2>2 DEF StoreOK
<1>4. ASSUME NEW t \in Thread, DeleteStep(t) PROVE StoreOK'
  <2>1. CASE RemoveManifest(t)
    <3>1. call[t].name \in Name
      BY <2>1 DEF RemoveManifest, TypeOK, CallsOK, Fits
    <3> QED
      BY <1>0, <1>8, <2>1, <3>1 DEF RemoveManifest, SetManifest, StoreOK
  <2>2. CASE UNCHANGED <<backend, damaged, store, manifest, marks>>
    BY <1>0, <1>8, <2>2 DEF StoreOK, marks
  <2> QED
    BY <1>4, <2>1, <2>2 DEF DeleteStep, StartDelete, HasFile, DeleteFails
<1>5. ASSUME NEW t \in Thread, Return(t) PROVE StoreOK'
  BY <1>0, <1>2, <1>5 DEF Return, StoreOK
<1>6. CASE Crash
  <2>1. Given' \subseteq Chunk /\ known' \subseteq Chunk /\ batch' \in [Thread -> SUBSET Chunk]
    <3>1. Given' \subseteq Given /\ known' = stored' /\ batch' = [u \in Thread |-> {}]
      BY <1>0, <1>6, CrashMoves
    <3> QED
      BY <1>0, <3>1 DEF StoreOK, Given, Settled
  <2> QED
    BY <1>0, <1>6, <2>1 DEF Crash, StoreOK
<1>7. CASE UNCHANGED <<backend, damaged, store, manifest, marks>>
  BY <1>0, <1>7, <1>8 DEF StoreOK, marks
<1> QED
  BY <1>1, <1>3, <1>4, <1>5, <1>6, <1>7 DEF Next, Tick, Edit, vars, world

LEMMA CallsNext ==
    ASSUME TypeOK, [Next]_vars
    PROVE  CallsOK'
<1>1. ASSUME NEW t \in Thread, Return(t) PROVE CallsOK'
  BY <1>1, ReturnsType DEF Return, TypeOK
<1> QED
  BY <1>1, BackupCalls, WalkCalls, DeleteCalls, OtherCalls DEF Next, Tick, Edit, vars

(* The state of every call, of the files and of the store keeps its type.  *)
THEOREM TypeCorrect == Spec => []TypeOK
<1>1. Init => TypeOK
  BY InitType
<1>2. TypeOK /\ [Next]_vars => TypeOK'
  BY CallsNext, WorldNext, StoreNext DEF TypeOK
<1> QED
  BY <1>1, <1>2, PTL DEF Spec

-----------------------------------------------------------------------------
(* Who changes what.                                                       *)

(* The variables a backup relies on, of a call that another thread's step  *)
(* leaves alone.                                                           *)
SameCall(c, d) ==
    /\ d.op = c.op /\ d.path = c.path /\ d.name = c.name
    /\ d.got = c.got /\ d.entry = c.entry

(* A step of a backup leaves the other threads alone.                      *)
LEMMA OthersBackup ==
    ASSUME TypeOK, NEW t \in Thread, NEW u \in Thread, BackupStep(t), t # u
    PROVE  pc'[u] = pc[u] /\ call'[u] = call[u]
<1>0. pc \in [Thread -> Steps] /\ call \in [Thread -> Call]
  BY DEF TypeOK, CallsOK
<1>1. ASSUME Returns(t) \/ Goes(t, pc'[t]) \/ UNCHANGED pc PROVE pc'[u] = pc[u]
  BY <1>0, <1>1 DEF Goes, Returns
<1>2. ASSUME Returns(t) \/ UNCHANGED call PROVE call'[u] = call[u]
  BY <1>0, <1>2 DEF Returns
<1>3. ASSUME NEW step, Goes(t, step) PROVE pc'[u] = pc[u]
  BY <1>0, <1>3 DEF Goes
<1>4. ASSUME NEW p \in Path, NEW force \in BOOLEAN, StartBackup(t, p, force)
      PROVE  pc'[u] = pc[u] /\ call'[u] = call[u]
  BY <1>0, <1>3, <1>4 DEF StartBackup
<1>5. CheckManifest(t) => pc'[u] = pc[u] /\ call'[u] = call[u]
  BY <1>0, <1>1, <1>2, <1>3 DEF CheckManifest
<1>6. CompareSource(t) => pc'[u] = pc[u] /\ call'[u] = call[u]
  <2>1. CompareSource(t) => Goes(t, "ok") \/ Goes(t, "read")
    BY DEF CompareSource
  <2>2. CompareSource(t) => call'[u] = call[u]
    BY <1>0 DEF CompareSource
  <2> QED
    BY <1>3, <2>1, <2>2
<1>7. ReadChunk(t) => pc'[u] = pc[u] /\ call'[u] = call[u]
  BY <1>0 DEF ReadChunk
<1>8. Flush(t) \/ WriteBatch(t) \/ LeaveWriter(t) \/ StatSource(t)
          => pc'[u] = pc[u] /\ call'[u] = call[u]
  BY <1>0, <1>3 DEF Flush, WriteBatch, LeaveWriter, StatSource
<1>9. OpenManifest(t) => pc'[u] = pc[u] /\ call'[u] = call[u]
  BY <1>0, <1>3 DEF OpenManifest
<1>10. Returns(t) => pc'[u] = pc[u] /\ call'[u] = call[u]
  BY <1>1, <1>2
<1> QED
  BY <1>4, <1>5, <1>6, <1>7, <1>8, <1>9, <1>10
     DEF BackupStep, WriteBatchFails, PutManifest, WriteManifest, BackupFails, PutFails,
         WriteFails

LEMMA ThreadSteps ==
    ASSUME TypeOK, [Next]_vars, NEW u \in Thread
    PROVE  \/ BackupStep(u)
           \/ pc'[u] = pc[u] /\ SameCall(call[u], call'[u])
           \/ pc'[u] \in {"idle", "walk", "has", "remove", "ok"}
<1> DEFINE Goal == \/ BackupStep(u)
                   \/ pc'[u] = pc[u] /\ SameCall(call[u], call'[u])
                   \/ pc'[u] \in {"idle", "walk", "has", "remove", "ok"}
<1>0. pc \in [Thread -> Steps] /\ call \in [Thread -> Call]
  BY DEF TypeOK, CallsOK
<1>1. CASE UNCHANGED <<pc, call>>
  BY <1>1 DEF SameCall
<1>2. ASSUME NEW t \in Thread, NEW step \in {"idle", "walk", "has", "remove", "ok"}, NEW c,
             pc' = [pc EXCEPT ![t] = step], call' = [call EXCEPT ![t] = c]
      PROVE  Goal
  <2>1. CASE u = t
    BY <1>0, <1>2, <2>1
  <2>2. CASE u # t
    BY <1>0, <1>2, <2>2 DEF SameCall
  <2> QED
    BY <2>1, <2>2
<1>3. ASSUME NEW t \in Thread, Returns(t) PROVE Goal
  BY <1>2, <1>3 DEF Returns, Goes
<1>4. ASSUME NEW t \in Thread, BackupStep(t), t # u PROVE Goal
  BY <1>4, OthersBackup DEF SameCall
<1>5. ASSUME NEW t \in Thread, WalkStep(t) PROVE Goal
  <2>1. ASSUME NEW o, NEW names, StartWalk(t, o, names) PROVE Goal
    BY <1>2, <2>1 DEF StartWalk, Goes
  <2>2. CASE FinishWalk(t)
    <3>1. call' = [call EXCEPT ![t] = call[t]]
      BY <1>0, <2>2 DEF FinishWalk
    <3> QED
      BY <1>2, <2>2, <3>1 DEF FinishWalk, Goes
  <2>3. CASE WalkReturns(t)
    BY <1>3, <2>3 DEF WalkReturns
  <2>4. ASSUME NEW n \in Name, VisitAbsent(t, n) \/ VisitEntry(t, n) PROVE Goal
    <3>1. UNCHANGED pc /\ pc[t] = "walk"
      BY <2>4 DEF VisitAbsent, VisitEntry, Visits
    <3>2. u # t => call'[u] = call[u]
      BY <1>0, <2>4 DEF VisitAbsent, VisitEntry
    <3> QED
      BY <3>1, <3>2 DEF SameCall
  <2> QED
    BY <1>5, <2>1, <2>2, <2>3, <2>4
       DEF WalkStep, WalkAll, WalkOne, WalkFails, VisitTorn, VisitUnreadable
<1>6. ASSUME NEW t \in Thread, DeleteStep(t) PROVE Goal
  <2>1. ASSUME NEW n \in Name, StartDelete(t, n) PROVE Goal
    BY <1>2, <2>1 DEF StartDelete, Goes
  <2>2. CASE HasFile(t)
    <3>1. CASE Goes(t, "remove") /\ UNCHANGED call
      <4>1. call' = [call EXCEPT ![t] = call[t]]
        BY <1>0, <3>1
      <4> QED
        BY <1>2, <3>1, <4>1 DEF Goes
    <3> QED
      BY <1>3, <2>2, <3>1 DEF HasFile
  <2>3. CASE RemoveManifest(t)
    <3>1. u # t => /\ pc'[u] = pc[u]
                   /\ call'[u] = [call[u] EXCEPT !.linked = @ /\ ~Writing(u, call[t].name)]
      BY <1>0, <2>3 DEF RemoveManifest, Goes
    <3>2. u # t => SameCall(call[u], call'[u])
      BY <1>0, <3>1 DEF SameCall, Call
    <3>3. u = t => pc'[u] = "idle"
      BY <1>0, <2>3 DEF RemoveManifest, Goes
    <3> QED
      BY <3>1, <3>2, <3>3
  <2>4. CASE DeleteFails(t)
    BY <1>3, <2>4 DEF DeleteFails
  <2> QED
    BY <1>6, <2>1, <2>2, <2>3, <2>4 DEF DeleteStep
<1>7. CASE Crash
  BY <1>7 DEF Crash
<1> QED
  BY <1>1, <1>3, <1>4, <1>5, <1>6, <1>7 DEF Next, Return, Tick, Edit, vars

(* Only a backup that saves gives a name a new entry, and it is its own.   *)
LEMMA ManifestSteps ==
    ASSUME TypeOK, [Next]_vars, NEW n \in Name
    PROVE  \/ manifest'[n] = manifest[n]
           \/ manifest'[n] \in {None, Torn}
           \/ \E t \in Thread : /\ pc[t] \in {"save", "write"} /\ call[t].name = n
                                /\ manifest'[n] = call[t].entry
<1> DEFINE Goal == \/ manifest'[n] = manifest[n]
                   \/ manifest'[n] \in {None, Torn}
                   \/ \E t \in Thread : /\ pc[t] \in {"save", "write"} /\ call[t].name = n
                                        /\ manifest'[n] = call[t].entry
<1>0. manifest \in [Name -> Entry \cup {None, Torn}]
  BY DEF TypeOK, StoreOK
<1>1. CASE UNCHANGED manifest
  BY <1>1
<1>2. ASSUME NEW t \in Thread, NEW m, SetManifest(call[t].name, m),
             m \in {None, Torn} \/ (pc[t] \in {"save", "write"} /\ m = call[t].entry)
      PROVE  Goal
  <2>1. CASE n = call[t].name
    BY <1>0, <1>2, <2>1 DEF SetManifest
  <2>2. CASE n # call[t].name
    BY <1>0, <1>2, <2>2 DEF SetManifest
  <2> QED
    BY <2>1, <2>2
<1>3. ASSUME NEW t \in Thread, BackupStep(t) PROVE Goal
  <2>1. CASE PutManifest(t)
    BY <1>2, <2>1 DEF PutManifest
  <2>2. CASE OpenManifest(t)
    BY <1>2, <2>2 DEF OpenManifest
  <2>3. CASE WriteManifest(t)
    BY <1>1, <1>2, <2>3 DEF WriteManifest
  <2>4. CASE PutFails(t)
    BY <1>2, <2>4 DEF PutFails
  <2>5. CASE WriteFails(t)
    BY <1>1, <1>2, <2>5 DEF WriteFails
  <2> QED
    BY <1>1, <1>3, <2>1, <2>2, <2>3, <2>4, <2>5
       DEF BackupStep, StartBackup, CheckManifest, CompareSource, ReadChunk, Flush, WriteBatch,
           WriteBatchFails, LeaveWriter, StatSource, BackupFails
<1>4. ASSUME NEW t \in Thread, RemoveManifest(t) PROVE Goal
  BY <1>2, <1>4 DEF RemoveManifest
<1>5. CASE Crash
  BY <1>0, <1>5 DEF Crash
<1>6. ASSUME NEW t \in Thread, WalkStep(t) PROVE UNCHANGED manifest
  BY <1>6 DEF WalkStep, WalkAll, WalkOne, StartWalk, FinishWalk, WalkFails, WalkReturns,
              VisitAbsent, VisitTorn, VisitEntry, VisitUnreadable
<1> QED
  BY <1>1, <1>3, <1>4, <1>5, <1>6
     DEF Next, DeleteStep, StartDelete, HasFile, DeleteFails, Return, Tick, Edit, vars

(* Who moves chunks between the index, the buffer, batches and packs.      *)
LEMMA StoreSteps ==
    ASSUME [Next]_vars
    PROVE  \/ UNCHANGED store
           \/ \E t \in Thread : ReadChunk(t) \/ Flush(t) \/ WriteBatch(t) \/ WriteBatchFails(t)
           \/ Crash
<1>1. ASSUME NEW t \in Thread, BackupStep(t)
      PROVE  UNCHANGED store \/ ReadChunk(t) \/ Flush(t) \/ WriteBatch(t) \/ WriteBatchFails(t)
  BY <1>1 DEF BackupStep, StartBackup, CheckManifest, CompareSource, LeaveWriter, StatSource,
              PutManifest, OpenManifest, WriteManifest, BackupFails, PutFails, WriteFails
<1>2. ASSUME NEW t \in Thread, WalkStep(t) PROVE UNCHANGED store
  BY <1>2 DEF WalkStep, WalkAll, WalkOne, StartWalk, FinishWalk, WalkFails, WalkReturns,
              VisitAbsent, VisitTorn, VisitEntry, VisitUnreadable
<1>3. ASSUME NEW t \in Thread, DeleteStep(t) PROVE UNCHANGED store
  BY <1>3 DEF DeleteStep, StartDelete, HasFile, RemoveManifest, DeleteFails
<1> QED
  BY <1>1, <1>2, <1>3 DEF Next, Return, Tick, Edit, vars

LEMMA ReadChunkMoves ==
    ASSUME TypeOK, NEW t \in Thread, ReadChunk(t)
    PROVE  LET c == source[call[t].path].content[Len(call[t].got) + 1] IN
           /\ c \in known \cup Given'
           /\ Given \subseteq Given' /\ Given' \subseteq Given \cup {c}
           /\ Settled \subseteq Settled' /\ known' \subseteq known \cup Given'
           /\ stored' = stored /\ Unwritten \subseteq Unwritten'
           /\ pending \subseteq pending' \cup Unwritten'
           /\ c \in known \cup pending' \cup Unwritten'
           /\ known' \subseteq known \cup pending'
           /\ \A u \in Thread \ {t} : batch'[u] = batch[u]
<1> DEFINE c == source[call[t].path].content[Len(call[t].got) + 1]
<1>1. \A u \in Thread \ {t} : batch'[u] = batch[u]
  <2>1. CASE UNCHANGED batch
    BY <2>1
  <2>2. CASE batch' = [batch EXCEPT ![t] = pending \cup {c}]
    BY <2>2 DEF TypeOK, StoreOK
  <2> QED
    BY <2>1, <2>2, ReadChunkReads DEF Reads, Drains, store
<1>2. StoreOK /\ Reads(t, c)
  BY ReadChunkReads DEF TypeOK
<1> QED
  BY <1>1, <1>2, ReadMoves

(* What was drained is not forgotten; what is in the buffer, by a crash.   *)
LEMMA SettledGrows ==
    ASSUME TypeOK, [Next]_vars
    PROVE  /\ Settled \subseteq Settled' /\ stored \subseteq stored'
           /\ Crash \/ (Given \subseteq Given' /\ known' \subseteq known \cup Given')
<1>0. StoreOK
  BY DEF TypeOK
<1>1. CASE UNCHANGED store
  BY <1>1 DEF store, Given, Settled, Unwritten
<1>2. ASSUME NEW t \in Thread, ReadChunk(t)
      PROVE  /\ Settled \subseteq Settled' /\ stored \subseteq stored' /\ Given \subseteq Given'
             /\ known' \subseteq known \cup Given'
  BY <1>2, ReadChunkMoves
<1>3. ASSUME NEW t \in Thread, Flush(t)
      PROVE  /\ Settled \subseteq Settled' /\ stored \subseteq stored' /\ Given \subseteq Given'
             /\ known' \subseteq known \cup Given'
  BY <1>0, <1>3, FlushMoves
<1>4. ASSUME NEW t \in Thread, WriteBatch(t) \/ WriteBatchFails(t)
      PROVE  /\ Settled \subseteq Settled' /\ stored \subseteq stored' /\ Given \subseteq Given'
             /\ known' \subseteq known \cup Given'
  BY <1>0, <1>4, WriteMoves
<1>5. CASE Crash
  BY <1>0, <1>5, CrashMoves
<1> QED
  BY <1>1, <1>2, <1>3, <1>4, <1>5, StoreSteps

(* Damage is of the disk, not of a step.                                   *)
LEMMA DamageStays ==
    ASSUME [Next]_vars
    PROVE  UNCHANGED damaged
<1>1. ASSUME NEW t \in Thread, BackupStep(t) PROVE UNCHANGED damaged
  BY <1>1 DEF BackupStep, StartBackup, CheckManifest, CompareSource, ReadChunk, Flush,
              WriteBatch, WriteBatchFails, LeaveWriter, StatSource, PutManifest, OpenManifest,
              WriteManifest, BackupFails, PutFails, WriteFails
<1>2. ASSUME NEW t \in Thread, WalkStep(t) PROVE UNCHANGED damaged
  BY <1>2 DEF WalkStep, WalkAll, WalkOne, StartWalk, FinishWalk, WalkFails, WalkReturns,
              VisitAbsent, VisitTorn, VisitEntry, VisitUnreadable
<1>3. ASSUME NEW t \in Thread, DeleteStep(t) PROVE UNCHANGED damaged
  BY <1>3 DEF DeleteStep, StartDelete, HasFile, RemoveManifest, DeleteFails
<1> QED
  BY <1>1, <1>2, <1>3 DEF Next, Return, Crash, Tick, Edit, vars

-----------------------------------------------------------------------------
(* What a step of a backup does to its own call.                           *)

LEMMA BackupMoves ==
    ASSUME TypeOK, NEW u \in Thread, BackupStep(u)
    PROVE  LET c == call[u]
               d == call'[u]
               content == source[c.path].content
           IN
           \/ pc'[u] \notin {"compare", "read", "flush", "stat", "save", "write"}
           \/ /\ pc[u] = "check" /\ pc'[u] = "compare" /\ d.name = c.name
              /\ d.entry = manifest[c.name] /\ d.entry \notin {None, Torn}
           \/ pc'[u] = "read" /\ d.got = <<>>
           \/ /\ pc[u] = "read" /\ pc'[u] = "read" /\ ReadChunk(u) /\ d.path = c.path
              /\ Len(c.got) < Len(content) /\ d.got = Append(c.got, content[Len(c.got) + 1])
           \/ /\ pc[u] = "read" /\ pc'[u] \in {"flush", "stat"} /\ SameCall(c, d) /\ Flush(u)
              /\ Len(c.got) >= Len(content) /\ (pc'[u] = "stat" => pending = {})
           \/ pc[u] # "flush" /\ pc'[u] = pc[u] /\ SameCall(c, d) /\ WriteBatch(u)
           \/ pc[u] = "flush" /\ pc'[u] = "stat" /\ SameCall(c, d) /\ WriteBatch(u)
           \/ /\ pc[u] = "stat" /\ pc'[u] = "save" /\ StatSource(u)
              /\ d.name = c.name /\ d.path = c.path /\ d.got = c.got
              /\ d.entry = [size |-> Len(content), modified |-> source[c.path].second,
                            chunks |-> c.got]
           \/ pc[u] = "save" /\ pc'[u] = "write" /\ SameCall(c, d) /\ OpenManifest(u)
<1> DEFINE c == call[u]
           d == call'[u]
           content == source[c.path].content
<1>0. /\ pc \in [Thread -> Steps] /\ call \in [Thread -> Call]
      /\ c \in Call /\ Fits(pc[u], c)
  BY DEF TypeOK, CallsOK
<1>1. ASSUME NEW step, Goes(u, step) PROVE pc'[u] = step
  BY <1>0, <1>1 DEF Goes
<1>2. ASSUME NEW p \in Path, NEW force \in BOOLEAN, StartBackup(u, p, force)
      PROVE  pc'[u] = "check" \/ (pc'[u] = "read" /\ d.got = <<>>)
  <2>1. d.got = <<>>
    BY <1>0, <1>2 DEF StartBackup, Idle
  <2>2. Goes(u, "check") \/ Goes(u, "read")
    BY <1>2 DEF StartBackup
  <2> QED
    BY <1>1, <2>1, <2>2
<1>3. ASSUME CheckManifest(u)
      PROVE  \/ pc'[u] = "read" /\ d.got = <<>>
             \/ pc'[u] = "idle"
             \/ /\ pc[u] = "check" /\ pc'[u] = "compare" /\ d.name = c.name
                /\ d.entry = manifest[c.name] /\ d.entry \notin {None, Torn}
  <2>1. pc[u] = "check" /\ c.got = <<>>
    BY <1>0, <1>3 DEF CheckManifest, Fits
  <2>2. CASE Goes(u, "read") /\ UNCHANGED call
    BY <1>1, <2>1, <2>2
  <2>3. CASE Returns(u)
    BY <1>1, <2>3 DEF Returns
  <2>4. CASE /\ manifest[c.name] \notin {None, Torn} /\ Goes(u, "compare")
             /\ call' = [call EXCEPT ![u].entry = manifest[c.name]]
    <3>1. d.name = c.name /\ d.entry = manifest[c.name]
      BY <1>0, <2>4 DEF Call
    <3> QED
      BY <1>1, <2>1, <2>4, <3>1
  <2> QED
    BY <1>3, <2>2, <2>3, <2>4 DEF CheckManifest
<1>4. ASSUME CompareSource(u)
      PROVE  pc'[u] = "ok" \/ (pc'[u] = "read" /\ d.got = <<>>)
  <2>1. c.got = <<>>
    BY <1>0, <1>4 DEF CompareSource, Fits
  <2>2. CASE Goes(u, "ok")
    BY <1>1, <2>2
  <2>3. CASE Goes(u, "read") /\ call' = [call EXCEPT ![u].entry = NoEntry]
    <3>1. d.got = c.got
      BY <1>0, <2>3 DEF Call
    <3> QED
      BY <1>1, <2>1, <2>3, <3>1
  <2> QED
    BY <1>4, <2>2, <2>3 DEF CompareSource
<1>5. ASSUME ReadChunk(u)
      PROVE  /\ pc[u] = "read" /\ pc'[u] = "read" /\ d.path = c.path
             /\ Len(c.got) < Len(content) /\ d.got = Append(c.got, content[Len(c.got) + 1])
  BY <1>0, <1>5 DEF ReadChunk, Call
<1>6. ASSUME Flush(u)
      PROVE  \/ pc'[u] \in {"left", "idle"}
             \/ /\ pc[u] = "read" /\ pc'[u] \in {"flush", "stat"} /\ SameCall(c, d)
                /\ Len(c.got) >= Len(content) /\ (pc'[u] = "stat" => pending = {})
  <2>1. SameCall(c, d)
    BY <1>6 DEF Flush, SameCall
  <2>2. CASE pending = {}
    BY <1>1, <1>6, <2>1, <2>2 DEF Flush
  <2>3. CASE pending # {}
    BY <1>1, <1>6, <2>1, <2>3 DEF Flush
  <2> QED
    BY <2>2, <2>3
<1>7. ASSUME StatSource(u)
      PROVE  /\ pc[u] = "stat" /\ pc'[u] = "save"
             /\ d.name = c.name /\ d.path = c.path /\ d.got = c.got
             /\ d.entry = [size |-> Len(content), modified |-> source[c.path].second,
                           chunks |-> c.got]
  BY <1>0, <1>1, <1>7 DEF StatSource, Call
<1>8. ASSUME OpenManifest(u)
      PROVE  pc[u] = "save" /\ pc'[u] = "write" /\ SameCall(c, d)
  BY <1>0, <1>1, <1>8 DEF OpenManifest, SameCall, Call
<1>9. ASSUME Returns(u) PROVE pc'[u] = "idle"
  BY <1>1, <1>9 DEF Returns
<1>10. ASSUME WriteBatch(u)
       PROVE  SameCall(c, d) /\ pc'[u] = (IF pc[u] = "flush" THEN "stat" ELSE pc[u])
  BY <1>0, <1>10 DEF WriteBatch, SameCall
<1>11. ASSUME LeaveWriter(u) PROVE pc'[u] = "left"
  BY <1>1, <1>11 DEF LeaveWriter
<1> QED
  BY <1>2, <1>3, <1>4, <1>5, <1>6, <1>7, <1>8, <1>9, <1>10, <1>11
     DEF BackupStep, WriteBatchFails, PutManifest, WriteManifest, BackupFails, PutFails,
         WriteFails

(* A call that reads or flushes is not disturbed by other threads.         *)
LEMMA BusyStays ==
    ASSUME TypeOK, [Next]_vars, NEW t \in Thread, ~BackupStep(t), ~Crash,
           pc[t] \in {"compare", "read", "flush", "left"}
    PROVE  pc'[t] = pc[t]
<1>0. pc \in [Thread -> Steps]
  BY DEF TypeOK, CallsOK
<1>1. ASSUME NEW u \in Thread, BackupStep(u) PROVE pc'[t] = pc[t]
  BY <1>1, OthersBackup
<1>2. ASSUME NEW u \in Thread, WalkStep(u) PROVE pc'[t] = pc[t]
  <2>1. ASSUME NEW step, Goes(u, step), pc[u] \in {"idle", "walk"} PROVE pc'[t] = pc[t]
    BY <1>0, <2>1 DEF Goes
  <2> QED
    BY <1>2, <2>1
       DEF WalkStep, WalkAll, WalkOne, StartWalk, FinishWalk, WalkFails, WalkReturns,
           VisitAbsent, VisitTorn, VisitEntry, VisitUnreadable, Visits, Returns
<1>3. ASSUME NEW u \in Thread, DeleteStep(u) PROVE pc'[t] = pc[t]
  <2>1. ASSUME NEW step, Goes(u, step), pc[u] \in {"idle", "has", "remove"} PROVE pc'[t] = pc[t]
    BY <1>0, <2>1 DEF Goes
  <2> QED
    BY <1>3, <2>1 DEF DeleteStep, StartDelete, HasFile, RemoveManifest, DeleteFails, Returns
<1>4. ASSUME NEW u \in Thread, Return(u) PROVE pc'[t] = pc[t]
  BY <1>0, <1>4 DEF Return, Returns, Goes
<1> QED
  BY <1>1, <1>2, <1>3, <1>4 DEF Next, Tick, Edit, vars

(* A batch is drained and written by the steps of its own call.            *)
LEMMA OthersBatch ==
    ASSUME TypeOK, [Next]_vars, NEW t \in Thread, ~BackupStep(t), ~Crash
    PROVE  batch'[t] = batch[t]
<1>0. StoreOK
  BY DEF TypeOK
<1>1. CASE UNCHANGED store
  BY <1>1 DEF store
<1>2. ASSUME NEW u \in Thread, ReadChunk(u) PROVE batch'[t] = batch[t]
  <2>1. u # t
    BY <1>2 DEF BackupStep
  <2> QED
    BY <1>2, <2>1, ReadChunkMoves
<1>3. ASSUME NEW u \in Thread, Flush(u) PROVE batch'[t] = batch[t]
  <2>1. u # t
    BY <1>3 DEF BackupStep
  <2> QED
    BY <1>0, <1>3, <2>1, FlushMoves
<1>4. ASSUME NEW u \in Thread, WriteBatch(u) \/ WriteBatchFails(u) PROVE batch'[t] = batch[t]
  <2>1. u # t
    BY <1>4 DEF BackupStep
  <2> QED
    BY <1>0, <1>4, <2>1, WriteMoves
<1> QED
  BY <1>1, <1>2, <1>3, <1>4, StoreSteps

-----------------------------------------------------------------------------
(* Every manifest names chunks that left the buffer.                       *)

LEMMA BatchNext ==
    ASSUME TypeOK, FlushedInv, [Next]_vars, NEW t \in Thread, batch'[t] # {}
    PROVE  pc'[t] \in {"read", "flush", "left"}
<1>0. StoreOK /\ pc \in [Thread -> Steps] /\ call[t] \in Call
  BY DEF TypeOK, CallsOK
<1>1. ASSUME batch[t] # {} PROVE pc[t] \in {"read", "flush", "left"}
  BY <1>1 DEF FlushedInv
<1>2. CASE Crash
  BY <1>0, <1>2, CrashMoves
<1>3. CASE ~Crash /\ ~BackupStep(t)
  BY <1>1, <1>3, OthersBatch, BusyStays
<1>4. CASE BackupStep(t)
  <2>1. ASSUME NEW step, Goes(t, step) PROVE pc'[t] = step
    BY <1>0, <2>1 DEF Goes
  <2>2. CASE ReadChunk(t)
    BY <2>2 DEF ReadChunk
  <2>3. CASE Flush(t)
    <3>1. CASE UNCHANGED store
      BY <2>3, <3>1 DEF Flush, store
    <3>2. CASE Goes(t, IF pc[t] = "left" THEN "left" ELSE "flush")
      BY <2>1, <3>2
    <3> QED
      BY <2>3, <3>1, <3>2 DEF Flush
  <2>4. CASE WriteBatch(t) \/ WriteBatchFails(t)
    BY <1>0, <2>4, WriteMoves
  <2>5. CASE LeaveWriter(t)
    BY <2>1, <2>5 DEF LeaveWriter
  <2>6. CASE UNCHANGED store /\ batch[t] = {}
    BY <2>6 DEF store
  <2>7. CASE UNCHANGED store /\ pc[t] \notin {"read", "flush", "left"}
    BY <1>1, <2>7 DEF store
  <2> QED
    BY <1>4, <2>2, <2>3, <2>4, <2>5, <2>6, <2>7
       DEF BackupStep, StartBackup, CheckManifest, CompareSource, StatSource, PutManifest,
           OpenManifest, WriteManifest, BackupFails, PutFails, WriteFails
<1> QED
  BY <1>2, <1>3, <1>4

(* Reading one chunk more.                                                 *)
LEMMA AppendChunks ==
    ASSUME NEW s \in Seq(Chunk), NEW c
    PROVE  ChunksOf(Append(s, c)) \subseteq ChunksOf(s) \cup {c}
<1> SUFFICES ASSUME NEW i \in 1 .. (Len(s) + 1)
             PROVE  Append(s, c)[i] \in ChunksOf(s) \cup {c}
  BY DEF ChunksOf
<1> QED
  BY DEF ChunksOf

LEMMA FlushedNext ==
    ASSUME TypeOK, FlushedInv, [Next]_vars
    PROVE  FlushedInv'
<1>1. known' \subseteq Given'
  <2>1. CASE Crash
    <3>1. known' = stored'
      BY <2>1, CrashMoves DEF TypeOK
    <3> QED
      BY <3>1 DEF Given, Settled
  <2>2. CASE ~Crash
    BY <2>2, SettledGrows DEF FlushedInv
  <2> QED
    BY <2>1, <2>2
<1>2. ASSUME NEW u \in Thread, batch'[u] # {} PROVE pc'[u] \in {"read", "flush", "left"}
  BY <1>2, BatchNext
<1>3. ASSUME NEW u \in Thread
      PROVE  /\ pc'[u] = "read" => ChunksOf(call'[u].got) \subseteq Given'
             /\ pc'[u] \in {"flush", "stat", "save", "write"} =>
                   ChunksOf(call'[u].got) \subseteq Settled'
  <2> DEFINE c == call[u]
             d == call'[u]
  <2>0. c \in Call /\ StoreOK /\ Fits(pc[u], c)
    BY DEF TypeOK, CallsOK
  <2>1. Settled \subseteq Settled'
    BY SettledGrows
  <2>2. pc'[u] # "idle" => ~Crash
    BY DEF Crash
  <2>3. pc'[u] # "idle" => Given \subseteq Given'
    BY <2>2, SettledGrows
  <2>4. pc[u] = "read" => ChunksOf(c.got) \subseteq Given
    BY DEF FlushedInv
  <2>5. pc[u] \in {"flush", "stat", "save", "write"} => ChunksOf(c.got) \subseteq Settled
    BY DEF FlushedInv
  <2>6. CASE BackupStep(u)
    <3>1. CASE pc'[u] = "read" /\ d.got = <<>>
      BY <3>1 DEF ChunksOf
    <3>2. CASE /\ pc[u] = "read" /\ pc'[u] = "read" /\ ReadChunk(u)
               /\ d.got = Append(c.got, source[c.path].content[Len(c.got) + 1])
      <4> DEFINE x == source[c.path].content[Len(c.got) + 1]
      <4>1. x \in Given'
        BY <2>3, <3>2, ReadChunkMoves DEF FlushedInv
      <4>2. ChunksOf(d.got) \subseteq ChunksOf(c.got) \cup {x}
        BY <2>0, <3>2, AppendChunks DEF Call
      <4> QED
        BY <2>3, <2>4, <3>2, <4>1, <4>2
    <3>3. CASE /\ pc[u] = "read" /\ pc'[u] \in {"flush", "stat"} /\ SameCall(c, d) /\ Flush(u)
      <4>1. /\ Settled \subseteq Settled' /\ pending \subseteq Unwritten'
        BY <2>0, <3>3, FlushMoves
      <4>2. Given \subseteq Settled'
        BY <4>1 DEF Given, Settled
      <4> QED
        BY <2>4, <3>3, <4>2 DEF SameCall
    <3>4. CASE pc[u] # "flush" /\ pc'[u] = pc[u] /\ SameCall(c, d)
      BY <2>1, <2>3, <2>4, <2>5, <3>4 DEF SameCall
    <3>5. CASE pc[u] \in {"flush", "save"} /\ pc'[u] \in {"stat", "write"} /\ SameCall(c, d)
      BY <2>1, <2>5, <3>5 DEF SameCall
    <3>6. CASE pc[u] = "stat" /\ pc'[u] = "save" /\ d.got = c.got
      BY <2>1, <2>5, <3>6
    <3> QED
      BY <2>6, <3>1, <3>2, <3>3, <3>4, <3>5, <3>6, BackupMoves
  <2>7. CASE pc'[u] = pc[u] /\ SameCall(c, d)
    BY <2>1, <2>3, <2>4, <2>5, <2>7 DEF SameCall
  <2> QED
    BY <2>6, <2>7, ThreadSteps
<1> QED
  BY <1>1, <1>2, <1>3 DEF FlushedInv, ChunksOf

LEMMA WrittenNext ==
    ASSUME TypeOK, FlushedInv, ManifestsWritten, [Next]_vars
    PROVE  ManifestsWritten'
<1> SUFFICES ASSUME NEW n \in Name, manifest'[n] \notin {None, Torn}
             PROVE  ChunksOf(manifest'[n].chunks) \subseteq Settled'
  BY DEF ManifestsWritten, Parses, ChunksOf
<1>1. Settled \subseteq Settled'
  BY SettledGrows
<1>2. CASE manifest'[n] = manifest[n]
  <2>1. ChunksOf(manifest[n].chunks) \subseteq Settled
    BY <1>2 DEF ManifestsWritten, Parses
  <2> QED
    BY <1>1, <1>2, <2>1
<1>3. ASSUME NEW t \in Thread, pc[t] \in {"save", "write"}, manifest'[n] = call[t].entry
      PROVE  ChunksOf(manifest'[n].chunks) \subseteq Settled'
  <2>1. call[t].entry.chunks = call[t].got
    BY <1>3 DEF TypeOK, CallsOK, Fits
  <2>2. ChunksOf(call[t].got) \subseteq Settled
    BY <1>3 DEF FlushedInv
  <2> QED
    BY <1>1, <1>3, <2>1, <2>2
<1> QED
  BY <1>2, <1>3, ManifestSteps

LEMMA FlushedInit ==
    ASSUME Init
    PROVE  FlushedInv /\ ManifestsWritten /\ ManifestsRestorable
BY DEF Init, FlushedInv, ManifestsWritten, ManifestsRestorable, Parses, ChunksOf

(* A manifest that parses names only chunks that were taken out of the     *)
(* buffer to be written, whatever other calls do and whatever fails.       *)
THEOREM WrittenHolds == Spec => []ManifestsWritten
<1>1. Init => FlushedInv /\ ManifestsWritten
  BY FlushedInit
<1>2. TypeOK /\ FlushedInv /\ ManifestsWritten /\ [Next]_vars
          => FlushedInv' /\ ManifestsWritten'
  BY FlushedNext, WrittenNext
<1> QED
  BY <1>1, <1>2, TypeCorrect, PTL DEF Spec

-----------------------------------------------------------------------------
(* Calls that follow each other, on a store that does not fail.            *)

InTurns == StoreCanFail = FALSE /\ \A t, u \in Thread : t = u

Held == pending \cup stored \cup Unwritten

(* As FlushedInv, of chunks that are in a pack or on the way there.        *)
TurnsInv ==
    /\ known \subseteq Held
    /\ \A t \in Thread :
          /\ pc[t] = "read" => ChunksOf(call[t].got) \subseteq Held
          /\ pc[t] = "flush" => ChunksOf(call[t].got) \subseteq stored \cup batch[t]
          /\ pc[t] \in {"stat", "save", "write"} => ChunksOf(call[t].got) \subseteq stored

LEMMA OneBatch ==
    ASSUME InTurns, NEW t \in Thread
    PROVE  Unwritten = batch[t] /\ Unwritten' = batch'[t]
BY DEF InTurns, Unwritten

LEMMA HeldGrows ==
    ASSUME TypeOK, InTurns, [Next]_vars, ~Crash
    PROVE  Held \subseteq Held' /\ known' \subseteq known \cup Held'
<1>0. StoreOK
  BY DEF TypeOK
<1>1. CASE UNCHANGED store
  BY <1>1 DEF store, Held, Unwritten
<1>2. ASSUME NEW t \in Thread, ReadChunk(t)
      PROVE  Held \subseteq Held' /\ known' \subseteq known \cup Held'
  BY <1>2, ReadChunkMoves DEF Held
<1>3. ASSUME NEW t \in Thread, Flush(t)
      PROVE  Held \subseteq Held' /\ known' \subseteq known \cup Held'
  BY <1>0, <1>3, FlushMoves DEF Held
<1>4. ASSUME NEW t \in Thread, WriteBatch(t)
      PROVE  Held \subseteq Held' /\ known' \subseteq known \cup Held'
  <2>1. Unwritten \subseteq Unwritten' \cup batch[t] /\ pending' = pending
    BY <1>0, <1>4, WriteMoves
  <2>2. stored' = stored \cup batch[t] /\ known' = known \cup batch[t]
    BY <1>4 DEF WriteBatch
  <2> QED
    BY <2>1, <2>2 DEF Held
<1> QED
  BY <1>1, <1>2, <1>3, <1>4, StoreSteps DEF WriteBatchFails, InTurns

LEMMA TurnsNext ==
    ASSUME TypeOK, InTurns, TurnsInv, [Next]_vars
    PROVE  TurnsInv'
<1>1. known' \subseteq Held'
  <2>1. CASE Crash
    <3>1. known' = stored'
      BY <2>1, CrashMoves DEF TypeOK
    <3> QED
      BY <3>1 DEF Held
  <2>2. CASE ~Crash
    BY <2>2, HeldGrows DEF TurnsInv
  <2> QED
    BY <2>1, <2>2
<1>3. ASSUME NEW u \in Thread
      PROVE  /\ pc'[u] = "read" => ChunksOf(call'[u].got) \subseteq Held'
             /\ pc'[u] = "flush" => ChunksOf(call'[u].got) \subseteq stored' \cup batch'[u]
             /\ pc'[u] \in {"stat", "save", "write"} => ChunksOf(call'[u].got) \subseteq stored'
  <2> DEFINE c == call[u]
             d == call'[u]
  <2>0. c \in Call /\ StoreOK /\ Fits(pc[u], c)
    BY DEF TypeOK, CallsOK
  <2>1. stored \subseteq stored'
    BY SettledGrows
  <2>2. pc'[u] # "idle" => ~Crash
    BY DEF Crash
  <2>3. pc'[u] # "idle" => Held \subseteq Held'
    BY <2>2, HeldGrows
  <2>4. pc[u] = "read" => ChunksOf(c.got) \subseteq Held
    BY DEF TurnsInv
  <2>5. /\ pc[u] = "flush" => ChunksOf(c.got) \subseteq stored \cup batch[u]
        /\ pc[u] \in {"stat", "save", "write"} => ChunksOf(c.got) \subseteq stored
    BY DEF TurnsInv
  <2>6. CASE BackupStep(u)
    <3>1. CASE pc'[u] = "read" /\ d.got = <<>>
      BY <3>1 DEF ChunksOf
    <3>2. CASE /\ pc[u] = "read" /\ pc'[u] = "read" /\ ReadChunk(u)
               /\ d.got = Append(c.got, source[c.path].content[Len(c.got) + 1])
      <4> DEFINE x == source[c.path].content[Len(c.got) + 1]
      <4>1. x \in Held'
        BY <2>3, <3>2, ReadChunkMoves DEF TurnsInv, Held
      <4>2. ChunksOf(d.got) \subseteq ChunksOf(c.got) \cup {x}
        BY <2>0, <3>2, AppendChunks DEF Call
      <4> QED
        BY <2>3, <2>4, <3>2, <4>1, <4>2
    <3>3. CASE /\ pc[u] = "read" /\ pc'[u] \in {"flush", "stat"} /\ SameCall(c, d) /\ Flush(u)
               /\ (pc'[u] = "stat" => pending = {})
      <4>1. /\ stored' = stored /\ pending \subseteq Unwritten' /\ Unwritten \subseteq Unwritten'
        BY <2>0, <3>3, FlushMoves
      <4>2. batch[u] = {}
        BY <3>3 DEF Flush
      <4>3. Held \subseteq stored' \cup batch'[u]
        BY <4>1, OneBatch DEF Held
      <4>4. pending = {} => Held = stored
        BY <4>2, OneBatch DEF Held
      <4> QED
        BY <2>4, <3>3, <4>1, <4>3, <4>4 DEF SameCall
    <3>4. CASE pc[u] # "flush" /\ pc'[u] = pc[u] /\ SameCall(c, d)
      BY <2>1, <2>3, <2>4, <2>5, <3>4 DEF SameCall
    <3>5. CASE pc[u] = "flush" /\ pc'[u] = "stat" /\ SameCall(c, d) /\ WriteBatch(u)
      <4>1. stored' = stored \cup batch[u]
        BY <3>5 DEF WriteBatch
      <4> QED
        BY <2>5, <3>5, <4>1 DEF SameCall
    <3>6. CASE pc[u] = "stat" /\ pc'[u] = "save" /\ d.got = c.got
      BY <2>1, <2>5, <3>6
    <3>7. CASE pc[u] = "save" /\ pc'[u] = "write" /\ SameCall(c, d)
      BY <2>1, <2>5, <3>7 DEF SameCall
    <3> QED
      BY <2>6, <3>1, <3>2, <3>3, <3>4, <3>5, <3>6, <3>7, BackupMoves
  <2>7. CASE ~BackupStep(u) /\ pc'[u] = pc[u] /\ SameCall(c, d)
    <3>1. pc[u] = "flush" => batch'[u] = batch[u]
      BY <2>2, <2>7, OthersBatch
    <3> QED
      BY <2>1, <2>3, <2>4, <2>5, <2>7, <3>1 DEF SameCall
  <2> QED
    BY <2>6, <2>7, ThreadSteps
<1> QED
  BY <1>1, <1>3 DEF TurnsInv, ChunksOf

LEMMA RestorableNext ==
    ASSUME TypeOK, TurnsInv, ManifestsRestorable, [Next]_vars
    PROVE  ManifestsRestorable'
<1> SUFFICES ASSUME NEW n \in Name, manifest'[n] \notin {None, Torn}
             PROVE  ChunksOf(manifest'[n].chunks) \subseteq stored'
  BY DEF ManifestsRestorable, Parses, ChunksOf
<1>1. stored \subseteq stored'
  BY SettledGrows
<1>2. CASE manifest'[n] = manifest[n]
  <2>1. ChunksOf(manifest[n].chunks) \subseteq stored
    BY <1>2 DEF ManifestsRestorable, Parses
  <2> QED
    BY <1>1, <1>2, <2>1
<1>3. ASSUME NEW t \in Thread, pc[t] \in {"save", "write"}, manifest'[n] = call[t].entry
      PROVE  ChunksOf(manifest'[n].chunks) \subseteq stored'
  <2>1. call[t].entry.chunks = call[t].got
    BY <1>3 DEF TypeOK, CallsOK, Fits
  <2>2. ChunksOf(call[t].got) \subseteq stored
    BY <1>3 DEF TurnsInv
  <2> QED
    BY <1>1, <1>3, <2>1, <2>2
<1> QED
  BY <1>2, <1>3, ManifestSteps

(* When the calls of one thread follow each other and the store does not   *)
(* fail, a manifest that parses names only chunks that are in packs, also  *)
(* after a crash.                                                          *)
THEOREM RestorableHolds ==
    ASSUME InTurns
    PROVE  Spec => []ManifestsRestorable
<1>1. Init => TurnsInv /\ ManifestsRestorable
  <2> SUFFICES ASSUME Init PROVE TurnsInv /\ ManifestsRestorable
    OBVIOUS
  <2>1. TurnsInv
    BY DEF Init, TurnsInv, Held
  <2> QED
    BY <2>1, FlushedInit
<1>2. TypeOK /\ TurnsInv /\ ManifestsRestorable /\ [Next]_vars
          => TurnsInv' /\ ManifestsRestorable'
  BY TurnsNext, RestorableNext
<1> QED
  BY <1>1, <1>2, TypeCorrect, PTL DEF Spec

-----------------------------------------------------------------------------
(* Manifests are snapshots, and a backup that skips a file is right.       *)

LEMMA WorldSteps ==
    ASSUME [Next]_vars
    PROVE  \/ UNCHANGED <<source, versions, blind>>
           \/ \E p \in Path : \E content \in Contents[p] : Edit(p, content)
<1>1. ASSUME NEW t \in Thread, BackupStep(t) PROVE UNCHANGED world
  BY <1>1 DEF BackupStep, StartBackup, CheckManifest, CompareSource, ReadChunk, Flush,
              WriteBatch, WriteBatchFails, LeaveWriter, StatSource, PutManifest, OpenManifest,
              WriteManifest, BackupFails, PutFails, WriteFails
<1>2. ASSUME NEW t \in Thread, WalkStep(t) PROVE UNCHANGED world
  BY <1>2 DEF WalkStep, WalkAll, WalkOne, StartWalk, FinishWalk, WalkFails, WalkReturns,
              VisitAbsent, VisitTorn, VisitEntry, VisitUnreadable
<1>3. ASSUME NEW t \in Thread, DeleteStep(t) PROVE UNCHANGED world
  BY <1>3 DEF DeleteStep, StartDelete, HasFile, RemoveManifest, DeleteFails
<1> QED
  BY <1>1, <1>2, <1>3 DEF Next, Return, Crash, Tick, vars, world

(* History is never forgotten.                                             *)
LEMMA HistoryGrows ==
    ASSUME TypeOK, [Next]_vars, NEW p \in Path
    PROVE  blind \subseteq blind' /\ versions[p] \subseteq versions'[p]
<1>1. CASE UNCHANGED <<source, versions, blind>>
  BY <1>1
<1>2. ASSUME NEW q \in Path, NEW content \in Contents[q], Edit(q, content)
      PROVE  blind \subseteq blind' /\ versions[p] \subseteq versions'[p]
  BY <1>2 DEF Edit, TypeOK, WorldOK
<1> QED
  BY <1>1, <1>2, WorldSteps

DescribesNext(n, e) ==
    \E p \in Path : /\ NameOf[p] = n
                    /\ \/ p \in blind'
                       \/ <<e.modified, e.chunks>> \in versions'[p] /\ e.size = Len(e.chunks)

LEMMA DescribesStays ==
    ASSUME TypeOK, [Next]_vars, NEW n, NEW e, Describes(n, e)
    PROVE  DescribesNext(n, e)
<1>1. PICK p \in Path : NameOf[p] = n /\ (p \in blind \/ IsSnapshot(p, e))
  BY DEF Describes
<1>2. blind \subseteq blind' /\ versions[p] \subseteq versions'[p]
  BY HistoryGrows
<1> QED
  BY <1>1, <1>2 DEF IsSnapshot, DescribesNext

LEMMA VersionNext ==
    ASSUME TypeOK, VersionInv, [Next]_vars
    PROVE  VersionInv'
<1>1. CASE UNCHANGED <<source, versions, blind>>
  BY <1>1 DEF VersionInv
<1>2. ASSUME NEW q \in Path, NEW content \in Contents[q], Edit(q, content)
      PROVE  VersionInv'
  <2> SUFFICES ASSUME NEW p \in Path
               PROVE  /\ <<source'[p].second, source'[p].content>> \in versions'[p]
                      /\ p \notin blind' =>
                            \A v, w \in versions'[p] :
                                v[1] = w[1] /\ Len(v[2]) = Len(w[2]) => v = w
    BY DEF VersionInv
  <2>1. CASE p # q
    <3>1. source'[p] = source[p] /\ versions'[p] = versions[p] /\ blind \subseteq blind'
      BY <1>2, <2>1 DEF Edit, TypeOK, WorldOK
    <3> QED
      BY <3>1 DEF VersionInv
  <2>2. CASE p = q
    <3>1. /\ source'[p] = [content |-> content, second |-> clock]
          /\ versions'[p] = versions[p] \cup {<<clock, content>>}
      BY <1>2, <2>2 DEF Edit, TypeOK, WorldOK
    <3>2. ASSUME p \notin blind', NEW v \in versions'[p], NEW w \in versions'[p],
                 v[1] = w[1], Len(v[2]) = Len(w[2])
          PROVE  v = w
      <4>1. p \notin blind /\ \A x \in versions[p] :
                ~(x[1] = clock /\ x[2] # content /\ Len(x[2]) = Len(content))
        BY <1>2, <2>2, <3>2 DEF Edit
      <4>2. \A x \in versions[p] : x = <<x[1], x[2]>>
        BY DEF TypeOK, WorldOK
      <4>3. CASE v \in versions[p] /\ w \in versions[p]
        BY <3>2, <4>1, <4>3 DEF VersionInv
      <4>4. ASSUME NEW x \in versions[p], x[1] = clock, Len(x[2]) = Len(content)
            PROVE  x = <<clock, content>>
        <5>1. x[2] = content
          BY <4>1, <4>4
        <5> QED
          BY <4>2, <4>4, <5>1
      <4>5. v = <<clock, content>> => v[1] = clock /\ v[2] = content
        OBVIOUS
      <4>6. w = <<clock, content>> => w[1] = clock /\ w[2] = content
        OBVIOUS
      <4> QED
        BY <3>1, <3>2, <4>3, <4>4, <4>5, <4>6
    <3> QED
      BY <3>1, <3>2
  <2> QED
    BY <2>1, <2>2
<1> QED
  BY <1>1, <1>2, WorldSteps

(* A backup that has begun to read keeps up with the file, or the file is  *)
(* blind.                                                                  *)
LEMMA ReadNext ==
    ASSUME TypeOK, ReadInv, [Next]_vars
    PROVE  ReadInv'
<1> SUFFICES ASSUME NEW u \in Thread, call'[u].path \notin blind'
             PROVE  LET d == call'[u]
                        content == source'[d.path].content
                    IN
                    /\ pc'[u] = "read" => /\ Len(d.got) <= Len(content)
                                          /\ \A i \in 1 .. Len(d.got) : d.got[i] = content[i]
                    /\ pc'[u] \in {"flush", "stat"} => d.got = content
  BY DEF ReadInv
<1> DEFINE c == call[u]
           d == call'[u]
<1>0. /\ c \in Call /\ Fits(pc[u], c) /\ CallsOK' /\ d \in Call /\ Fits(pc'[u], d)
      /\ WorldOK /\ WorldOK'
  BY CallsNext, WorldNext DEF TypeOK, CallsOK
<1>1. pc'[u] \in {"read", "flush", "stat"} => /\ d.path \in Path /\ d.got \in Seq(Chunk)
                                     /\ source'[d.path].content \in Seq(Chunk)
  BY <1>0 DEF Fits, WorldOK, Call
<1>2. CASE BackupStep(u)
  <2>1. UNCHANGED world
    BY <1>2 DEF BackupStep, StartBackup, CheckManifest, CompareSource, ReadChunk, Flush,
                WriteBatch, WriteBatchFails, LeaveWriter, StatSource, PutManifest, OpenManifest,
                WriteManifest, BackupFails, PutFails, WriteFails
  <2>2. c.got \in Seq(Chunk)
    BY <1>0 DEF Call
  <2>3. CASE pc'[u] = "read" /\ d.got = <<>>
    BY <1>1, <2>3
  <2>4. CASE /\ pc[u] = "read" /\ pc'[u] = "read" /\ d.path = c.path
             /\ Len(c.got) < Len(source[c.path].content)
             /\ d.got = Append(c.got, source[c.path].content[Len(c.got) + 1])
    <3>1. c.path \notin blind /\ source' = source
      BY <2>1, <2>4 DEF world
    <3>2. \A i \in 1 .. Len(c.got) : c.got[i] = source[c.path].content[i]
      BY <2>4, <3>1 DEF ReadInv
    <3>3. source[c.path].content \in Seq(Chunk)
      BY <1>1, <2>4, <3>1
    <3>4. Len(d.got) = Len(c.got) + 1
      BY <2>2, <2>4, <3>3
    <3>5. \A i \in 1 .. Len(d.got) : d.got[i] = source[c.path].content[i]
      BY <2>2, <2>4, <3>2, <3>3, <3>4
    <3>6. Len(d.got) <= Len(source[c.path].content)
      BY <2>2, <2>4, <3>3, <3>4
    <3> QED
      BY <2>4, <3>1, <3>5, <3>6
  <2>5. CASE /\ pc[u] = "read" /\ pc'[u] \in {"flush", "stat"} /\ SameCall(c, d)
             /\ Len(c.got) >= Len(source[c.path].content)
    <3>1. c.path \notin blind /\ source' = source /\ d.path = c.path /\ d.got = c.got
      BY <2>1, <2>5 DEF world, SameCall
    <3>2. /\ Len(c.got) <= Len(source[c.path].content)
          /\ \A i \in 1 .. Len(c.got) : c.got[i] = source[c.path].content[i]
      BY <2>5, <3>1 DEF ReadInv
    <3>3. source[c.path].content \in Seq(Chunk)
      BY <1>1, <2>5, <3>1
    <3>4. c.got = source[c.path].content
      BY <2>2, <2>5, <3>2, <3>3
    <3> QED
      BY <2>5, <3>1, <3>4
  <2>6. CASE pc'[u] = pc[u] /\ SameCall(c, d)
    BY <2>1, <2>6 DEF ReadInv, SameCall, world
  <2>7. CASE pc[u] = "flush" /\ pc'[u] = "stat" /\ SameCall(c, d)
    BY <2>1, <2>7 DEF ReadInv, SameCall, world
  <2> QED
    BY <1>2, <2>3, <2>4, <2>5, <2>6, <2>7, BackupMoves
<1>3. CASE pc'[u] = pc[u] /\ SameCall(c, d)
  <2> SUFFICES ASSUME pc[u] \in {"read", "flush", "stat"}
               PROVE  LET content == source'[c.path].content IN
                      /\ pc[u] = "read" => /\ Len(c.got) <= Len(content)
                                           /\ \A i \in 1 .. Len(c.got) : c.got[i] = content[i]
                      /\ pc[u] \in {"flush", "stat"} => c.got = content
    BY <1>3 DEF SameCall
  <2>1. c.path \in Path /\ c.path \notin blind' /\ c.got \in Seq(Chunk)
    BY <1>0, <1>3 DEF SameCall, Fits, Call
  <2>2. c.path \notin blind
    BY <2>1, HistoryGrows
  <2>3. CASE source'[c.path] = source[c.path]
    BY <2>2, <2>3 DEF ReadInv
  <2>4. ASSUME NEW content \in Contents[c.path], Edit(c.path, content)
        PROVE  pc[u] = "read" /\ c.got = <<>>
    BY <2>1, <2>4 DEF Edit, BeingRead
  <2>5. ASSUME NEW q \in Path, NEW content \in Contents[q], Edit(q, content), q # c.path
        PROVE  source'[c.path] = source[c.path]
    BY <1>0, <2>1, <2>5 DEF Edit, WorldOK
  <2>6. CASE pc[u] = "read" /\ c.got = <<>>
    <3>1. source'[c.path].content \in Seq(Chunk)
      BY <1>0, <2>1 DEF WorldOK
    <3> QED
      BY <2>6, <3>1
  <2>7. CASE UNCHANGED <<source, versions, blind>>
    BY <2>3, <2>7
  <2> QED
    BY <2>1, <2>3, <2>4, <2>5, <2>6, <2>7, WorldSteps
<1> QED
  BY <1>2, <1>3, ThreadSteps

LEMMA EntryNext ==
    ASSUME TypeOK, VersionInv, ReadInv, EntryInv, EntryIsSnapshot, [Next]_vars
    PROVE  EntryInv'
<1> SUFFICES ASSUME NEW u \in Thread, pc'[u] \in {"compare", "save", "write"}
             PROVE  DescribesNext(call'[u].name, call'[u].entry)
  BY DEF EntryInv, Describes, DescribesNext, IsSnapshot
<1> DEFINE c == call[u]
           d == call'[u]
<1>0. c \in Call /\ Fits(pc[u], c)
  BY DEF TypeOK, CallsOK
<1>1. ASSUME NEW n, NEW e, Describes(n, e), d.name = n, d.entry = e
      PROVE  DescribesNext(d.name, d.entry)
  BY <1>1, DescribesStays
<1>2. CASE BackupStep(u)
  <2>1. CASE pc[u] = "check" /\ d.name = c.name /\ d.entry = manifest[c.name]
             /\ d.entry \notin {None, Torn}
    <3>1. c.name \in Name
      BY <1>0, <2>1, ApiNames DEF Fits
    <3>2. Describes(c.name, manifest[c.name])
      BY <2>1, <3>1 DEF EntryIsSnapshot, Parses
    <3> QED
      BY <1>1, <2>1, <3>2
  <2>2. CASE pc[u] = "stat" /\ d.name = c.name
             /\ d.entry = [size |-> Len(source[c.path].content),
                           modified |-> source[c.path].second, chunks |-> c.got]
    <3>1. c.path \in Path /\ c.name = NameOf[c.path]
      BY <1>0, <2>2 DEF Fits
    <3>2. c.path \in blind \/ c.got = source[c.path].content
      BY <2>2 DEF ReadInv
    <3>3. c.path \in blind \/ IsSnapshot(c.path, d.entry)
      BY <2>2, <3>1, <3>2 DEF VersionInv, IsSnapshot
    <3>4. Describes(c.name, d.entry)
      BY <3>1, <3>3 DEF Describes
    <3> QED
      BY <1>1, <2>2, <3>4
  <2>3. CASE pc[u] = "save" /\ SameCall(c, d)
    BY <1>1, <2>3 DEF EntryInv, SameCall
  <2>4. CASE pc'[u] = pc[u] /\ SameCall(c, d)
    BY <1>1, <2>4 DEF EntryInv, SameCall
  <2> QED
    BY <1>2, <2>1, <2>2, <2>3, <2>4, BackupMoves
<1>3. CASE pc'[u] = pc[u] /\ SameCall(c, d)
  BY <1>1, <1>3 DEF EntryInv, SameCall
<1> QED
  BY <1>2, <1>3, ThreadSteps

LEMMA SnapshotNext ==
    ASSUME TypeOK, EntryInv, EntryIsSnapshot, [Next]_vars
    PROVE  EntryIsSnapshot'
<1> SUFFICES ASSUME NEW n \in Name, manifest'[n] \notin {None, Torn}
             PROVE  DescribesNext(n, manifest'[n])
  BY DEF EntryIsSnapshot, Parses, Describes, DescribesNext, IsSnapshot
<1>1. Describes(n, manifest'[n])
  <2>1. CASE manifest'[n] = manifest[n]
    BY <2>1 DEF EntryIsSnapshot, Parses
  <2>2. ASSUME NEW t \in Thread, pc[t] \in {"save", "write"}, call[t].name = n,
               manifest'[n] = call[t].entry
        PROVE  Describes(n, manifest'[n])
    BY <2>2 DEF EntryInv
  <2> QED
    BY <2>1, <2>2, ManifestSteps
<1> QED
  BY <1>1, DescribesStays

SnapshotInv == VersionInv /\ ReadInv /\ EntryInv /\ EntryIsSnapshot

LEMMA SnapshotInvHolds == Spec => [](TypeOK /\ SnapshotInv)
<1>1. Init => SnapshotInv
  <2> SUFFICES ASSUME Init PROVE SnapshotInv
    OBVIOUS
  <2>1. VersionInv
    BY DEF Init, VersionInv
  <2> QED
    BY <2>1 DEF Init, SnapshotInv, ReadInv, EntryInv, EntryIsSnapshot, Parses
<1>2. TypeOK /\ SnapshotInv /\ [Next]_vars => SnapshotInv'
  BY VersionNext, ReadNext, EntryNext, SnapshotNext DEF SnapshotInv
<1> QED
  BY <1>1, <1>2, TypeCorrect, PTL DEF Spec

(* A manifest describes one version of one file of its name, never a mix   *)
(* of two, unless the file had an edit that size and time do not show.     *)
THEOREM SnapshotHolds == Spec => []EntryIsSnapshot
<1>1. SnapshotInv => EntryIsSnapshot
  BY DEF SnapshotInv
<1> QED
  BY <1>1, SnapshotInvHolds, PTL

(* Only its own step takes a thread from a comparison to Ok.               *)
LEMMA CompareMoves ==
    ASSUME TypeOK, [Next]_vars, NEW t \in Thread, pc[t] = "compare", pc'[t] = "ok"
    PROVE  BackupStep(t)
<1>1. ~Crash
  BY DEF Crash
<1> QED
  BY <1>1, BusyStays

(* A backup that skips a file has compared the right entry.                *)
LEMMA SkipStep ==
    ASSUME TypeOK, SnapshotInv, [Next]_vars, NEW t \in Thread,
           pc[t] = "compare", pc'[t] = "ok", call[t].path \notin blind, OnlyOne(call[t].path)
    PROVE  call[t].entry.chunks = source[call[t].path].content
<1> DEFINE c == call[t]
           f == source[c.path]
<1>0. /\ c \in Call /\ pc \in [Thread -> Steps]
      /\ c.path \in Path /\ c.name = NameOf[c.path] /\ c.entry \in Entry
  BY DEF TypeOK, CallsOK, Fits, Call
<1>1. Unchanged(c.entry, f)
  <2>1. CASE BackupStep(t)
    <3>1. CASE CompareSource(t)
      <4>1. Goes(t, "read") => pc'[t] = "read"
        BY <1>0 DEF Goes
      <4> QED
        BY <3>1, <4>1 DEF CompareSource
    <3>2. CASE BackupFails(t)
      BY <1>0, <3>2 DEF BackupFails, Returns, Goes
    <3>3. CASE Flush(t) \/ LeaveWriter(t)
      BY <3>3 DEF Flush, LeaveWriter
    <3>4. CASE WriteBatch(t) \/ WriteBatchFails(t)
      BY <1>0, <3>4 DEF WriteBatch, WriteBatchFails, Returns, Goes
    <3> QED
      BY <2>1, <3>1, <3>2, <3>3, <3>4
         DEF BackupStep, StartBackup, CheckManifest, ReadChunk, StatSource, PutManifest,
             OpenManifest, WriteManifest, PutFails, WriteFails
  <2> QED
    BY <2>1, CompareMoves
<1>2. IsSnapshot(c.path, c.entry)
  <2>1. Describes(c.name, c.entry)
    BY DEF SnapshotInv, EntryInv
  <2> QED
    BY <1>0, <2>1 DEF Describes, OnlyOne
<1>3. <<f.second, f.content>> \in versions[c.path]
  BY <1>0 DEF SnapshotInv, VersionInv
<1> DEFINE v == <<c.entry.modified, c.entry.chunks>>
           w == <<f.second, f.content>>
<1>4. v \in versions[c.path] /\ w \in versions[c.path] /\ v[1] = w[1] /\ Len(v[2]) = Len(w[2])
  BY <1>1, <1>2, <1>3 DEF IsSnapshot, Unchanged
<1>5. v = w
  BY <1>0, <1>4 DEF SnapshotInv, VersionInv
<1> QED
  BY <1>5

(* A backup that skips a file is right to do so.                           *)
THEOREM SkipHolds == Spec => SkipIsSound
<1>1. TypeOK /\ SnapshotInv /\ [Next]_vars =>
          [\A t \in Thread :
              LET p == call[t].path IN
              pc[t] = "compare" /\ pc'[t] = "ok" /\ p \notin blind /\ OnlyOne(p)
                  => call[t].entry.chunks = source[p].content]_vars
  BY SkipStep
<1> QED
  BY <1>1, SnapshotInvHolds, PTL DEF Spec, SkipIsSound

-----------------------------------------------------------------------------
(* What restore and verify have seen.                                      *)

SameWalk(c, d) ==
    d.op = c.op /\ d.todo = c.todo /\ d.errors = c.errors /\ d.out = c.out

(* The kinds of steps of a walk.                                           *)
LEMMA WalkKinds ==
    ASSUME NEW u \in Thread, WalkStep(u)
    PROVE  \/ \E o \in {"restore", "verify", "list"}, names \in SUBSET Name : StartWalk(u, o, names)
           \/ FinishWalk(u) \/ WalkReturns(u)
           \/ \E n \in Name : VisitAbsent(u, n) \/ VisitEntry(u, n)
<1>1. ASSUME WalkAll(u)
      PROVE  \E o \in {"restore", "verify", "list"}, names \in SUBSET Name : StartWalk(u, o, names)
  <2>1. Listed \in SUBSET Name
    BY DEF Listed
  <2> QED
    BY <1>1, <2>1 DEF WalkAll
<1>2. ASSUME NEW n \in Name, WalkOne(u, n)
      PROVE  \E o \in {"restore", "verify", "list"}, names \in SUBSET Name : StartWalk(u, o, names)
  <2>1. {n} \in SUBSET Name
    OBVIOUS
  <2> QED
    BY <1>2, <2>1 DEF WalkOne
<1> QED
  BY <1>1, <1>2 DEF WalkStep, WalkFails, VisitTorn, VisitUnreadable

(* A name stays stable only while its manifest does.                       *)
LEMMA StableSteps ==
    ASSUME TypeOK, [Next]_vars, NEW t \in Thread
    PROVE  \/ /\ stable'[t] \subseteq stable[t]
              /\ \A n \in stable'[t] : manifest'[n] = manifest[n]
           \/ \E o \in {"restore", "verify", "list"}, names \in SUBSET Name : StartWalk(t, o, names)
<1> DEFINE Goal == \/ /\ stable'[t] \subseteq stable[t]
                      /\ \A n \in stable'[t] : manifest'[n] = manifest[n]
                   \/ \E o \in {"restore", "verify", "list"}, names \in SUBSET Name :
                         StartWalk(t, o, names)
<1>0. /\ stable \in [Thread -> SUBSET Name]
      /\ manifest \in [Name -> Entry \cup {None, Torn}]
  BY DEF TypeOK, StoreOK
<1>1. CASE UNCHANGED <<manifest, stable>>
  BY <1>1
<1>2. ASSUME NEW n, NEW m, SetManifest(n, m) PROVE Goal
  BY <1>0, <1>2 DEF SetManifest
<1>10. ASSUME NEW chunks, Spoils(chunks), UNCHANGED manifest PROVE Goal
  BY <1>0, <1>10 DEF Spoils
<1>3. ASSUME NEW u \in Thread, BackupStep(u) PROVE Goal
  BY <1>1, <1>2, <1>3, <1>10
     DEF BackupStep, StartBackup, CheckManifest, CompareSource, ReadChunk, Flush, WriteBatch,
         WriteBatchFails, LeaveWriter, StatSource, PutManifest, OpenManifest, WriteManifest,
         BackupFails, PutFails, WriteFails, marks
<1>4. ASSUME NEW u \in Thread, UNCHANGED manifest, stable' = [stable EXCEPT ![u] = {}] PROVE Goal
  BY <1>0, <1>4
<1>5. ASSUME NEW u \in Thread, NEW o \in {"restore", "verify", "list"}, NEW names \in SUBSET Name,
             StartWalk(u, o, names)
      PROVE  Goal
  BY <1>0, <1>5 DEF StartWalk
<1>6. ASSUME NEW u \in Thread, WalkStep(u) PROVE Goal
  BY <1>1, <1>4, <1>5, <1>6, WalkKinds DEF FinishWalk, WalkReturns, VisitAbsent, VisitEntry, marks
<1>7. ASSUME NEW u \in Thread, DeleteStep(u) PROVE Goal
  BY <1>1, <1>2, <1>7 DEF DeleteStep, StartDelete, HasFile, RemoveManifest, DeleteFails, marks
<1>8. ASSUME NEW u \in Thread, Return(u) PROVE Goal
  BY <1>4, <1>8 DEF Return
<1>9. CASE Crash
  BY <1>9 DEF Crash
<1> QED
  BY <1>1, <1>3, <1>6, <1>7, <1>8, <1>9 DEF Next, Tick, Edit, vars, marks

(* What a step does to a call that visits manifests, or has visited them.  *)
LEMMA WalkMoves ==
    ASSUME TypeOK, [Next]_vars, NEW t \in Thread, pc'[t] \in {"walk", "ok"}
    PROVE  LET c == call[t]
               d == call'[t]
           IN
           \/ pc'[t] = pc[t] /\ SameWalk(c, d)
           \/ pc'[t] = "ok" /\ d.op = "backup"
           \/ pc[t] = "walk" /\ pc'[t] = "ok" /\ SameWalk(c, d) /\ c.todo = {}
           \/ \E o \in {"restore", "verify", "list"}, names \in SUBSET Name : StartWalk(t, o, names)
           \/ \E n \in Name : pc'[t] = "walk" /\ (VisitAbsent(t, n) \/ VisitEntry(t, n))
<1> DEFINE c == call[t]
           d == call'[t]
           Goal == \/ pc'[t] = pc[t] /\ SameWalk(c, d)
                   \/ pc'[t] = "ok" /\ d.op = "backup"
                   \/ pc[t] = "walk" /\ pc'[t] = "ok" /\ SameWalk(c, d) /\ c.todo = {}
                   \/ \E o \in {"restore", "verify", "list"}, names \in SUBSET Name :
                         StartWalk(t, o, names)
                   \/ \E n \in Name : pc'[t] = "walk" /\ (VisitAbsent(t, n) \/ VisitEntry(t, n))
<1>0. pc \in [Thread -> Steps] /\ call \in [Thread -> Call]
  BY DEF TypeOK, CallsOK
<1>1. CASE UNCHANGED <<pc, call>>
  BY <1>1 DEF SameWalk
<1>2. ASSUME NEW u \in Thread, Returns(u) PROVE Goal
  <2>1. u # t
    BY <1>0, <1>2 DEF Returns, Goes
  <2> QED
    BY <1>0, <1>2, <2>1 DEF Returns, Goes, SameWalk
<1>3. ASSUME NEW u \in Thread, BackupStep(u) PROVE Goal
  <2>1. CASE u = t
    <3>1. CASE CompareSource(t)
      <4>1. Goes(t, "read") => pc'[t] = "read"
        BY <1>0 DEF Goes
      <4>2. pc'[t] = "ok" /\ d.op = "backup"
        BY <1>0, <3>1, <4>1 DEF CompareSource, Goes, TypeOK, CallsOK, Fits
      <4> QED
        BY <4>2
    <3>2. CASE ~CompareSource(t)
      <4>1. ASSUME NEW step, Goes(t, step) PROVE pc'[t] = step
        BY <1>0, <4>1 DEF Goes
      <4>2. CASE WriteBatch(t)
        BY <1>0, <4>2 DEF WriteBatch, SameWalk
      <4>3. CASE Flush(t)
        BY <4>1, <4>3 DEF Flush
      <4> QED
        BY <1>0, <1>3, <2>1, <3>2, <4>1, <4>2, <4>3
           DEF BackupStep, StartBackup, CheckManifest, ReadChunk, WriteBatchFails, LeaveWriter,
               StatSource, PutManifest, OpenManifest, WriteManifest, BackupFails, PutFails,
               WriteFails, Returns
    <3> QED
      BY <3>1, <3>2
  <2>2. CASE u # t
    BY <1>3, <2>2, OthersBackup DEF SameWalk
  <2> QED
    BY <2>1, <2>2
<1>4. ASSUME NEW u \in Thread, WalkStep(u) PROVE Goal
  <2>1. ASSUME NEW o \in {"restore", "verify", "list"}, NEW names \in SUBSET Name,
               StartWalk(u, o, names)
        PROVE  Goal
    <3>1. CASE u = t
      BY <2>1, <3>1
    <3>2. CASE u # t
      BY <1>0, <2>1, <3>2 DEF StartWalk, Goes, SameWalk
    <3> QED
      BY <3>1, <3>2
  <2>2. CASE FinishWalk(u)
    BY <1>0, <2>2 DEF FinishWalk, Goes, SameWalk
  <2>3. CASE WalkReturns(u)
    BY <1>2, <2>3 DEF WalkReturns
  <2>4. ASSUME NEW n \in Name, VisitAbsent(u, n) \/ VisitEntry(u, n) PROVE Goal
    <3>1. UNCHANGED pc
      BY <2>4 DEF VisitAbsent, VisitEntry
    <3>2. u # t => call'[t] = call[t]
      BY <1>0, <2>4 DEF VisitAbsent, VisitEntry
    <3>3. CASE u = t
      <4>1. pc'[t] = "walk"
        BY <2>4, <3>1, <3>3 DEF VisitAbsent, VisitEntry, Visits
      <4> QED
        BY <2>4, <3>3, <4>1
    <3> QED
      BY <3>1, <3>2, <3>3 DEF SameWalk
  <2> QED
    BY <1>4, <2>1, <2>2, <2>3, <2>4, WalkKinds
<1>5. ASSUME NEW u \in Thread, DeleteStep(u) PROVE Goal
  <2>1. ASSUME NEW n \in Name, StartDelete(u, n) PROVE Goal
    BY <1>0, <2>1 DEF StartDelete, Goes, SameWalk
  <2>2. CASE HasFile(u)
    <3>1. CASE Goes(u, "remove") /\ UNCHANGED call
      BY <1>0, <3>1 DEF Goes, SameWalk
    <3> QED
      BY <1>2, <2>2, <3>1 DEF HasFile
  <2>3. CASE RemoveManifest(u)
    <3>1. u # t
      BY <1>0, <2>3 DEF RemoveManifest, Goes
    <3>2. pc'[t] = pc[t] /\ d = [c EXCEPT !.linked = @ /\ ~Writing(t, call[u].name)]
      BY <1>0, <2>3, <3>1 DEF RemoveManifest, Goes
    <3> QED
      BY <1>0, <3>2 DEF SameWalk, Call
  <2>4. CASE DeleteFails(u)
    BY <1>2, <2>4 DEF DeleteFails
  <2> QED
    BY <1>5, <2>1, <2>2, <2>3, <2>4 DEF DeleteStep
<1>6. CASE Crash
  BY <1>6 DEF Crash
<1> QED
  BY <1>1, <1>2, <1>3, <1>4, <1>5, <1>6 DEF Next, Return, Tick, Edit, vars

(* Names whose chunks are whole stay so, or are not stable any more.       *)
Whole(n) == Parses(n) /\ ChunksOf(manifest[n].chunks) \subseteq Sound

LEMMA WholeStays ==
    ASSUME TypeOK, [Next]_vars, NEW t \in Thread, NEW n \in stable'[t],
           manifest'[n] = manifest[n], Whole(n)
    PROVE  Whole(n)'
<1>0. StoreOK /\ stable[t] \subseteq Name
  BY DEF TypeOK, StoreOK
<1>1. SUFFICES ASSUME NEW x \in ChunksOf(manifest[n].chunks)
               PROVE  x \in Sound'
  BY DEF Whole, Parses, ChunksOf
<1>2. x \in pending \/ x \in Unwritten \/ (x \in stored /\ x \notin damaged)
  BY DEF Whole, Sound
<1>3. damaged' = damaged
  BY DamageStays
<1>4. ASSUME NEW chunks, Spoils(chunks) PROVE x \notin chunks
  <2>1. n \in stable[t] /\ ~(Parses(n) /\ ChunksOf(manifest[n].chunks) \cap chunks # {})
    BY <1>0, <1>4 DEF Spoils
  <2> QED
    BY <2>1 DEF Whole
<1>5. CASE UNCHANGED store
  BY <1>2, <1>3, <1>5 DEF store, Sound, Unwritten
<1>6. ASSUME NEW u \in Thread, ReadChunk(u) PROVE x \in Sound'
  BY <1>2, <1>3, <1>6, ReadChunkMoves DEF Sound
<1>7. ASSUME NEW u \in Thread, Flush(u) PROVE x \in Sound'
  BY <1>0, <1>2, <1>3, <1>7, FlushMoves DEF Sound
<1>8. ASSUME NEW u \in Thread, WriteBatch(u) \/ WriteBatchFails(u) PROVE x \in Sound'
  <2>1. /\ stored \subseteq stored' /\ pending' = pending
        /\ Unwritten \subseteq Unwritten' \cup batch[u]
    BY <1>0, <1>8, WriteMoves
  <2>2. CASE WriteBatch(u)
    <3>1. stored' = stored \cup batch[u] /\ x \notin batch[u] \cap damaged
      BY <1>4, <2>2 DEF WriteBatch
    <3> QED
      BY <1>2, <1>3, <2>1, <3>1 DEF Sound
  <2>3. CASE WriteBatchFails(u)
    <3>1. x \notin batch[u]
      BY <1>4, <2>3 DEF WriteBatchFails
    <3> QED
      BY <1>2, <1>3, <2>1, <3>1 DEF Sound
  <2> QED
    BY <1>8, <2>2, <2>3
<1>9. CASE Crash
  BY <1>9 DEF Crash
<1> QED
  BY <1>5, <1>6, <1>7, <1>8, <1>9, StoreSteps

LEMMA WalkNext ==
    ASSUME TypeOK, WalkInv, [Next]_vars
    PROVE  WalkInv'
<1> SUFFICES ASSUME NEW t \in Thread, pc'[t] \in {"walk", "ok"}
             PROVE  LET d == call'[t] IN
                    /\ d.op = "restore" =>
                          /\ \A n \in d.todo : d.out[n] = None
                          /\ \A n \in stable'[t] \ d.todo : d.out[n] = ContentOf(n)'
                    /\ d.op = "verify" /\ ~d.errors =>
                          \A n \in stable'[t] \ d.todo : Whole(n)'
                    /\ pc'[t] = "ok" /\ d.op # "backup" => d.todo = {}
  BY DEF WalkInv, Whole
<1> DEFINE c == call[t]
           d == call'[t]
<1>0. c \in Call /\ stable[t] \subseteq Name /\ call \in [Thread -> Call]
  BY DEF TypeOK, CallsOK, StoreOK
<1>1. CASE pc'[t] = "ok" /\ d.op = "backup"
  BY <1>1
<1>2. ASSUME NEW o \in {"restore", "verify", "list"}, NEW names \in SUBSET Name, StartWalk(t, o, names)
      PROVE  /\ d.todo = stable'[t] /\ pc'[t] = "walk"
             /\ \A n \in d.todo : d.out[n] = None
  <2>1. d = [Idle EXCEPT !.op = o, !.todo = names]
    BY <1>0, <1>2 DEF StartWalk
  <2>2. stable'[t] = names /\ pc'[t] = "walk"
    BY <1>2 DEF StartWalk, Goes, TypeOK, CallsOK, StoreOK
  <2> QED
    BY <2>1, <2>2 DEF Idle
<1>3. CASE \E o \in {"restore", "verify", "list"}, names \in SUBSET Name : StartWalk(t, o, names)
  BY <1>2, <1>3
<1>4. ASSUME NEW n \in stable'[t], manifest'[n] = manifest[n], Whole(n)
      PROVE  Whole(n)'
  BY <1>4, WholeStays
<1>9. ASSUME NEW n, manifest'[n] = manifest[n]
      PROVE  ContentOf(n)' = ContentOf(n)
  BY <1>9 DEF ContentOf, Parses
<1>5. CASE /\ stable'[t] \subseteq stable[t]
           /\ \A n \in stable'[t] : manifest'[n] = manifest[n]
  <2>1. CASE pc'[t] = pc[t] /\ SameWalk(c, d)
    BY <1>4, <1>5, <1>9, <2>1 DEF WalkInv, Whole, SameWalk
  <2>2. CASE pc[t] = "walk" /\ pc'[t] = "ok" /\ SameWalk(c, d) /\ c.todo = {}
    BY <1>4, <1>5, <1>9, <2>2 DEF WalkInv, Whole, SameWalk
  <2>3. ASSUME NEW m \in Name, pc'[t] = "walk", VisitAbsent(t, m)
        PROVE  /\ d.op = c.op /\ d.todo = c.todo \ {m} /\ d.out = c.out
               /\ d.op = "verify" => d.errors
    BY <1>0, <2>3 DEF VisitAbsent, Call
  <2>4. ASSUME NEW m \in Name, pc'[t] = "walk", VisitAbsent(t, m), d.op = "restore"
        PROVE  d.out[m] = ContentOf(m)
    <3>1. pc[t] = "walk" /\ m \in c.todo /\ manifest[m] = None
      BY <2>4 DEF VisitAbsent, Visits
    <3>2. c.op = "restore" /\ d.out = c.out
      BY <2>3, <2>4
    <3>3. c.out[m] = None
      BY <3>1, <3>2 DEF WalkInv
    <3> QED
      BY <3>1, <3>2, <3>3 DEF ContentOf, Parses
  <2>5. ASSUME NEW m \in Name, pc'[t] = "walk", VisitAbsent(t, m) PROVE pc[t] = "walk"
    BY <2>5 DEF VisitAbsent, Visits
  <2>6. ASSUME NEW m \in Name, pc'[t] = "walk", VisitEntry(t, m)
        PROVE  /\ pc[t] = "walk" /\ d.op = c.op /\ d.todo = c.todo \ {m}
               /\ d.op = "restore" => d.out = [c.out EXCEPT ![m] = ContentOf(m)]
               /\ d.op = "verify" /\ ~d.errors => ~c.errors /\ Whole(m)
    BY <1>0, <2>6
       DEF VisitEntry, Visits, Call, ContentOf, Parses, Whole, Readable, Sound
  <2>7. ASSUME NEW m \in Name, pc'[t] = "walk", VisitAbsent(t, m) \/ VisitEntry(t, m),
               d.op = "restore"
        PROVE  /\ \A n \in d.todo : d.out[n] = None
               /\ \A n \in stable'[t] \ d.todo : d.out[n] = ContentOf(n)'
    <3>1. c.out \in [Name -> Seq(Chunk) \cup {None}] /\ c.todo \subseteq Name
      BY <1>0 DEF Call
    <3>2. pc[t] = "walk" /\ c.op = "restore" /\ d.todo = c.todo \ {m}
      BY <2>3, <2>5, <2>6, <2>7
    <3>3. \A n \in Name \ {m} : d.out[n] = c.out[n]
      BY <2>3, <2>6, <2>7, <3>1
    <3>4. d.out[m] = ContentOf(m)
      BY <2>4, <2>6, <2>7, <3>1
    <3>5. /\ \A n \in c.todo : c.out[n] = None
          /\ \A n \in stable[t] \ c.todo : c.out[n] = ContentOf(n)
      BY <3>2 DEF WalkInv
    <3> QED
      BY <1>0, <1>5, <1>9, <3>1, <3>2, <3>3, <3>4, <3>5
  <2>8. ASSUME NEW m \in Name, pc'[t] = "walk", VisitAbsent(t, m) \/ VisitEntry(t, m),
               d.op = "verify", ~d.errors
        PROVE  \A n \in stable'[t] \ d.todo : Whole(n)'
    <3>1. VisitEntry(t, m)
      BY <2>3, <2>8
    <3>2. \A n \in stable[t] \ c.todo : Whole(n)
      BY <2>6, <2>8, <3>1 DEF WalkInv, Whole
    <3> QED
      BY <1>4, <1>5, <2>6, <2>8, <3>1, <3>2
  <2> QED
    BY <1>1, <1>3, <2>1, <2>2, <2>7, <2>8, WalkMoves
<1> QED
  BY <1>3, <1>5, StableSteps

LEMMA WalkInvHolds == Spec => [](TypeOK /\ WalkInv)
<1>1. Init => WalkInv
  BY DEF Init, WalkInv
<1>2. TypeOK /\ WalkInv /\ [Next]_vars => WalkInv'
  BY WalkNext
<1> QED
  BY <1>1, <1>2, TypeCorrect, PTL DEF Spec

(* A restore that returns Ok has written the content of every file whose   *)
(* manifest was there throughout, and of no other it was asked for.        *)
THEOREM RestoreCoversHolds == Spec => []RestoreCovers
<1>1. WalkInv => RestoreCovers
  BY DEF WalkInv, RestoreCovers
<1> QED
  BY <1>1, WalkInvHolds, PTL

(* When a verify reports no errors, every manifest it was asked about and  *)
(* that did not change names only chunks that are whole, in the buffer, in *)
(* a pack or on the way there.                                             *)
THEOREM VerifyCoversHolds == Spec => []VerifyCovers
<1>1. WalkInv => VerifyCovers
  BY DEF WalkInv, VerifyCovers
<1> QED
  BY <1>1, WalkInvHolds, PTL

-----------------------------------------------------------------------------
(* A file whose backup returned Ok keeps a manifest.                       *)

(* A thread goes on writing its file until it is done, the process dies or *)
(* the file is deleted.                                                    *)
LEMMA WritingStays ==
    ASSUME TypeOK, FlushedInv, [Next]_vars, NEW u \in Thread, NEW n, Writing(u, n)
    PROVE  \/ Writing(u, n)'
           \/ WriteManifest(u) \/ WriteFails(u) \/ Crash
           \/ \E t \in Thread : RemoveManifest(t) /\ call[t].name = n
<1>0. /\ pc \in [Thread -> Steps] /\ call \in [Thread -> Call]
      /\ pc[u] = "write" /\ call[u].name = n /\ call[u].linked
  BY DEF TypeOK, CallsOK, Writing
<1>1. ASSUME pc'[u] = pc[u], call'[u] = call[u] PROVE Writing(u, n)'
  BY <1>0, <1>1 DEF Writing
<1>2. ASSUME NEW t \in Thread, BackupStep(t) PROVE Writing(u, n)' \/ WriteManifest(u) \/ WriteFails(u)
  <2>1. CASE t # u
    BY <1>1, <1>2, <2>1, OthersBackup
  <2>2. CASE t = u
    <3>1. batch[u] = {}
      BY <1>0 DEF FlushedInv
    <3> QED
      BY <1>0, <1>2, <2>2, <3>1
         DEF BackupStep, StartBackup, CheckManifest, CompareSource, ReadChunk, Flush, WriteBatch,
             WriteBatchFails, LeaveWriter, StatSource, PutManifest, OpenManifest, BackupFails,
             PutFails
  <2> QED
    BY <2>1, <2>2
<1>3. ASSUME NEW t \in Thread, Returns(t), t # u PROVE Writing(u, n)'
  BY <1>0, <1>1, <1>3 DEF Returns, Goes
<1>4. ASSUME NEW t \in Thread, WalkStep(t) PROVE Writing(u, n)'
  <2>1. ASSUME NEW o, NEW names, StartWalk(t, o, names) PROVE Writing(u, n)'
    BY <1>0, <1>1, <2>1 DEF StartWalk, Goes
  <2>2. CASE FinishWalk(t)
    BY <1>0, <1>1, <2>2 DEF FinishWalk, Goes
  <2>3. ASSUME NEW m \in Name, VisitAbsent(t, m) \/ VisitEntry(t, m) PROVE Writing(u, n)'
    <3>1. UNCHANGED pc /\ pc[t] = "walk"
      BY <2>3 DEF VisitAbsent, VisitEntry, Visits
    <3>2. call'[u] = call[u]
      BY <1>0, <2>3, <3>1 DEF VisitAbsent, VisitEntry
    <3> QED
      BY <1>1, <3>1, <3>2
  <2>4. ASSUME NEW m \in Name, VisitTorn(t, m) \/ VisitUnreadable(t, m) PROVE Writing(u, n)'
    BY <1>0, <1>3, <2>4 DEF VisitTorn, VisitUnreadable, Visits, WalkReturns
  <2>5. CASE WalkFails(t)
    BY <1>0, <1>3, <2>5 DEF WalkFails, WalkReturns
  <2> QED
    BY <1>4, <2>1, <2>2, <2>3, <2>4, <2>5 DEF WalkStep, WalkAll, WalkOne
<1>5. ASSUME NEW t \in Thread, DeleteStep(t)
      PROVE  Writing(u, n)' \/ (RemoveManifest(t) /\ call[t].name = n)
  <2>1. ASSUME NEW m \in Name, StartDelete(t, m) PROVE Writing(u, n)'
    BY <1>0, <1>1, <2>1 DEF StartDelete, Goes
  <2>2. CASE HasFile(t)
    BY <1>0, <1>1, <1>3, <2>2 DEF HasFile, Goes
  <2>3. CASE RemoveManifest(t) /\ call[t].name # n
    <3>1. t # u
      BY <1>0, <2>3
    <3>2. /\ pc'[u] = pc[u]
          /\ call'[u] = [call[u] EXCEPT !.linked = @ /\ ~Writing(u, call[t].name)]
      BY <1>0, <2>3, <3>1 DEF RemoveManifest, Goes
    <3>3. ~Writing(u, call[t].name)
      BY <1>0, <2>3 DEF Writing
    <3>4. call'[u].linked /\ call'[u].name = n
      BY <1>0, <3>2, <3>3 DEF Call
    <3> QED
      BY <1>0, <3>2, <3>4 DEF Writing
  <2>4. CASE DeleteFails(t)
    BY <1>0, <1>3, <2>4 DEF DeleteFails
  <2> QED
    BY <1>5, <2>1, <2>2, <2>3, <2>4 DEF DeleteStep
<1>6. ASSUME NEW t \in Thread, Return(t) PROVE Writing(u, n)'
  BY <1>0, <1>3, <1>6 DEF Return
<1> QED
  BY <1>1, <1>2, <1>4, <1>5, <1>6 DEF Next, Tick, Edit, vars

LEMMA WritingEnds ==
    ASSUME TypeOK, FlushedInv, [Next]_vars, NEW u \in Thread, NEW n \in Name, Writing(u, n),
           ~Writing(u, n)'
    PROVE  manifest'[n] \notin {None, Torn} \/ n \in broken' \/ n \notin acked'
<1>0. /\ call[u].name = n /\ call[u].linked /\ call[u].entry \in Entry
      /\ manifest \in [Name -> Entry \cup {None, Torn}]
  BY DEF Writing, TypeOK, CallsOK, StoreOK, Call
<1>1. CASE WriteManifest(u)
  <2>1. CASE SetManifest(n, call[u].entry)
    BY <1>0, <2>1, Marks DEF SetManifest
  <2> QED
    BY <1>0, <1>1, <2>1 DEF WriteManifest
<1>2. CASE WriteFails(u)
  BY <1>0, <1>2 DEF WriteFails
<1>3. CASE Crash
  BY <1>3 DEF Crash
<1>4. ASSUME NEW t \in Thread, RemoveManifest(t), call[t].name = n PROVE n \notin acked'
  BY <1>4 DEF RemoveManifest
<1> QED
  BY <1>1, <1>2, <1>3, <1>4, WritingStays

LEMMA AckedSteps ==
    ASSUME TypeOK, [Next]_vars, NEW n \in Name
    PROVE  \/ /\ manifest'[n] = manifest[n]
              /\ n \in acked' \ broken' => n \in acked \ broken
           \/ manifest'[n] \notin {None, Torn} \/ n \in broken' \/ n \notin acked'
           \/ \E u \in Thread : Writing(u, n)'
<1> DEFINE Same == /\ manifest'[n] = manifest[n]
                   /\ n \in acked' \ broken' => n \in acked \ broken
           Goal == \/ Same
                   \/ manifest'[n] \notin {None, Torn} \/ n \in broken' \/ n \notin acked'
                   \/ \E u \in Thread : Writing(u, n)'
<1>0. /\ manifest \in [Name -> Entry \cup {None, Torn}]
      /\ pc \in [Thread -> Steps] /\ call \in [Thread -> Call]
  BY DEF TypeOK, CallsOK, StoreOK
<1>1. CASE UNCHANGED <<manifest, acked, broken>>
  BY <1>1
<1>2. ASSUME NEW t \in Thread, SetManifest(call[t].name, call[t].entry), call[t].name = n
      PROVE  manifest'[n] \notin {None, Torn}
  BY <1>0, <1>2, Marks DEF SetManifest, Call
<1>3. ASSUME NEW m, NEW x, SetManifest(m, x), m # n PROVE manifest'[n] = manifest[n]
  BY <1>0, <1>3 DEF SetManifest
<1>4. ASSUME NEW t \in Thread, PutManifest(t) \/ PutFails(t) PROVE Goal
  BY <1>2, <1>3, <1>4 DEF PutManifest, PutFails
<1>5. ASSUME NEW t \in Thread, OpenManifest(t) PROVE Goal
  <2>1. CASE call[t].name = n
    <3>1. pc'[t] = "write" /\ call'[t].linked /\ call'[t].name = n
      BY <1>0, <1>5, <2>1 DEF OpenManifest, Goes, Call
    <3> QED
      BY <3>1 DEF Writing
  <2>2. CASE call[t].name # n
    BY <1>3, <1>5, <2>2 DEF OpenManifest
  <2> QED
    BY <2>1, <2>2
<1>6. ASSUME NEW t \in Thread, WriteManifest(t) PROVE Goal
  <2>1. CASE call[t].name = n
    BY <1>1, <1>2, <1>6, <2>1 DEF WriteManifest
  <2>2. CASE call[t].name # n
    BY <1>1, <1>3, <1>6, <2>2 DEF WriteManifest
  <2> QED
    BY <2>1, <2>2
<1>7. ASSUME NEW t \in Thread, WriteFails(t) PROVE Goal
  <2>1. CASE call[t].name = n
    BY <1>1, <1>7, <2>1 DEF WriteFails
  <2>2. CASE call[t].name # n
    BY <1>1, <1>3, <1>7, <2>2 DEF WriteFails
  <2> QED
    BY <2>1, <2>2
<1>8. ASSUME NEW t \in Thread, BackupStep(t) PROVE Goal
  BY <1>1, <1>4, <1>5, <1>6, <1>7, <1>8
     DEF BackupStep, StartBackup, CheckManifest, CompareSource, ReadChunk, Flush, WriteBatch,
         WriteBatchFails, LeaveWriter, StatSource, BackupFails, marks
<1>9. ASSUME NEW t \in Thread, RemoveManifest(t) PROVE Goal
  <2>1. CASE call[t].name = n
    BY <1>9, <2>1 DEF RemoveManifest
  <2>2. CASE call[t].name # n
    BY <1>3, <1>9, <2>2 DEF RemoveManifest
  <2> QED
    BY <2>1, <2>2
<1>10. CASE Crash
  <2>1. CASE n \in broken'
    BY <2>1
  <2>2. CASE n \notin broken'
    BY <1>0, <1>10, <2>2 DEF Crash
  <2> QED
    BY <2>1, <2>2
<1>11. ASSUME NEW t \in Thread, WalkStep(t) PROVE UNCHANGED <<manifest, acked, broken>>
  BY <1>11, WalkKinds
     DEF StartWalk, FinishWalk, WalkReturns, VisitAbsent, VisitEntry, marks
<1> QED
  BY <1>1, <1>8, <1>9, <1>10, <1>11
     DEF Next, DeleteStep, StartDelete, HasFile, DeleteFails, Return, Tick, Edit, vars, marks

LEMMA AckedNext ==
    ASSUME TypeOK, FlushedInv, AckedHasManifest, [Next]_vars
    PROVE  AckedHasManifest'
<1> SUFFICES ASSUME NEW n \in acked' \ broken', \A u \in Thread : ~Writing(u, n)'
             PROVE  manifest'[n] \notin {None, Torn}
  BY DEF AckedHasManifest, Parses, Writing
<1>0. n \in Name
  BY StoreNext DEF StoreOK
<1>1. CASE \E u \in Thread : Writing(u, n)
  BY <1>0, <1>1, WritingEnds
<1>2. CASE \A u \in Thread : ~Writing(u, n)
  BY <1>0, <1>2, AckedSteps DEF AckedHasManifest, Parses
<1> QED
  BY <1>1, <1>2

(* A file whose backup returned Ok has a manifest until it is deleted, or  *)
(* another backup of its name is cut short or overlaps one.                *)
THEOREM AckedHolds == Spec => []AckedHasManifest
<1>1. Init => FlushedInv /\ AckedHasManifest
  BY FlushedInit DEF Init, AckedHasManifest
<1>2. TypeOK /\ FlushedInv /\ AckedHasManifest /\ [Next]_vars
          => FlushedInv' /\ AckedHasManifest'
  BY FlushedNext, AckedNext
<1> QED
  BY <1>1, <1>2, TypeCorrect, PTL DEF Spec

=============================================================================
