-------------------------- MODULE LocalStoreProofs --------------------------
(* Proofs about LocalStore, for every set of chunks and threads and every   *)
(* value of the bounds: packs, index and promises; that entries are stored  *)
(* once and their bases are stored; that what was promised can be restored. *)
EXTENDS LocalStoreInv, TLAPS, FiniteSetTheorems, SequenceTheorems

-----------------------------------------------------------------------------
(* Lemmas about the operators of the model.                                 *)

(* The next id of a store opened on pack files of legal ids is legal.       *)
LEMMA OpensAtType ==
    ASSUME NEW files \in [PackId -> SUBSET Entry]
    PROVE  OpensAt(files) \subseteq 0 .. (MaxPack + 1)
BY BoundsAssumption DEF OpensAt, LastNames, PackId

(* A batch gets a legal id, and the id after it is legal as well.           *)
LEMMA DrainType ==
    ASSUME NEW t \in Thread, NEW entries \in SUBSET Entry, TypeOK, Drain(t, entries)
    PROVE  /\ nextId' \in 0 .. (MaxPack + 1)
           /\ batchId' \in [Thread -> PackId]
           /\ batch' \in [Thread -> SUBSET Entry]
           /\ pending' = {}
           /\ pc' = [pc EXCEPT ![t] = "write"]
<1>1. nextId \in PackId /\ nextId + 1 \in 0 .. (MaxPack + 1)
  BY BoundsAssumption DEF Drain, DrainAs, TypeOK, PackId
<1>2. QED
  BY <1>1 DEF Drain, DrainAs, TypeOK

(* Replacing the innermost call of get_inner keeps a list of calls.         *)
LEMMA ReplaceTopType ==
    ASSUME NEW t \in Thread, NEW f \in Frame,
           frames \in [Thread -> Seq(Frame)], frames[t] # <<>>, ReplaceTop(t, f)
    PROVE  frames' \in [Thread -> Seq(Frame)]
<1>1. <<f>> \o Tail(frames[t]) \in Seq(Frame)
  OBVIOUS
<1>2. QED
  BY <1>1 DEF ReplaceTop

(* So does a return, and what it returns is a reply.                        *)
LEMMA ReturnsType ==
    ASSUME NEW t \in Thread, NEW r \in Bytes \cup {"none", "err"}, TypeOK,
           frames[t] # <<>>, Returns(t, r)
    PROVE  /\ frames' \in [Thread -> Seq(Frame)]
           /\ reply' \in [Thread -> Bytes \cup {"none", "err"}]
<1>1. Tail(frames[t]) \in Seq(Frame)
  BY DEF TypeOK
<1>2. QED
  BY <1>1 DEF Returns, TypeOK

LEMMA GiveUpType ==
    ASSUME NEW t \in Thread, TypeOK, frames[t] # <<>>, GiveUp(t)
    PROVE  /\ frames' \in [Thread -> Seq(Frame)]
           /\ reply' \in [Thread -> Bytes \cup {"none", "err"}]
<1>1. Top(t) \in Frame
  BY DEF TypeOK, Top
<1>2. CASE Top(t).at = "scan"
  BY <1>2, ReturnsType DEF GiveUp
<1>3. CASE Top(t).at # "scan"
  <2>1. Call(Top(t).hash, "scan", "none") \in Frame
    BY <1>1 DEF Frame, Call
  <2>2. QED
    BY <1>3, <2>1, ReplaceTopType DEF GiveUp, TypeOK
<1>4. QED
  BY <1>2, <1>3

LEMMA ReadEntryType ==
    ASSUME NEW t \in Thread, NEW p \in PackId, NEW e \in Entry, TypeOK,
           frames[t] # <<>>, ReadEntry(t, p, e)
    PROVE  /\ frames' \in [Thread -> Seq(Frame)]
           /\ reply' \in [Thread -> Bytes \cup {"none", "err"}]
<1>1. Top(t) \in Frame
  BY DEF TypeOK, Top
<1>2. CASE e \notin disk[p]
  BY <1>2, GiveUpType DEF ReadEntry
<1>3. CASE e \in disk[p] /\ e.base = NoBase
  BY <1>3, ReturnsType DEF ReadEntry, Bytes
<1>4. CASE e \in disk[p] /\ e.base # NoBase
  <2>1. NewCall(e.base) \in Frame
    BY <1>4 DEF NewCall, Call, Frame, Entry
  <2>2. Call(Top(t).hash, Top(t).at, e.over) \in Frame
    BY <1>1 DEF Frame, Entry, Call
  <2>3. <<NewCall(e.base), Call(Top(t).hash, Top(t).at, e.over)>> \o Tail(frames[t])
            \in Seq(Frame)
    BY <2>1, <2>2 DEF TypeOK
  <2>4. QED
    BY <1>4, <2>3 DEF ReadEntry, TypeOK
<1>5. QED
  BY <1>2, <1>3, <1>4

-----------------------------------------------------------------------------
(* Type correctness, one lemma for the steps of get and one for the rest.   *)

LEMMA GetType ==
    ASSUME NEW t \in Thread, TypeOK, Get(t)
    PROVE  TypeOK'
<1>1. /\ frames' \in [Thread -> Seq(Frame)]
      /\ reply' \in [Thread -> Bytes \cup {"none", "err"}]
  <2>1. CASE GetPending(t)
    <3>1. Top(t) \in Frame
      BY <2>1 DEF TypeOK, Top, GetPending
    <3>2. Call(Top(t).hash, "index", "none") \in Frame
      BY <3>1 DEF Frame, Call
    <3>3. QED
      BY <2>1, <3>2, ReturnsType, ReplaceTopType DEF GetPending, TypeOK, Bytes
  <2>2. CASE GetStored(t)
    <3>1. CASE \E p \in PackId : \E e \in packs[p] : ReadEntry(t, p, e)
      BY <2>2, <3>1, ReadEntryType DEF GetStored, TypeOK
    <3>2. CASE GiveUp(t)
      BY <2>2, <3>2, GiveUpType DEF GetStored
    <3>3. QED
      BY <2>2, <3>1, <3>2 DEF GetStored
  <2>3. CASE GetResume(t)
    BY <2>3, ReturnsType, GiveUpType DEF GetResume, Bytes
  <2>4. QED
    BY <2>1, <2>2, <2>3 DEF Get
<1>2. UNCHANGED <<disk_vars, pc, item, batch, batchId, bases, owed, ghost_vars>>
  BY DEF Get, GetPending, GetStored, GetResume
<1>3. QED
  BY <1>1, <1>2 DEF TypeOK, disk_vars, ghost_vars

LEMMA InitType == Init => TypeOK
<1> SUFFICES ASSUME Init PROVE TypeOK
  OBVIOUS
<1>1. nextId \in 0 .. (MaxPack + 1)
  BY OpensAtType, DiskAssumption DEF Init
<1>2. OnDisk \subseteq Chunk
  BY DiskAssumption DEF Init, OnDisk, Hashes, Entry
<1>3. QED
  BY <1>1, <1>2, DiskAssumption, BoundsAssumption
     DEF Init, TypeOK, IndexOf, PackId

(* One step per action of the writers and the readers.                      *)
LEMMA StepType ==
    ASSUME TypeOK, [Next]_vars
    PROVE  TypeOK'
<1> USE DEF TypeOK, disk_vars, ghost_vars
<1>1. ASSUME NEW t \in Thread, NEW c \in Chunk, Skip(t, c)
      PROVE  TypeOK'
  BY <1>1 DEF Skip
<1>2. ASSUME NEW t \in Thread, NEW c \in Chunk, StartStore(t, c)
      PROVE  TypeOK'
  <2>1. FullEntry(c) \in Entry
    BY DEF FullEntry, StoredAs, Entry, Bytes
  <2>2. QED
    BY <1>2, <2>1 DEF StartStore
<1>3. ASSUME NEW t \in Thread, NEW c \in Chunk, NEW b \in Chunk,
             StartNearDup(t, c, b)
      PROVE  TypeOK'
  <2>1. DeltaEntry(c, b) \in Entry /\ NewCall(b) \in Frame
    BY DEF DeltaEntry, StoredAs, NewCall, Call, Entry, Frame, Bytes
  <2>2. <<NewCall(b)>> \in Seq(Frame)
    BY <2>1
  <2>3. QED
    BY <1>3, <2>1, <2>2 DEF StartNearDup
<1>4. ASSUME NEW t \in Thread, EncodeDelta(t)
      PROVE  TypeOK'
  <2>1. item[t] \in Entry
    BY <1>4 DEF EncodeDelta
  <2>2. /\ FullEntry(item[t].hash) \in Entry
        /\ reply[t] \in Bytes =>
               StoredAs(item[t].hash, item[t].base, reply[t]) \in Entry
    BY <2>1 DEF FullEntry, StoredAs, Entry, Bytes
  <2>3. \E e \in Entry : item' = [item EXCEPT ![t] = e]
    BY <1>4, <2>2 DEF EncodeDelta
  <2>4. /\ reply' = [reply EXCEPT ![t] = "none"] /\ pc' = [pc EXCEPT ![t] = "lookup"]
        /\ UNCHANGED <<disk, packs, pending, nextId, index, batch, batchId, frames, bases, owed,
                       promised, dropped>>
    BY <1>4 DEF EncodeDelta
  <2>5. QED
    BY <2>3, <2>4
<1>5. ASSUME NEW t \in Thread, Lookup(t)
      PROVE  TypeOK'
  BY <1>5 DEF Lookup
<1>6. ASSUME NEW t \in Thread, AppendPending(t)
      PROVE  TypeOK'
  <2>1. item[t] \in Entry
    BY <1>6 DEF AppendPending
  <2>2. CASE Drain(t, pending \cup {item[t]})
    <3>1. pending \cup {item[t]} \in SUBSET Entry
      BY <2>1
    <3>2. QED
      BY <1>6, <2>2, <3>1, DrainType DEF AppendPending
  <2>3. CASE ~Drain(t, pending \cup {item[t]})
    BY <1>6, <2>1, <2>3 DEF AppendPending
  <2>4. QED
    BY <2>2, <2>3
<1>7. ASSUME NEW t \in Thread, Flush(t)
      PROVE  TypeOK'
  <2>1. CASE pending = {}
    BY <1>7, <2>1 DEF Flush, FlushReturns
  <2>2. CASE pending # {}
    <3>1. /\ Drain(t, pending)
          /\ item' = [item EXCEPT ![t] = NoEntry]
          /\ UNCHANGED <<disk, packs, index, frames, reply, dropped, bases, owed, promised>>
      BY <1>7, <2>2 DEF Flush
    <3>2. /\ nextId' \in 0 .. (MaxPack + 1)
          /\ batchId' \in [Thread -> PackId]
          /\ batch' \in [Thread -> SUBSET Entry]
          /\ pending' = {}
          /\ pc' = [pc EXCEPT ![t] = "write"]
      BY <3>1, DrainType
    <3>3. QED
      BY <3>1, <3>2
  <2>3. QED
    BY <2>1, <2>2
<1>8. ASSUME NEW t \in Thread, WritePack(t)
      PROVE  TypeOK'
  BY <1>8 DEF WritePack
<1>9. ASSUME NEW t \in Thread, WriteFails(t)
      PROVE  TypeOK'
  BY <1>9 DEF WriteFails, Hashes, Entry
<1>10. ASSUME NEW t \in Thread, Install(t)
       PROVE  TypeOK'
  BY <1>10 DEF Install, FlushReturns
<1>11. ASSUME NEW t \in Thread, InsertIndex(t)
       PROVE  TypeOK'
  <2>1. item[t].hash \in Chunk
    BY <1>11 DEF InsertIndex, Entry
  <2>2. QED
    BY <1>11, <2>1 DEF InsertIndex
<1>12. ASSUME NEW t \in Thread, PutSignature(t)
       PROVE  TypeOK'
  <2>1. \A e \in pending : Signed(e) \in Entry
    BY DEF Signed, Entry
  <2>2. QED
    BY <1>12, <2>1 DEF PutSignature
<1>13. ASSUME NEW t \in Thread, NEW c \in Chunk, StartGet(t, c)
       PROVE  TypeOK'
  <2>1. FullEntry(c) \in Entry /\ NewCall(c) \in Frame
    BY DEF FullEntry, StoredAs, NewCall, Call, Entry, Frame, Bytes
  <2>2. <<NewCall(c)>> \in Seq(Frame)
    BY <2>1
  <2>3. QED
    BY <1>13, <2>1, <2>2 DEF StartGet
<1>14. ASSUME NEW t \in Thread, FinishGet(t)
       PROVE  TypeOK'
  BY <1>14 DEF FinishGet
<1>15. ASSUME Reopen
       PROVE  TypeOK'
  <2>1. 0 \in PackId
    BY BoundsAssumption DEF PackId
  <2>2. nextId' \in 0 .. (MaxPack + 1)
    BY <1>15, OpensAtType DEF Reopen
  <2>3. index' \in [Chunk -> {"absent", "placeholder", "located"}]
    BY <1>15 DEF Reopen, IndexOf
  <2>4. QED
    BY <1>15, <2>1, <2>2, <2>3 DEF Reopen
<1>16. ASSUME NEW t \in Thread, Get(t)
       PROVE  TypeOK'
  BY <1>16, GetType
<1>17. CASE UNCHANGED vars
  BY <1>17 DEF vars, thread_vars
<1>18. QED
  BY <1>1, <1>2, <1>3, <1>4, <1>5, <1>6, <1>7, <1>8, <1>9, <1>10, <1>11,
     <1>12, <1>13, <1>14, <1>15, <1>16, <1>17
     DEF Next, WriterStep, ReaderStep, Thread

(* Every reachable state is well typed.                                     *)
THEOREM TypeCorrect == Spec => []TypeOK
<1>1. Init => TypeOK
  BY InitType
<1>2. TypeOK /\ [Next]_vars => TypeOK'
  BY StepType
<1>3. QED
  BY <1>1, <1>2, PTL DEF Spec

-----------------------------------------------------------------------------
(* Pack files are written under fresh ids.                                  *)

(* A store opened on pack files whose names sort like their ids goes on     *)
(* with an id above every file.                                             *)
LEMMA OpensFresh ==
    ASSUME OrderedNames, NEW files \in [PackId -> SUBSET Entry],
           NEW n \in OpensAt(files), NEW p \in PackId, files[p] # {}
    PROVE  p < n
<1> DEFINE ids == {q \in PackId : files[q] # {}}
<1>1. p \in ids
  OBVIOUS
<1>2. PICK q \in LastNames(ids) : n = q + 1
  BY <1>1 DEF OpensAt
<1>3. q \in PackId /\ (p = q \/ <<p, q>> \in NameOrder)
  BY <1>1, <1>2 DEF LastNames
<1>4. p = q \/ p < q
  BY <1>3 DEF OrderedNames
<1>5. QED
  BY <1>2, <1>3, <1>4, BoundsAssumption DEF PackId

LEMMA InitPack == ASSUME OrderedNames, Init PROVE PackInv
<1>1. TypeOK
  BY InitType
<1>2. FreshIds
  <2>1. ASSUME NEW p \in PackId, disk[p] # {}
        PROVE  p < nextId
    BY <2>1, OpensFresh, DiskAssumption DEF Init
  <2>2. QED
    BY <2>1, <1>1, BoundsAssumption DEF FreshIds, TypeOK, PackId
<1>3. BatchIds /\ PacksOnDisk
  BY DEF Init, BatchIds, PacksOnDisk, Writing
<1>4. QED
  BY <1>1, <1>2, <1>3 DEF PackInv

(* Draining hands out the next id.                                          *)
LEMMA DrainPack ==
    ASSUME PackInv, NEW t \in Thread, NEW entries, Drain(t, entries),
           ~Writing(t), UNCHANGED <<disk, packs>>
    PROVE  FreshIds' /\ BatchIds' /\ PacksOnDisk'
<1>1. /\ nextId \in PackId
      /\ nextId' = nextId + 1
      /\ batchId' = [batchId EXCEPT ![t] = nextId]
      /\ batch' = [batch EXCEPT ![t] = entries]
      /\ pc' = [pc EXCEPT ![t] = "write"]
  BY BoundsAssumption DEF Drain, DrainAs, PackInv, TypeOK, PackId
<1>2. disk[nextId] = {}
  BY <1>1, BoundsAssumption DEF PackInv, FreshIds, PackId
<1>3. FreshIds'
  BY <1>1, BoundsAssumption DEF PackInv, FreshIds, PackId
<1>4. \A u \in Thread : u # t => /\ Writing(u)' <=> Writing(u)
                                 /\ pc'[u] = pc[u]
                                 /\ batchId'[u] = batchId[u]
                                 /\ batch'[u] = batch[u]
  BY <1>1 DEF PackInv, TypeOK, Writing
<1>5. batchId'[t] = nextId /\ pc'[t] = "write"
  BY <1>1 DEF PackInv, TypeOK
<1>6. \A u \in Thread : batchId[u] \in Nat
  BY BoundsAssumption DEF PackInv, TypeOK, PackId
<1>7. nextId \in Nat
  BY <1>1, BoundsAssumption DEF PackId
<1>8. BatchIds'
  <2>1. ASSUME NEW u \in Thread, Writing(u)'
        PROVE  batchId'[u] < nextId'
    BY <1>1, <1>4, <1>5, <1>6, <1>7, <2>1 DEF PackInv, BatchIds
  <2>2. ASSUME NEW u \in Thread, NEW v \in Thread, Writing(u)', Writing(v)', u # v
        PROVE  batchId'[u] # batchId'[v]
    BY <1>4, <1>5, <1>6, <1>7, <2>2 DEF PackInv, BatchIds
  <2>3. ASSUME NEW u \in Thread, pc'[u] = "write"
        PROVE  disk'[batchId'[u]] = {}
    BY <1>2, <1>4, <1>5, <2>3 DEF PackInv, BatchIds
  <2>4. ASSUME NEW u \in Thread, pc'[u] = "install"
        PROVE  disk'[batchId'[u]] = batch'[u]
    BY <1>4, <1>5, <2>4 DEF PackInv, BatchIds
  <2>5. QED
    BY <2>1, <2>2, <2>3, <2>4 DEF BatchIds
<1>9. PacksOnDisk'
  BY DEF PackInv, PacksOnDisk
<1>10. QED
  BY <1>3, <1>8, <1>9

(* A step that neither drains nor writes nor opens leaves the packs alone.  *)
LEMMA QuietPack ==
    ASSUME PackInv, UNCHANGED <<disk, packs, nextId, batchId>>,
           \A u \in Thread : Writing(u)' => /\ pc'[u] = pc[u]
                                            /\ batch'[u] = batch[u]
    PROVE  FreshIds' /\ BatchIds' /\ PacksOnDisk'
<1>1. \A u \in Thread : Writing(u)' => Writing(u)
  BY DEF Writing
<1>2. BatchIds'
  <2>1. ASSUME NEW u \in Thread, Writing(u)'
        PROVE  batchId'[u] < nextId'
    BY <1>1, <2>1 DEF PackInv, BatchIds
  <2>2. ASSUME NEW u \in Thread, NEW v \in Thread, Writing(u)', Writing(v)', u # v
        PROVE  batchId'[u] # batchId'[v]
    BY <1>1, <2>2 DEF PackInv, BatchIds
  <2>3. ASSUME NEW u \in Thread, pc'[u] = "write"
        PROVE  disk'[batchId'[u]] = {}
    BY <2>3 DEF PackInv, BatchIds, Writing
  <2>4. ASSUME NEW u \in Thread, pc'[u] = "install"
        PROVE  disk'[batchId'[u]] = batch'[u]
    BY <2>4 DEF PackInv, BatchIds, Writing
  <2>5. QED
    BY <2>1, <2>2, <2>3, <2>4 DEF BatchIds
<1>3. QED
  BY <1>2 DEF PackInv, FreshIds, PacksOnDisk

LEMMA StepPack ==
    ASSUME OrderedNames, PackInv, [Next]_vars
    PROVE  PackInv'
<1>0. TypeOK'
  BY StepType DEF PackInv
<1> USE DEF disk_vars, ghost_vars
<1> SUFFICES FreshIds' /\ BatchIds' /\ PacksOnDisk'
  BY <1>0 DEF PackInv
<1>1. ASSUME NEW t \in Thread, NEW c \in Chunk,
             \/ Skip(t, c) \/ StartStore(t, c) \/ StartGet(t, c)
             \/ \E b \in Chunk : StartNearDup(t, c, b)
      PROVE  FreshIds' /\ BatchIds' /\ PacksOnDisk'
  <2>1. /\ UNCHANGED <<disk, packs, nextId, batchId, batch>>
        /\ \A u \in Thread : Writing(u)' => pc'[u] = pc[u]
    BY <1>1 DEF Skip, StartStore, StartGet, StartNearDup, Writing, PackInv, TypeOK
  <2>2. QED
    BY <2>1, QuietPack
<1>2. ASSUME NEW t \in Thread,
             \/ EncodeDelta(t) \/ Lookup(t) \/ InsertIndex(t)
             \/ PutSignature(t) \/ FinishGet(t) \/ Get(t)
      PROVE  FreshIds' /\ BatchIds' /\ PacksOnDisk'
  <2>1. /\ UNCHANGED <<disk, packs, nextId, batchId, batch>>
        /\ \A u \in Thread : Writing(u)' => pc'[u] = pc[u]
    BY <1>2 DEF EncodeDelta, Lookup, InsertIndex, PutSignature, FinishGet, Get,
                GetPending, GetStored, GetResume, Writing, PackInv, TypeOK
  <2>2. QED
    BY <2>1, QuietPack
<1>3. ASSUME NEW t \in Thread, AppendPending(t)
      PROVE  FreshIds' /\ BatchIds' /\ PacksOnDisk'
  <2>1. CASE Drain(t, pending \cup {item[t]})
    BY <1>3, <2>1, DrainPack DEF AppendPending, Writing
  <2>2. CASE ~Drain(t, pending \cup {item[t]})
    <3>1. /\ UNCHANGED <<disk, packs, nextId, batchId, batch>>
          /\ \A u \in Thread : Writing(u)' => pc'[u] = pc[u]
      BY <1>3, <2>2 DEF AppendPending, Writing, PackInv, TypeOK
    <3>2. QED
      BY <3>1, QuietPack
  <2>3. QED
    BY <2>1, <2>2
<1>4. ASSUME NEW t \in Thread, Flush(t)
      PROVE  FreshIds' /\ BatchIds' /\ PacksOnDisk'
  <2>1. CASE Drain(t, pending)
    BY <1>4, <2>1, DrainPack DEF Flush, Writing
  <2>2. CASE ~Drain(t, pending)
    BY <1>4, <2>2, QuietPack DEF Flush
  <2>3. QED
    BY <2>1, <2>2
<1>5. ASSUME NEW t \in Thread, WritePack(t)
      PROVE  FreshIds' /\ BatchIds' /\ PacksOnDisk'
  <2>1. /\ disk' = [disk EXCEPT ![batchId[t]] = batch[t]]
        /\ pc' = [pc EXCEPT ![t] = "install"]
        /\ UNCHANGED <<packs, nextId, batch, batchId>>
        /\ pc[t] = "write"
    BY <1>5 DEF WritePack
  <2>2. /\ batchId[t] \in PackId
        /\ batchId[t] < nextId
        /\ disk[batchId[t]] = {}
    BY <2>1 DEF PackInv, TypeOK, BatchIds, Writing
  <2>3. FreshIds'
    BY <2>1, <2>2, BoundsAssumption DEF PackInv, TypeOK, FreshIds, PackId
  <2>4. PacksOnDisk'
    BY <2>1, <2>2 DEF PackInv, TypeOK, PacksOnDisk
  <2>5. \A u \in Thread : /\ Writing(u)' <=> Writing(u)
                          /\ u # t => pc'[u] = pc[u]
                          /\ pc'[t] = "install"
    BY <2>1 DEF PackInv, TypeOK, Writing
  <2>6. \A u \in Thread : u # t /\ Writing(u) => batchId[u] # batchId[t]
    BY <2>1 DEF PackInv, BatchIds, Writing
  <2>7. BatchIds'
    <3>1. ASSUME NEW u \in Thread, pc'[u] = "write"
          PROVE  disk'[batchId'[u]] = {}
      BY <2>1, <2>2, <2>5, <2>6, <3>1 DEF PackInv, TypeOK, BatchIds, Writing
    <3>2. ASSUME NEW u \in Thread, pc'[u] = "install"
          PROVE  disk'[batchId'[u]] = batch'[u]
      <4>1. CASE u = t
        BY <2>1, <2>2, <4>1 DEF PackInv, TypeOK
      <4>2. CASE u # t
        BY <2>1, <2>2, <2>5, <2>6, <3>2, <4>2 DEF PackInv, TypeOK, BatchIds, Writing
      <4>3. QED
        BY <4>1, <4>2
    <3>3. QED
      BY <2>1, <2>5, <3>1, <3>2 DEF PackInv, BatchIds
  <2>8. QED
    BY <2>3, <2>4, <2>7
<1>6. ASSUME NEW t \in Thread, WriteFails(t)
      PROVE  FreshIds' /\ BatchIds' /\ PacksOnDisk'
  <2>1. /\ UNCHANGED <<disk, packs, nextId, batchId>>
        /\ \A u \in Thread : Writing(u)' => pc'[u] = pc[u] /\ batch'[u] = batch[u]
    BY <1>6 DEF WriteFails, Writing, PackInv, TypeOK
  <2>2. QED
    BY <2>1, QuietPack
<1>7. ASSUME NEW t \in Thread, Install(t)
      PROVE  FreshIds' /\ BatchIds' /\ PacksOnDisk'
  <2>1. /\ packs' = [packs EXCEPT ![batchId[t]] = batch[t]]
        /\ batch' = [batch EXCEPT ![t] = {}]
        /\ UNCHANGED <<disk, nextId, batchId>>
        /\ pc[t] = "install"
        /\ \/ pc' = [pc EXCEPT ![t] = "ready"]
           \/ pc' = [pc EXCEPT ![t] = "insert"]
    BY <1>7 DEF Install
  <2>2. disk[batchId[t]] = batch[t]
    BY <2>1 DEF PackInv, BatchIds
  <2>3. \A u \in Thread : Writing(u)' =>
            /\ Writing(u)
            /\ pc'[u] = pc[u]
            /\ batch'[u] = batch[u]
    BY <2>1 DEF PackInv, TypeOK, Writing
  <2>4. PacksOnDisk'
    BY <2>1, <2>2 DEF PackInv, TypeOK, PacksOnDisk
  <2>5. FreshIds'
    BY <2>1 DEF PackInv, FreshIds
  <2>6. BatchIds'
    <3>1. ASSUME NEW u \in Thread, pc'[u] = "write"
          PROVE  disk'[batchId'[u]] = {}
      BY <2>1, <2>3, <3>1 DEF PackInv, BatchIds, Writing
    <3>2. ASSUME NEW u \in Thread, pc'[u] = "install"
          PROVE  disk'[batchId'[u]] = batch'[u]
      BY <2>1, <2>3, <3>2 DEF PackInv, BatchIds, Writing
    <3>3. QED
      BY <2>1, <2>3, <3>1, <3>2 DEF PackInv, BatchIds
  <2>7. QED
    BY <2>4, <2>5, <2>6
<1>8. ASSUME Reopen
      PROVE  FreshIds' /\ BatchIds' /\ PacksOnDisk'
  <2>1. ASSUME NEW p \in PackId, disk[p] # {}
        PROVE  p < nextId'
    BY <1>8, <2>1, OpensFresh DEF Reopen, PackInv, TypeOK
  <2>2. FreshIds'
    BY <1>0, <1>8, <2>1, BoundsAssumption DEF Reopen, FreshIds, TypeOK, PackId
  <2>3. BatchIds' /\ PacksOnDisk'
    BY <1>8 DEF Reopen, BatchIds, PacksOnDisk, Writing
  <2>4. QED
    BY <2>2, <2>3
<1>9. CASE UNCHANGED vars
  BY <1>9, QuietPack DEF vars, thread_vars
<1>10. QED
  BY <1>1, <1>2, <1>3, <1>4, <1>5, <1>6, <1>7, <1>8, <1>9
     DEF Next, WriterStep, ReaderStep, Thread, PackInv, TypeOK

(* Only writing a pack changes a file, and it finds the file absent.        *)
LEMMA StepNoOverwrite ==
    ASSUME PackInv, [Next]_vars
    PROVE  \A p \in PackId : disk[p] # {} => disk'[p] = disk[p]
<1>1. CASE UNCHANGED disk
  BY <1>1
<1>2. ASSUME NEW t \in Thread, WritePack(t)
      PROVE  \A p \in PackId : disk[p] # {} => disk'[p] = disk[p]
  <2>1. disk[batchId[t]] = {}
    BY <1>2 DEF WritePack, PackInv, BatchIds
  <2>2. QED
    BY <1>2, <2>1 DEF WritePack, PackInv, TypeOK
<1>3. UNCHANGED disk \/ \E t \in Thread : WritePack(t)
  BY DEF Next, WriterStep, ReaderStep, Skip, StartStore, StartNearDup, EncodeDelta,
         Lookup, AppendPending, Flush, WriteFails, Install, InsertIndex,
         PutSignature, Get, GetPending, GetStored, GetResume, StartGet, FinishGet,
         Reopen, Thread, vars, disk_vars
<1>4. QED
  BY <1>1, <1>2, <1>3

(* The metadata a process holds of a pack is what the pack file holds,      *)
(* whichever threads write packs and whenever the process dies, as long as  *)
(* the names of the files sort like their ids.                              *)
THEOREM PacksOnDiskHolds ==
    ASSUME OrderedNames
    PROVE  Spec => []PacksOnDisk
<1>1. Init => PackInv
  BY InitPack
<1>2. PackInv /\ [Next]_vars => PackInv'
  BY StepPack
<1>3. PackInv => PacksOnDisk
  BY DEF PackInv
<1>4. QED
  BY <1>1, <1>2, <1>3, PTL DEF Spec

(* No step of any thread, and no restart, replaces a pack file.             *)
THEOREM NoOverwriteHolds ==
    ASSUME OrderedNames
    PROVE  Spec => NoOverwrite
<1>1. Init => PackInv
  BY InitPack
<1>2. PackInv /\ [Next]_vars => PackInv'
  BY StepPack
<1>3. PackInv /\ [Next]_vars
          => [\A p \in PackId : disk[p] # {} => disk'[p] = disk[p]]_vars
  BY StepNoOverwrite
<1>4. QED
  BY <1>1, <1>2, <1>3, PTL DEF Spec, NoOverwrite

-----------------------------------------------------------------------------
(* Whatever the dedup index knows is stored.                                *)

Holds(entries, c) == \E e \in entries : e.hash = c

(* Where a stored chunk is, in this state and in the next one.              *)
LEMMA StoredMember ==
    ASSUME NEW c
    PROVE  /\ c \in Stored <=>
               \/ Holds(pending, c)
               \/ \E t \in Thread : pc[t] = "write" /\ Holds(batch[t], c)
               \/ \E p \in PackId : Holds(disk[p], c)
               \/ c \in dropped
           /\ c \in Stored' <=>
               \/ Holds(pending', c)
               \/ \E t \in Thread : pc'[t] = "write" /\ Holds(batch'[t], c)
               \/ \E p \in PackId : Holds(disk'[p], c)
               \/ c \in dropped'
BY DEF Stored, Hashes, InFlight, OnDisk, Holds

(* No step of a thread loses a stored chunk: it moves from the buffer to a  *)
(* batch and from there to a file, or is written off with the batch.        *)
LEMMA StoredGrows ==
    ASSUME PackInv, NEW c \in Stored,
           \/ \E t \in Writers : WriterStep(t)
           \/ \E t \in Readers : ReaderStep(t)
    PROVE  c \in Stored'
<1> USE DEF disk_vars, ghost_vars
<1>0. \A p \in PackId : Holds(disk[p], c) => Holds(disk'[p], c)
  BY StepNoOverwrite DEF Next, Holds
<1>1. ASSUME NEW t \in Thread,
             \/ \E d \in Chunk : Skip(t, d) \/ StartStore(t, d) \/ StartGet(t, d)
             \/ \E d, b \in Chunk : StartNearDup(t, d, b)
             \/ EncodeDelta(t) \/ Lookup(t) \/ InsertIndex(t)
             \/ FinishGet(t) \/ Get(t)
      PROVE  c \in Stored'
  <2>1. /\ UNCHANGED <<disk, pending, batch, dropped>>
        /\ \A u \in Thread : pc[u] = "write" => pc'[u] = "write"
    BY <1>1 DEF Skip, StartStore, StartGet, StartNearDup, EncodeDelta, Lookup,
                InsertIndex, FinishGet, Get, GetPending, GetStored, GetResume,
                PackInv, TypeOK
  <2>2. QED
    BY <2>1, StoredMember
<1>2. ASSUME NEW t \in Thread, pc[t] # "write",
             NEW entries \in SUBSET Entry, pending \subseteq entries,
             Drain(t, entries), UNCHANGED <<disk, dropped>>
      PROVE  c \in Stored'
  <2>1. /\ batch'[t] = entries /\ pc'[t] = "write"
        /\ \A u \in Thread : pc[u] = "write" => pc'[u] = "write" /\ batch'[u] = batch[u]
    BY <1>2 DEF Drain, DrainAs, PackInv, TypeOK
  <2>2. CASE Holds(pending, c)
    BY <1>2, <2>1, <2>2, StoredMember DEF Holds
  <2>3. CASE ~Holds(pending, c)
    BY <1>2, <2>1, <2>3, StoredMember
  <2>4. QED
    BY <2>2, <2>3
<1>3. ASSUME NEW t \in Thread, AppendPending(t)
      PROVE  c \in Stored'
  <2>1. item[t] \in Entry /\ pc[t] # "write"
    BY <1>3 DEF AppendPending, PackInv, TypeOK
  <2>2. CASE Drain(t, pending \cup {item[t]})
    <3>1. pending \cup {item[t]} \in SUBSET Entry
      BY <2>1 DEF PackInv, TypeOK
    <3>2. QED
      BY <1>2, <1>3, <2>1, <2>2, <3>1 DEF AppendPending
  <2>3. CASE ~Drain(t, pending \cup {item[t]})
    <3>1. /\ pending \subseteq pending'
          /\ UNCHANGED <<disk, batch, dropped>>
          /\ \A u \in Thread : pc[u] = "write" => pc'[u] = "write"
      BY <1>3, <2>3 DEF AppendPending, PackInv, TypeOK
    <3>2. QED
      BY <3>1, StoredMember DEF Holds
  <2>4. QED
    BY <2>2, <2>3
<1>4. ASSUME NEW t \in Thread, Flush(t)
      PROVE  c \in Stored'
  <2>1. CASE Drain(t, pending)
    BY <1>2, <1>4, <2>1 DEF Flush, PackInv, TypeOK
  <2>2. CASE ~Drain(t, pending)
    BY <1>4, <2>2, StoredMember DEF Flush
  <2>3. QED
    BY <2>1, <2>2
<1>5. ASSUME NEW t \in Thread, WritePack(t)
      PROVE  c \in Stored'
  <2>1. /\ disk'[batchId[t]] = batch[t]
        /\ batchId[t] \in PackId
        /\ UNCHANGED <<pending, batch, dropped>>
        /\ \A u \in Thread : u # t /\ pc[u] = "write" => pc'[u] = "write"
    BY <1>5 DEF WritePack, PackInv, TypeOK
  <2>2. CASE Holds(batch[t], c)
    BY <2>1, <2>2, StoredMember
  <2>3. CASE ~Holds(batch[t], c)
    BY <1>0, <2>1, <2>3, StoredMember
  <2>4. QED
    BY <2>2, <2>3
<1>6. ASSUME NEW t \in Thread, WriteFails(t)
      PROVE  c \in Stored'
  <2>1. /\ UNCHANGED <<disk, pending>>
        /\ dropped \subseteq dropped'
        /\ pc[t] = "write" /\ Holds(batch[t], c) => c \in dropped'
        /\ \A u \in Thread : u # t /\ pc[u] = "write" =>
               pc'[u] = "write" /\ batch'[u] = batch[u]
    BY <1>6 DEF WriteFails, PackInv, TypeOK, Hashes, Holds
  <2>2. QED
    BY <2>1, StoredMember
<1>7. ASSUME NEW t \in Thread, Install(t)
      PROVE  c \in Stored'
  <2>1. /\ UNCHANGED <<disk, pending, dropped>>
        /\ \A u \in Thread : pc[u] = "write" => pc'[u] = "write" /\ batch'[u] = batch[u]
    BY <1>7 DEF Install, PackInv, TypeOK
  <2>2. QED
    BY <2>1, StoredMember
<1>8. ASSUME NEW t \in Thread, PutSignature(t)
      PROVE  c \in Stored'
  <2>1. Holds(pending, c) => Holds(pending', c)
    <3>1. SUFFICES ASSUME NEW e \in pending, e.hash = c
                   PROVE  \E f \in pending' : f.hash = c
      BY DEF Holds
    <3>2. CASE e.hash = item[t].hash
      <4>1. Signed(e) \in pending'
        BY <1>8, <3>2 DEF PutSignature
      <4>2. Signed(e).hash = c
        BY <3>1 DEF Signed
      <4>3. QED
        BY <4>1, <4>2
    <3>3. CASE e.hash # item[t].hash
      BY <1>8, <3>1, <3>3 DEF PutSignature
    <3>4. QED
      BY <3>2, <3>3
  <2>2. /\ UNCHANGED <<disk, batch, dropped>>
        /\ \A u \in Thread : pc[u] = "write" => pc'[u] = "write"
    BY <1>8 DEF PutSignature, PackInv, TypeOK
  <2>3. QED
    BY <2>1, <2>2, StoredMember
<1>9. QED
  BY <1>1, <1>3, <1>4, <1>5, <1>6, <1>7, <1>8
     DEF WriterStep, ReaderStep, Thread, PackInv, TypeOK

LEMMA InitIndex == ASSUME OrderedNames, Init PROVE IndexInv
<1>1. PutStores
  BY DEF Init, PutStores, Writing
<1>2. IndexedIsStored
  BY DEF Init, IndexedIsStored, IndexHas, IndexOf, OnDisk
<1>3. QED
  BY <1>1, <1>2, InitPack DEF IndexInv

(* The steps of PutStores: what a put drains includes its own entry.        *)
LEMMA StepPutStores ==
    ASSUME IndexInv, OrderedNames, [Next]_vars
    PROVE  PutStores'
<1> USE DEF disk_vars, ghost_vars
<1>0. PackInv /\ TypeOK /\ TypeOK'
  BY StepType DEF IndexInv, PackInv
<1>1. ASSUME NEW t \in Thread, NEW c \in Chunk,
             \/ Skip(t, c) \/ StartStore(t, c) \/ StartGet(t, c)
             \/ \E b \in Chunk : StartNearDup(t, c, b)
      PROVE  \A u \in Thread :
                /\ Writing(u)' => Writing(u) /\ item'[u] = item[u] /\ batch'[u] = batch[u]
                /\ pc'[u] = "insert" => pc[u] = "insert" /\ item'[u] = item[u]
  BY <1>0, <1>1 DEF Skip, StartStore, StartGet, StartNearDup, Writing, TypeOK
<1>2. ASSUME NEW t \in Thread,
             \/ EncodeDelta(t) \/ InsertIndex(t) \/ WriteFails(t)
             \/ PutSignature(t) \/ FinishGet(t) \/ Get(t) \/ WritePack(t)
      PROVE  \A u \in Thread :
                /\ Writing(u)' => Writing(u) /\ item'[u] = item[u] /\ batch'[u] = batch[u]
                /\ pc'[u] = "insert" => pc[u] = "insert" /\ item'[u] = item[u]
  BY <1>0, <1>2 DEF EncodeDelta, InsertIndex, PutSignature, FinishGet, Get,
                    GetPending, GetStored, GetResume, WritePack, WriteFails,
                    Writing, TypeOK
<1>3. ASSUME \A u \in Thread :
                /\ Writing(u)' => Writing(u) /\ item'[u] = item[u] /\ batch'[u] = batch[u]
                /\ pc'[u] = "insert" => pc[u] = "insert" /\ item'[u] = item[u],
             Stored \subseteq Stored'
      PROVE  PutStores'
  BY <1>3 DEF IndexInv, PutStores
<1>4. ASSUME NEW t \in Thread,
             \A u \in Thread \ {t} :
                /\ pc'[u] = pc[u] /\ item'[u] = item[u] /\ batch'[u] = batch[u],
             Writing(t)' => item'[t] = NoEntry \/ item'[t] \in batch'[t],
             pc'[t] = "insert" => item'[t].hash \in Stored',
             Stored \subseteq Stored'
      PROVE  PutStores'
  BY <1>4 DEF IndexInv, PutStores, Writing
<1>5. ASSUME \/ \E t \in Writers : WriterStep(t)
             \/ \E t \in Readers : ReaderStep(t)
      PROVE  Stored \subseteq Stored'
  BY <1>0, <1>5, StoredGrows
<1>6. ASSUME NEW t \in Thread, Lookup(t), Stored \subseteq Stored'
      PROVE  PutStores'
  <2>1. pc'[t] = "insert" => item'[t].hash \in Stored
    BY <1>0, <1>6 DEF Lookup, IndexHas, IndexInv, IndexedIsStored, Stored, TypeOK, Entry
  <2>2. QED
    BY <1>0, <1>4, <1>6, <2>1 DEF Lookup, TypeOK, Writing
<1>7. ASSUME NEW t \in Thread, AppendPending(t), Stored \subseteq Stored'
      PROVE  PutStores'
  <2>1. item[t] \in Entry /\ item'[t] = item[t]
    BY <1>0, <1>7 DEF AppendPending, TypeOK
  <2>2. CASE Drain(t, pending \cup {item[t]})
    <3>1. item'[t] \in batch'[t] /\ pc'[t] = "write"
      BY <1>0, <2>1, <2>2 DEF Drain, DrainAs, TypeOK
    <3>2. QED
      BY <1>0, <1>4, <1>7, <2>2, <3>1 DEF AppendPending, Drain, DrainAs, TypeOK
  <2>3. CASE ~Drain(t, pending \cup {item[t]})
    <3>1. Holds(pending', item[t].hash) /\ pc'[t] = "insert"
      BY <1>0, <1>7, <2>1, <2>3 DEF AppendPending, InPending, Hashes, Holds, TypeOK
    <3>2. item'[t].hash \in Stored'
      BY <2>1, <3>1, StoredMember
    <3>3. QED
      BY <1>0, <1>4, <1>7, <2>3, <3>1, <3>2 DEF AppendPending, Writing, TypeOK
  <2>4. QED
    BY <2>2, <2>3
<1>8. ASSUME NEW t \in Thread, Flush(t), Stored \subseteq Stored'
      PROVE  PutStores'
  <2>1. CASE Drain(t, pending)
    BY <1>0, <1>4, <1>8, <2>1 DEF Flush, Drain, DrainAs, TypeOK
  <2>2. CASE ~Drain(t, pending)
    BY <1>3, <1>8, <2>2 DEF Flush, Writing
  <2>3. QED
    BY <2>1, <2>2
<1>9. ASSUME NEW t \in Thread, Install(t), Stored \subseteq Stored'
      PROVE  PutStores'
  <2>1. pc'[t] = "insert" => item'[t] \in batch[t] /\ disk'[batchId[t]] = batch[t]
    BY <1>0, <1>9 DEF Install, IndexInv, PackInv, BatchIds, PutStores, Writing, TypeOK
  <2>2. pc'[t] = "insert" => item'[t].hash \in Stored'
    BY <1>0, <2>1, StoredMember DEF Holds, TypeOK
  <2>3. QED
    BY <1>0, <1>4, <1>9, <2>2 DEF Install, Writing, TypeOK
<1>10. CASE Reopen
  BY <1>10 DEF Reopen, PutStores, Writing
<1>11. CASE UNCHANGED vars
  BY <1>11 DEF vars, thread_vars, PutStores, IndexInv, Writing, Stored, InFlight, OnDisk
<1>12. QED
  BY <1>0, <1>1, <1>2, <1>3, <1>5, <1>6, <1>7, <1>8, <1>9, <1>10, <1>11
     DEF Next, WriterStep, ReaderStep, Thread, TypeOK

LEMMA StepIndex ==
    ASSUME OrderedNames, IndexInv, [Next]_vars
    PROVE  IndexInv'
<1> USE DEF disk_vars
<1>0. PackInv /\ TypeOK
  BY DEF IndexInv, PackInv
<1> SUFFICES IndexedIsStored'
  BY <1>0, StepPack, StepPutStores DEF IndexInv
<1>1. ASSUME \/ \E t \in Writers : WriterStep(t)
             \/ \E t \in Readers : ReaderStep(t)
      PROVE  Stored \subseteq Stored'
  BY <1>0, <1>1, StoredGrows
<1>2. ASSUME UNCHANGED index, Stored \subseteq Stored'
      PROVE  IndexedIsStored'
  BY <1>2 DEF IndexInv, IndexedIsStored, IndexHas, Stored
<1>3. ASSUME NEW t \in Thread, InsertIndex(t), Stored \subseteq Stored'
      PROVE  IndexedIsStored'
  <2>1. item[t].hash \in Stored
    BY <1>3 DEF InsertIndex, IndexInv, PutStores
  <2>2. \A c \in Chunk : c # item[t].hash => index'[c] = index[c]
    BY <1>0, <1>3 DEF InsertIndex, TypeOK
  <2>3. QED
    BY <1>3, <2>1, <2>2 DEF IndexInv, IndexedIsStored, IndexHas, Stored
<1>4. CASE Reopen
  BY <1>4 DEF Reopen, IndexedIsStored, IndexHas, IndexOf, OnDisk
<1>5. CASE UNCHANGED vars
  BY <1>5 DEF vars, thread_vars, ghost_vars, IndexInv, IndexedIsStored, IndexHas,
              InFlight, OnDisk
<1>6. ASSUME NEW t \in Thread, WriterStep(t) \/ ReaderStep(t)
      PROVE  UNCHANGED index \/ InsertIndex(t)
  BY <1>6 DEF WriterStep, ReaderStep, Skip, StartStore, StartNearDup, EncodeDelta,
              Lookup, AppendPending, Flush, WritePack, WriteFails, Install,
              PutSignature, Get, GetPending, GetStored, GetResume, StartGet,
              FinishGet
<1>7. QED
  BY <1>1, <1>2, <1>3, <1>4, <1>5, <1>6 DEF Next, Thread

(* A chunk the dedup index makes later backups skip is pending, being       *)
(* written, or on disk, or was in a pack whose write failed; so far as file *)
(* names sort like pack ids, which they do up to ten packs.                 *)
THEOREM IndexedIsStoredHolds ==
    ASSUME OrderedNames
    PROVE  Spec => []IndexedIsStored
<1>1. Init => IndexInv
  BY InitIndex
<1>2. IndexInv /\ [Next]_vars => IndexInv'
  BY StepIndex
<1>3. IndexInv => IndexedIsStored
  BY DEF IndexInv
<1>4. QED
  BY <1>1, <1>2, <1>3, PTL DEF Spec

-----------------------------------------------------------------------------
(* A finished backup stays on disk.                                         *)

LEMMA InitBackup == ASSUME OrderedNames, Init PROVE BackupInv
<1>1. IndexInv
  BY InitIndex
<1>2. QED
  BY <1>1 DEF Init, BackupInv, Writing, PromiseKept, Thread

(* When flush returns to the only writer, whatever its backup stored is on  *)
(* disk: nothing is pending, nothing is in flight, nothing was dropped.     *)
LEMMA FlushedIsOnDisk ==
    ASSUME BackupInv, SingleWriter, NEW t \in Writers, pc[t] # "write", pending = {}
    PROVE  owed[t] \subseteq OnDisk
<1>1. \A u \in Thread : pc[u] # "write"
  BY DEF BackupInv, SingleWriter, Thread
<1>2. InFlight = {}
  BY <1>1 DEF InFlight
<1>3. Hashes(pending) = {} /\ dropped = {}
  BY DEF Hashes, BackupInv
<1>4. ASSUME NEW c \in owed[t]
      PROVE  c \in OnDisk
  <2>1. c \in Chunk /\ index[c] # "absent"
    BY <1>4 DEF BackupInv, IndexInv, PackInv, TypeOK, IndexHas, Thread
  <2>2. QED
    BY <1>2, <1>3, <2>1 DEF BackupInv, IndexInv, IndexedIsStored, IndexHas
<1>5. QED
  BY <1>4

(* Files stay, so what was promised stays on disk.                          *)
LEMMA OnDiskGrows ==
    ASSUME PackInv, [Next]_vars
    PROVE  OnDisk \subseteq OnDisk'
BY StepNoOverwrite DEF OnDisk, Hashes

LEMMA IndexGrows ==
    ASSUME NEW t \in Thread, WriterStep(t) \/ ReaderStep(t), TypeOK
    PROVE  /\ \A c \in Chunk : IndexHas(c) => IndexHas(c)'
           /\ InsertIndex(t) => item[t].hash \in Chunk /\ IndexHas(item[t].hash)'
<1>1. CASE InsertIndex(t)
  <2>1. item[t].hash \in Chunk
    BY <1>1 DEF InsertIndex, TypeOK, Entry
  <2>2. QED
    BY <1>1, <2>1 DEF InsertIndex, IndexHas, TypeOK
<1>2. CASE ~InsertIndex(t)
  <2>1. UNCHANGED index
    BY <1>2 DEF WriterStep, ReaderStep, Skip, StartStore, StartNearDup, EncodeDelta,
              Lookup, AppendPending, Flush, WritePack, WriteFails, Install,
              PutSignature, Get, GetPending, GetStored, GetResume, StartGet,
              FinishGet, disk_vars
  <2>2. QED
    BY <1>2, <2>1 DEF IndexHas
<1>3. QED
  BY <1>1, <1>2

LEMMA StepBackup ==
    ASSUME OrderedNames, SingleWriter, ~WriteCanFail, BackupInv, [Next]_vars
    PROVE  BackupInv'
<1> USE DEF disk_vars, ghost_vars
<1>0. PackInv /\ TypeOK /\ TypeOK' /\ IndexInv /\ IndexInv'
  BY StepIndex, StepType DEF BackupInv, IndexInv, PackInv
<1>1. CASE UNCHANGED vars
  BY <1>0, <1>1 DEF vars, thread_vars, BackupInv, Writing, IndexHas, PromiseKept, OnDisk
<1>2. CASE Reopen
  BY <1>0, <1>2 DEF Reopen, BackupInv, Writing, IndexHas, PromiseKept, OnDisk, Thread
<1>3. OnDisk \subseteq OnDisk'
  BY <1>0, OnDiskGrows
<1>4. ASSUME NEW t \in Readers, ReaderStep(t)
      PROVE  BackupInv'
  <2>1. /\ UNCHANGED <<disk, pending, index, dropped, promised>>
        /\ pc'[t] \in {"ready", "get"}
        /\ \A u \in Thread \ {t} : pc'[u] = pc[u] /\ owed'[u] = owed[u]
    BY <1>0, <1>4 DEF ReaderStep, StartGet, FinishGet, Get, GetPending, GetStored,
                      GetResume, TypeOK, Thread, BackupInv
  <2>2. t \notin Writers
    BY ThreadsAssumption
  <2>3. QED
    BY <1>0, <2>1, <2>2, ThreadsAssumption
       DEF BackupInv, Writing, IndexHas, PromiseKept, OnDisk, Thread
<1>5. ASSUME NEW t \in Writers, WriterStep(t)
      PROVE  BackupInv'
  <2>0. t \in Thread /\ t \notin Readers /\ \A u \in Writers : u = t
    BY ThreadsAssumption DEF SingleWriter, Thread
  <2>1. \A u \in Readers : pc'[u] \in {"ready", "get"}
    <3>1. \A u \in Thread : u # t => pc'[u] = pc[u]
      BY <1>0, <1>5 DEF WriterStep, Skip, StartStore, StartNearDup, EncodeDelta, Lookup,
             AppendPending, Drain, DrainAs, Flush, FlushReturns, WritePack, WriteFails,
             Install, InsertIndex, PutSignature, Get, GetPending, GetStored, GetResume,
             TypeOK
    <3>2. QED
      BY <2>0, <3>1 DEF BackupInv, Thread
  <2>2. Writing(t)' => pending' = {}
    <3>1. CASE AppendPending(t) \/ Flush(t)
      BY <1>0, <2>0, <3>1 DEF AppendPending, Flush, Drain, DrainAs, Writing, TypeOK
    <3>2. CASE WritePack(t) \/ Install(t)
      BY <1>0, <2>0, <3>2 DEF WritePack, Install, Writing, BackupInv, TypeOK
    <3>3. CASE UNCHANGED pc /\ UNCHANGED pending
      BY <3>3 DEF BackupInv, Writing
    <3>4. CASE ~Writing(t)'
      BY <3>4
    <3>5. QED
      BY <1>0, <1>5, <2>0, <3>1, <3>2, <3>3, <3>4
         DEF WriterStep, Skip, StartStore, StartNearDup, EncodeDelta, Lookup,
             WriteFails, InsertIndex, PutSignature, Get, GetPending, GetStored,
             GetResume, Writing, TypeOK
  <2>3. ASSUME NEW c \in owed'[t]
        PROVE  IndexHas(c)'
    <3>1. c \in Chunk
      BY <1>0, <2>0 DEF TypeOK
    <3>2. CASE c \in owed[t]
      BY <1>0, <1>5, <2>0, <3>1, <3>2, IndexGrows DEF BackupInv
    <3>3. CASE c \notin owed[t]
      <4>1. CASE InsertIndex(t)
        <5>1. owed'[t] = owed[t] \cup {item[t].hash}
          BY <1>0, <2>0, <4>1 DEF InsertIndex, TypeOK
        <5>2. IndexHas(item[t].hash)'
          BY <1>0, <1>5, <2>0, <4>1, IndexGrows
        <5>3. item'[t] = item[t]
          BY <4>1 DEF InsertIndex
        <5>4. c = item[t].hash
          BY <2>3, <3>3, <5>1
        <5>5. QED
          BY <5>2, <5>3, <5>4 DEF IndexHas
      <4>2. CASE \E d \in Chunk : Skip(t, d)
        BY <1>0, <2>0, <2>3, <3>3, <4>2 DEF Skip, IndexHas, TypeOK
      <4>3. QED
        BY <1>0, <1>5, <2>0, <2>3, <3>3, <4>1, <4>2
           DEF WriterStep, StartStore, StartNearDup, EncodeDelta, Lookup,
               AppendPending, Flush, FlushReturns, WritePack, WriteFails, Install,
               PutSignature, Get, GetPending, GetStored, GetResume, TypeOK
    <3>4. QED
      BY <3>2, <3>3
  <2>4. dropped' = {}
    BY <1>5 DEF BackupInv, WriterStep, Skip, StartStore, StartNearDup, EncodeDelta,
            Lookup, AppendPending, Flush, FlushReturns, WritePack, WriteFails, Install,
            InsertIndex, PutSignature, Get, GetPending, GetStored, GetResume
  <2>5. PromiseKept'
    <3>1. CASE UNCHANGED promised
      BY <1>3, <3>1 DEF BackupInv, PromiseKept
    <3>2. ASSUME FlushReturns(t), pc[t] # "write", pending = {}
          PROVE  PromiseKept'
      <4>1. owed[t] \subseteq OnDisk
        BY <3>2, FlushedIsOnDisk
      <4>2. QED
        BY <1>3, <3>2, <4>1 DEF BackupInv, PromiseKept, FlushReturns
    <3>3. ASSUME Install(t), ~UNCHANGED promised
          PROVE  PromiseKept'
      BY <3>2, <3>3 DEF Install, BackupInv, Writing
    <3>4. ASSUME Flush(t), ~UNCHANGED promised
          PROVE  PromiseKept'
      BY <3>2, <3>4 DEF Flush
    <3>5. QED
      BY <1>5, <3>1, <3>3, <3>4
         DEF WriterStep, Skip, StartStore, StartNearDup, EncodeDelta, Lookup,
             AppendPending, WritePack, WriteFails, InsertIndex, PutSignature, Get,
             GetPending, GetStored, GetResume
  <2>6. QED
    BY <1>0, <2>0, <2>1, <2>2, <2>3, <2>4, <2>5 DEF BackupInv
<1>6. QED
  BY <1>1, <1>2, <1>4, <1>5 DEF Next

(* With one backup at a time, writes that succeed and file names that sort  *)
(* like their ids, every chunk of a finished backup is in a pack file from  *)
(* then on, whatever the readers do and whenever the process dies.  Each of *)
(* the three conditions is needed: LocalStoreFlushWindow.cfg,               *)
(* LocalStoreFlushFailure.cfg and LocalStoreIds.cfg break PromiseKept else. *)
THEOREM PromiseKeptHolds ==
    ASSUME OrderedNames, SingleWriter, ~WriteCanFail
    PROVE  Spec => []PromiseKept
<1>1. Init => BackupInv
  BY InitBackup
<1>2. BackupInv /\ [Next]_vars => BackupInv'
  BY StepBackup
<1>3. BackupInv => PromiseKept
  BY DEF BackupInv
<1>4. QED
  BY <1>1, <1>2, <1>3, PTL DEF Spec

-----------------------------------------------------------------------------
(* The store implements the trait.                                          *)

LEMMA OnDiskType == ASSUME TypeOK PROVE OnDisk \subseteq Chunk
BY DEF TypeOK, OnDisk, Hashes, Entry

LEMMA OnDiskTypeNext == ASSUME TypeOK' PROVE OnDisk' \subseteq Chunk
BY DEF TypeOK, OnDisk, Hashes, Entry

LEMMA PromisesWhatIsStored ==
    ASSUME BackupInv, SingleWriter, [Next]_vars, promised' # promised
    PROVE  \E t \in Writers : /\ promised' = promised \cup owed[t]
                              /\ owed[t] \subseteq OnDisk
                              /\ UNCHANGED disk
<1>1. PICK t \in Writers : Flush(t) \/ Install(t)
  BY DEF Next, WriterStep, ReaderStep, Skip, StartStore, StartNearDup, EncodeDelta,
         Lookup, AppendPending, WritePack, WriteFails, InsertIndex, PutSignature, Get,
         GetPending, GetStored, GetResume, StartGet, FinishGet, Reopen, vars, ghost_vars
<1>2. CASE Flush(t)
  <2>1. pc[t] # "write" /\ pending = {}
    BY <1>2 DEF Flush
  <2>2. QED
    BY <1>2, <2>1, FlushedIsOnDisk DEF Flush, FlushReturns
<1>3. CASE Install(t)
  <2>1. pc[t] # "write" /\ pending = {}
    BY <1>3 DEF Install, BackupInv, Writing
  <2>2. QED
    BY <1>3, <2>1, FlushedIsOnDisk DEF Install, FlushReturns
<1>4. QED
  BY <1>1, <1>2, <1>3

(* Under the conditions of PromiseKeptHolds the local store implements what *)
(* the trait promises, for every number of chunks, packs and readers.       *)
THEOREM Implementation ==
    ASSUME OrderedNames, SingleWriter, ~WriteCanFail
    PROVE  Spec => ImplementsContentStore
<1>1. Init => BackupInv
  BY InitBackup
<1>2. BackupInv /\ [Next]_vars => BackupInv'
  BY StepBackup
<1>3. BackupInv => OnDisk \subseteq Chunk
  BY OnDiskType DEF BackupInv, IndexInv, PackInv
<1>4. Init => Durable!Init
  BY <1>1, <1>3 DEF Init, Durable!Init
<1>5. BackupInv /\ BackupInv' /\ [Next]_vars => [Durable!Next]_<<OnDisk, promised>>
  <2> SUFFICES ASSUME BackupInv, BackupInv', [Next]_vars
               PROVE  [Durable!Next]_<<OnDisk, promised>>
    OBVIOUS
  <2>1. CASE promised' = promised
    <3>1. OnDisk \subseteq OnDisk' /\ OnDisk' \subseteq Chunk
      BY OnDiskGrows, OnDiskTypeNext DEF BackupInv, IndexInv, PackInv
    <3>2. QED
      BY <2>1, <3>1 DEF Durable!Next, Durable!Add, Durable!Grows
  <2>2. CASE promised' # promised
    <3>1. PICK t \in Writers : /\ promised' = promised \cup owed[t]
                               /\ owed[t] \subseteq OnDisk
                               /\ UNCHANGED disk
      BY <2>2, PromisesWhatIsStored
    <3>2. OnDisk' = OnDisk /\ OnDisk \subseteq Chunk
      BY <1>3, <3>1 DEF OnDisk
    <3>3. QED
      BY <3>1, <3>2 DEF Durable!Next, Durable!Promise, Durable!Grows
  <2>3. QED
    BY <2>1, <2>2
<1>6. QED
  BY <1>1, <1>2, <1>4, <1>5, PTL DEF Spec, ImplementsContentStore, Durable!Spec

-----------------------------------------------------------------------------
(* No buffer and no pack holds a chunk twice.                               *)

LEMMA OnceParts ==
    PendingOnce <=> /\ Once(pending)
                    /\ \A t \in Thread : Once(batch[t])
                    /\ \A p \in PackId : Once(disk[p])
BY DEF PendingOnce, Once

LEMMA OnceAdded ==
    ASSUME NEW entries, NEW e, Once(entries), e.hash \notin Hashes(entries)
    PROVE  Once(entries \cup {e})
BY DEF Once, Hashes

(* put_signature only marks entries: each is an entry that was there.       *)
LEMMA SignedFrom ==
    ASSUME NEW t \in Thread, PutSignature(t), NEW e \in pending'
    PROVE  \E f \in pending :
              /\ e = IF f.hash = item[t].hash THEN Signed(f) ELSE f
              /\ e.hash = f.hash /\ e.base = f.base
<1> DEFINE mine == {f \in pending : f.hash = item[t].hash}
<1>1. e \in (pending \ mine) \cup {Signed(f) : f \in mine}
  BY DEF PutSignature
<1>2. CASE e \in pending \ mine
  BY <1>2
<1>3. ASSUME NEW f \in mine, e = Signed(f)
      PROVE  e.hash = f.hash /\ e.base = f.base
  BY <1>3 DEF Signed
<1>4. QED
  BY <1>1, <1>2, <1>3

LEMMA StepOnce ==
    ASSUME TypeOK, PendingOnce, [Next]_vars
    PROVE  PendingOnce'
<1> USE DEF disk_vars, ghost_vars
<1>0. /\ Once(pending)
      /\ \A t \in Thread : Once(batch[t])
      /\ \A p \in PackId : Once(disk[p])
  BY OnceParts
<1>1. SUFFICES /\ Once(pending')
               /\ \A t \in Thread : Once(batch'[t])
               /\ \A p \in PackId : Once(disk'[p])
  BY DEF PendingOnce, Once
<1>2. Once({})
  BY DEF Once
<1>3. CASE UNCHANGED <<pending, batch, disk>>
  BY <1>0, <1>3
<1>4. ASSUME NEW t \in Thread, NEW entries, Once(entries), Drain(t, entries),
             UNCHANGED disk
      PROVE  /\ Once(pending')
             /\ \A u \in Thread : Once(batch'[u])
             /\ \A p \in PackId : Once(disk'[p])
  BY <1>0, <1>2, <1>4 DEF Drain, DrainAs, TypeOK
<1>5. ASSUME NEW t \in Thread, AppendPending(t)
      PROVE  /\ Once(pending')
             /\ \A u \in Thread : Once(batch'[u])
             /\ \A p \in PackId : Once(disk'[p])
  <2>1. CASE InPending(item[t].hash)
    BY <1>0, <1>5, <2>1 DEF AppendPending
  <2>2. CASE ~InPending(item[t].hash)
    <3>1. Once(pending \cup {item[t]})
      BY <1>0, <2>2, OnceAdded DEF InPending
    <3>2. CASE pending' = pending \cup {item[t]} /\ UNCHANGED batch
      BY <1>0, <1>5, <3>1, <3>2 DEF AppendPending
    <3>3. CASE Drain(t, pending \cup {item[t]})
      BY <1>4, <1>5, <3>1, <3>3 DEF AppendPending
    <3>4. QED
      BY <1>5, <2>2, <3>2, <3>3 DEF AppendPending
  <2>3. QED
    BY <2>1, <2>2
<1>6. ASSUME NEW t \in Thread, Flush(t)
      PROVE  /\ Once(pending')
             /\ \A u \in Thread : Once(batch'[u])
             /\ \A p \in PackId : Once(disk'[p])
  BY <1>0, <1>3, <1>4, <1>6 DEF Flush
<1>7. ASSUME NEW t \in Thread, WritePack(t)
      PROVE  /\ Once(pending')
             /\ \A u \in Thread : Once(batch'[u])
             /\ \A p \in PackId : Once(disk'[p])
  BY <1>0, <1>7 DEF WritePack, TypeOK
<1>8. ASSUME NEW t \in Thread, WriteFails(t) \/ Install(t)
      PROVE  /\ Once(pending')
             /\ \A u \in Thread : Once(batch'[u])
             /\ \A p \in PackId : Once(disk'[p])
  BY <1>0, <1>2, <1>8 DEF WriteFails, Install, TypeOK
<1>9. ASSUME NEW t \in Thread, PutSignature(t)
      PROVE  /\ Once(pending')
             /\ \A u \in Thread : Once(batch'[u])
             /\ \A p \in PackId : Once(disk'[p])
  <2>1. ASSUME NEW e \in pending', NEW f \in pending', e.hash = f.hash
        PROVE  e = f
    <3>1. PICK d \in pending : /\ e = IF d.hash = item[t].hash THEN Signed(d) ELSE d
                               /\ e.hash = d.hash
      BY <1>9, SignedFrom
    <3>2. PICK g \in pending : /\ f = IF g.hash = item[t].hash THEN Signed(g) ELSE g
                               /\ f.hash = g.hash
      BY <1>9, SignedFrom
    <3>3. d = g
      BY <1>0, <2>1, <3>1, <3>2 DEF Once
    <3>4. QED
      BY <3>1, <3>2, <3>3
  <2>2. QED
    BY <1>0, <1>9, <2>1 DEF PutSignature, Once
<1>10. CASE Reopen
  BY <1>0, <1>2, <1>10 DEF Reopen
<1>11. ASSUME NEW t \in Thread, WriterStep(t) \/ ReaderStep(t)
       PROVE  \/ UNCHANGED <<pending, batch, disk>>
              \/ AppendPending(t) \/ Flush(t) \/ WritePack(t) \/ WriteFails(t)
              \/ Install(t) \/ PutSignature(t)
  BY <1>11 DEF WriterStep, ReaderStep, Skip, StartStore, StartNearDup, EncodeDelta,
         Lookup, InsertIndex, Get, GetPending, GetStored, GetResume, StartGet, FinishGet
<1>12. CASE UNCHANGED vars
  BY <1>3, <1>12 DEF vars, thread_vars
<1>13. QED
  BY <1>3, <1>5, <1>6, <1>7, <1>8, <1>9, <1>10, <1>11, <1>12 DEF Next, Thread

(* put asks the index and locks the store later, yet two threads that store *)
(* one chunk never put it into the buffer, or into one pack, twice; for any *)
(* number of threads, with failing writes and restarts.                     *)
THEOREM PendingOnceHolds ==
    ASSUME PacksOnce
    PROVE  Spec => []PendingOnce
<1>1. Init => TypeOK /\ PendingOnce
  BY InitType, OnceParts DEF Init, PacksOnce, Once
<1>2. TypeOK /\ PendingOnce /\ [Next]_vars => TypeOK' /\ PendingOnce'
  BY StepType, StepOnce
<1>3. QED
  BY <1>1, <1>2, PTL DEF Spec

-----------------------------------------------------------------------------
(* Writers store chunks the store did not have when it was opened, over     *)
(* chunks stored since.                                                     *)

(* Within a session the index only gains placeholders.                      *)
LEMMA SessionIndex ==
    ASSUME TypeOK, NEW t \in Thread, WriterStep(t) \/ ReaderStep(t)
    PROVE  /\ Located' = Located
           /\ Placeholder \subseteq Placeholder'
           /\ ~InsertIndex(t) => Placeholder' = Placeholder
<1>1. CASE InsertIndex(t)
  <2>1. item[t].hash \in Chunk
    BY <1>1 DEF InsertIndex, TypeOK, Entry
  <2>2. index' = [index EXCEPT ![item[t].hash] =
                      IF index[item[t].hash] = "absent" THEN "placeholder"
                      ELSE index[item[t].hash]]
    BY <1>1 DEF InsertIndex
  <2>3. QED
    BY <1>1, <2>1, <2>2 DEF Located, Placeholder, TypeOK
<1>2. CASE ~InsertIndex(t)
  <2>1. UNCHANGED index
    BY <1>2 DEF WriterStep, ReaderStep, Skip, StartStore, StartNearDup, EncodeDelta,
              Lookup, AppendPending, Flush, WritePack, WriteFails, Install,
              PutSignature, Get, GetPending, GetStored, GetResume, StartGet,
              FinishGet, disk_vars
  <2>2. QED
    BY <1>2, <2>1 DEF Located, Placeholder
<1>3. QED
  BY <1>1, <1>2

(* A step of one thread leaves the others where they are.                   *)
LEMMA OthersStay ==
    ASSUME TypeOK, NEW t \in Thread, WriterStep(t) \/ ReaderStep(t),
           NEW u \in Thread, u # t
    PROVE  pc'[u] = pc[u] /\ item'[u] = item[u] /\ bases'[u] = bases[u]
           /\ batch'[u] = batch[u]
BY DEF WriterStep, ReaderStep, Skip, StartStore, StartNearDup, EncodeDelta,
       Lookup, AppendPending, Drain, DrainAs, Flush, FlushReturns, WritePack,
       WriteFails, Install, InsertIndex, PutSignature, Get, GetPending, GetStored,
       GetResume, StartGet, FinishGet, TypeOK

(* What is true of a thread that does not move stays true.                  *)
LEMMA OthersGood ==
    ASSUME TypeOK, NEW t \in Thread, WriterStep(t) \/ ReaderStep(t),
           NEW u \in Thread, u # t, StoresNew(u), BasesStored(u)
    PROVE  StoresNew(u)' /\ BasesStored(u)'
BY SessionIndex, OthersStay DEF StoresNew, BasesStored, Storing, OverPlaceholder

LEMMA ReadsChangeNothing ==
    ASSUME NEW t \in Thread, Get(t)
    PROVE  UNCHANGED <<disk_vars, pc, item, batch, batchId, bases, owed, ghost_vars>>
BY DEF Get, GetPending, GetStored, GetResume

LEMMA StepWriter ==
    ASSUME TypeOK, NEW t \in Writers, WriterStep(t), StoresNew(t), BasesStored(t)
    PROVE  StoresNew(t)' /\ BasesStored(t)'
<1> USE DEF disk_vars, ghost_vars
<1> DEFINE Good == StoresNew(t)' /\ BasesStored(t)'
<1>0. t \in Thread /\ Located' = Located /\ Placeholder \subseteq Placeholder'
  BY SessionIndex DEF Thread
<1>1. pc[t] = "ready" => bases[t] \subseteq Placeholder
  BY DEF BasesStored, Storing
<1>2. ASSUME NEW c \in Chunk, Skip(t, c)
      PROVE  Good
  BY <1>0, <1>2 DEF Skip, StoresNew, BasesStored, Storing, OverPlaceholder
<1>3. ASSUME NEW c \in Chunk, StartStore(t, c)
      PROVE  Good
  <2>1. c \notin Located
    BY <1>3 DEF StartStore, IsSent, IndexHas, Located
  <2>2. item'[t] = FullEntry(c) /\ pc'[t] = "lookup" /\ bases'[t] = bases[t] \cup {c}
        /\ pc[t] = "ready"
    BY <1>0, <1>3 DEF StartStore, TypeOK
  <2>3. FullEntry(c).hash = c /\ FullEntry(c).base = NoBase /\ FullEntry(c) \in Entry
    BY DEF FullEntry, StoredAs, Entry, Bytes
  <2>4. QED
    BY <1>0, <1>1, <2>1, <2>2, <2>3, NamesAssumption
       DEF StoresNew, BasesStored, Storing, OverPlaceholder
<1>4. ASSUME NEW c \in Chunk, NEW b \in bases[t], StartNearDup(t, c, b)
      PROVE  Good
  <2>1. c \notin Located /\ b # c /\ b \in Placeholder
    BY <1>1, <1>4 DEF StartNearDup, IsSent, IndexHas, Located
  <2>2. item'[t] = DeltaEntry(c, b) /\ pc'[t] = "get" /\ bases'[t] = bases[t]
        /\ pc[t] = "ready"
    BY <1>0, <1>4 DEF StartNearDup, TypeOK
  <2>3. DeltaEntry(c, b).hash = c /\ DeltaEntry(c, b).base = b
    BY DEF DeltaEntry, StoredAs
  <2>4. QED
    BY <1>0, <1>1, <2>1, <2>2, <2>3
       DEF StoresNew, BasesStored, Storing, OverPlaceholder
<1>5. ASSUME EncodeDelta(t)
      PROVE  Good
  <2>1. item[t] \in Entry /\ Storing(t) /\ pc[t] # "sign"
    BY <1>0, <1>5, NamesAssumption DEF EncodeDelta, TypeOK, Storing
  <2>2. /\ item'[t].hash = item[t].hash
        /\ item'[t].base = item[t].base \/ item'[t].base = NoBase
        /\ item'[t] \in Entry
    <3>1. \/ item'[t] = StoredAs(item[t].hash, item[t].base, reply[t])
             /\ reply[t] \in Bytes
          \/ item'[t] = FullEntry(item[t].hash)
      BY <1>0, <1>5 DEF EncodeDelta, TypeOK
    <3>2. item[t].hash \in Chunk /\ item[t].base \in Chunk \cup {NoBase}
      BY <2>1 DEF Entry
    <3>3. CASE item'[t] = FullEntry(item[t].hash)
      BY <3>2, <3>3 DEF StoredAs, FullEntry, Entry, Bytes
    <3>4. CASE /\ item'[t] = StoredAs(item[t].hash, item[t].base, reply[t])
               /\ reply[t] \in Bytes
      BY <3>2, <3>4 DEF StoredAs, Entry
    <3>5. QED
      BY <3>1, <3>3, <3>4
  <2>3. pc'[t] = "lookup" /\ bases'[t] = bases[t]
    BY <1>0, <1>5 DEF EncodeDelta, TypeOK
  <2>4. QED
    BY <1>0, <2>1, <2>2, <2>3, NamesAssumption
       DEF StoresNew, BasesStored, Storing, OverPlaceholder
<1>6. ASSUME \/ Lookup(t) \/ AppendPending(t) \/ WritePack(t)
             \/ Install(t) /\ item[t] # NoEntry
      PROVE  Good
  <2>1. /\ item'[t] = item[t] /\ bases'[t] = bases[t]
        /\ pc'[t] \in {"append", "insert", "write", "install"}
        /\ pc[t] \notin {"ready", "sign"}
    BY <1>0, <1>6 DEF Lookup, AppendPending, Drain, DrainAs, WritePack, Install, TypeOK
  <2>2. QED
    BY <1>0, <2>1 DEF StoresNew, BasesStored, Storing, OverPlaceholder
<1>7. ASSUME Flush(t) \/ WriteFails(t) \/ (Install(t) /\ item[t] = NoEntry)
      PROVE  Good
  <2>1. \/ bases'[t] = {}
        \/ item'[t] = NoEntry /\ bases'[t] = bases[t] /\ pc[t] = "ready"
    BY <1>0, <1>7 DEF Flush, FlushReturns, WriteFails, Install, TypeOK
  <2>2. pc'[t] = "ready" \/ item'[t] = NoEntry
    BY <1>0, <1>7 DEF Flush, FlushReturns, WriteFails, Install, TypeOK
  <2>3. QED
    BY <1>0, <1>1, <2>1, <2>2 DEF StoresNew, BasesStored, Storing
<1>8. ASSUME InsertIndex(t)
      PROVE  Good
  <2>1. item[t] \in Entry /\ item[t].hash \in Chunk /\ Storing(t)
    BY <1>0, <1>8, NamesAssumption DEF InsertIndex, TypeOK, Entry, Storing
  <2>2. item[t].hash \in Placeholder'
    BY <2>1, <1>0, <1>8 DEF InsertIndex, StoresNew, Located, Placeholder, TypeOK
  <2>3. pc'[t] = "sign" /\ bases'[t] = bases[t] /\ item'[t] = item[t]
    BY <1>0, <1>8 DEF InsertIndex, TypeOK
  <2>4. QED
    BY <1>0, <2>1, <2>2, <2>3 DEF StoresNew, BasesStored, Storing, OverPlaceholder
<1>9. ASSUME PutSignature(t)
      PROVE  Good
  <2>1. pc'[t] = "ready" /\ bases'[t] = bases[t] /\ pc[t] = "sign"
    BY <1>0, <1>9 DEF PutSignature, TypeOK
  <2>2. QED
    BY <1>0, <2>1 DEF StoresNew, BasesStored, Storing
<1>10. ASSUME Get(t)
       PROVE  Good
  BY <1>0, <1>10, ReadsChangeNothing
     DEF StoresNew, BasesStored, Storing, OverPlaceholder
<1>11. QED
  BY <1>2, <1>3, <1>4, <1>5, <1>6, <1>7, <1>8, <1>9, <1>10 DEF WriterStep, Install

LEMMA StepBases ==
    ASSUME TypeOK, WriterBases, [Next]_vars
    PROVE  WriterBases'
<1>1. ASSUME NEW t \in Writers, WriterStep(t)
      PROVE  WriterBases'
  <2>1. t \in Thread /\ t \notin Readers
    BY ThreadsAssumption DEF Thread
  <2>2. \A u \in Readers : pc'[u] \in {"ready", "get"}
    BY <1>1, <2>1, OthersStay DEF WriterBases, Thread
  <2>3. ASSUME NEW u \in Writers
        PROVE  StoresNew(u)' /\ BasesStored(u)'
    BY <1>1, <2>1, StepWriter, OthersGood DEF WriterBases, Thread
  <2>4. QED
    BY <2>2, <2>3 DEF WriterBases
<1>2. ASSUME NEW t \in Readers, ReaderStep(t)
      PROVE  WriterBases'
  <2>1. t \in Thread /\ t \notin Writers
    BY ThreadsAssumption DEF Thread
  <2>2. pc'[t] \in {"ready", "get"}
    BY <1>2, <2>1, ReadsChangeNothing
       DEF ReaderStep, StartGet, FinishGet, WriterBases, TypeOK
  <2>3. \A u \in Readers : pc'[u] \in {"ready", "get"}
    BY <1>2, <2>1, <2>2, OthersStay DEF WriterBases, Thread
  <2>4. ASSUME NEW u \in Writers
        PROVE  StoresNew(u)' /\ BasesStored(u)'
    BY <1>2, <2>1, OthersGood DEF WriterBases, Thread
  <2>5. QED
    BY <2>3, <2>4 DEF WriterBases
<1>3. CASE Reopen
  BY <1>3 DEF Reopen, WriterBases, StoresNew, BasesStored, Storing, Thread
<1>4. CASE UNCHANGED vars
  BY <1>4 DEF vars, thread_vars, disk_vars, WriterBases, StoresNew, BasesStored,
              Storing, OverPlaceholder, Located, Placeholder
<1>5. QED
  BY <1>1, <1>2, <1>3, <1>4 DEF Next

-----------------------------------------------------------------------------
(* Following bases ends.                                                    *)

LEMMA EntryPlaces ==
    ASSUME NEW e
    PROVE  e \in Entries <=> \/ \E p \in PackId : e \in disk[p]
                             \/ e \in pending
                             \/ \E t \in Thread : e \in batch[t]
                             \/ \E t \in Writers : pc[t] = "append" /\ e = item[t]
<1> DEFINE A == UNION {disk[p] : p \in PackId}
           B == UNION {batch[t] : t \in Thread}
           C == {item[t] : t \in {u \in Writers : pc[u] = "append"}}
<1>1. e \in A <=> \E p \in PackId : e \in disk[p]
  OBVIOUS
<1>2. e \in B <=> \E t \in Thread : e \in batch[t]
  OBVIOUS
<1>3. e \in C <=> \E t \in Writers : pc[t] = "append" /\ e = item[t]
  OBVIOUS
<1>4. Entries = ((A \cup pending) \cup B) \cup C
  BY DEF Entries
<1> HIDE DEF A, B, C
<1>5. e \in Entries <=> e \in A \/ e \in pending \/ e \in B \/ e \in C
  BY <1>4
<1>6. QED
  BY <1>1, <1>2, <1>3, <1>5

LEMMA EntryPlacesNext ==
    ASSUME NEW e
    PROVE  e \in Entries' <=> \/ \E p \in PackId : e \in disk'[p]
                              \/ e \in pending'
                              \/ \E t \in Thread : e \in batch'[t]
                              \/ \E t \in Writers : pc'[t] = "append" /\ e = item'[t]
<1> DEFINE A == UNION {disk'[p] : p \in PackId}
           B == UNION {batch'[t] : t \in Thread}
           C == {item'[t] : t \in {u \in Writers : pc'[u] = "append"}}
<1>1. e \in A <=> \E p \in PackId : e \in disk'[p]
  OBVIOUS
<1>2. e \in B <=> \E t \in Thread : e \in batch'[t]
  OBVIOUS
<1>3. e \in C <=> \E t \in Writers : pc'[t] = "append" /\ e = item'[t]
  OBVIOUS
<1>4. Entries' = ((A \cup pending') \cup B) \cup C
  BY DEF Entries
<1> HIDE DEF A, B, C
<1>5. e \in Entries' <=> e \in A \/ e \in pending' \/ e \in B \/ e \in C
  BY <1>4
<1>6. QED
  BY <1>1, <1>2, <1>3, <1>5

(* Within a session the only new entry is that of a put whose chunk the     *)
(* index does not know; all others were there, with the same base.          *)
LEMMA EntriesFrom ==
    ASSUME TypeOK, NEW t \in Thread, NEW e \in Entries',
           (t \in Writers /\ WriterStep(t)) \/ (t \in Readers /\ ReaderStep(t))
    PROVE  \/ \E f \in Entries : e.hash = f.hash /\ e.base = f.base
           \/ Lookup(t) /\ e = item[t] /\ ~IndexHas(item[t].hash) /\ t \in Writers
<1>0. WriterStep(t) \/ ReaderStep(t)
  OBVIOUS
<1> USE DEF disk_vars, ghost_vars
<1> DEFINE Old == \E f \in Entries : e.hash = f.hash /\ e.base = f.base
<1>1. ASSUME NEW p \in PackId, e \in disk'[p]
      PROVE  Old
  <2>1. CASE WritePack(t)
    <3>1. e \in disk[p] \/ e \in batch[t]
      BY <1>1, <2>1 DEF WritePack, TypeOK
    <3>2. QED
      BY <3>1, EntryPlaces
  <2>2. CASE ~WritePack(t)
    <3>1. UNCHANGED disk
      BY <2>2 DEF WriterStep, ReaderStep, Skip, StartStore, StartNearDup, EncodeDelta,
              Lookup, AppendPending, Drain, DrainAs, Flush, WriteFails, Install,
              InsertIndex, PutSignature, Get, GetPending, GetStored, GetResume,
              StartGet, FinishGet
    <3>2. QED
      BY <1>1, <3>1, EntryPlaces
  <2>3. QED
    BY <2>1, <2>2
<1>2. ASSUME AppendPending(t), t \in Writers, e \in pending \cup {item[t]}
      PROVE  Old
  BY <1>2, EntryPlaces DEF AppendPending
<1>3. ASSUME AppendPending(t), t \in Writers, e \in pending' \/ e \in batch'[t]
      PROVE  Old
  <2>1. e \in pending \cup {item[t]} \/ e \in batch[t]
    BY <1>3 DEF AppendPending, Drain, DrainAs, TypeOK
  <2>2. QED
    BY <1>2, <1>3, <2>1, EntryPlaces
<1>4. ASSUME Flush(t), e \in pending' \/ e \in batch'[t]
      PROVE  Old
  <2>1. e \in pending \/ e \in batch[t]
    BY <1>4 DEF Flush, Drain, DrainAs, TypeOK
  <2>2. QED
    BY <2>1, EntryPlaces
<1>5. ASSUME PutSignature(t), e \in pending'
      PROVE  Old
  BY <1>5, SignedFrom, EntryPlaces
<1>6. ASSUME e \in pending' \/ e \in batch'[t]
      PROVE  Old
  <2>1. CASE AppendPending(t) /\ t \in Writers
    BY <1>3, <1>6, <2>1
  <2>2. CASE Flush(t)
    BY <1>4, <1>6, <2>2
  <2>3. CASE PutSignature(t)
    <3>1. UNCHANGED batch
      BY <2>3 DEF PutSignature
    <3>2. QED
      BY <1>5, <1>6, <2>3, <3>1, EntryPlaces
  <2>4. CASE UNCHANGED pending /\ (UNCHANGED batch \/ batch'[t] = {})
    BY <1>6, <2>4, EntryPlaces
  <2>5. WriteFails(t) \/ Install(t) => UNCHANGED pending /\ batch'[t] = {}
    BY DEF WriteFails, Install, TypeOK
  <2>6. ReaderStep(t) => UNCHANGED <<pending, batch>>
    BY ReadsChangeNothing DEF ReaderStep, StartGet, FinishGet
  <2>7. QED
    <3>1. CASE ReaderStep(t)
      BY <2>4, <2>6, <3>1
    <3>2. CASE WriterStep(t) /\ t \in Writers
      BY <2>1, <2>2, <2>3, <2>4, <2>5, <3>2
         DEF WriterStep, Skip, StartStore, StartNearDup, EncodeDelta, Lookup, WritePack,
             InsertIndex, Get, GetPending, GetStored, GetResume
    <3>3. QED
      BY <3>1, <3>2
<1>7. ASSUME NEW u \in Thread, e \in batch'[u]
      PROVE  Old
  <2>1. CASE u = t
    BY <1>6, <1>7, <2>1
  <2>2. CASE u # t
    BY <1>7, <2>2, OthersStay, EntryPlaces
  <2>3. QED
    BY <2>1, <2>2
<1>8. ASSUME NEW u \in Writers, pc'[u] = "append", e = item'[u]
      PROVE  \/ Old
             \/ Lookup(t) /\ e = item[t] /\ ~IndexHas(item[t].hash) /\ t \in Writers
  <2>1. CASE u # t
    BY <1>8, <2>1, OthersStay, EntryPlaces DEF Thread
  <2>2. CASE u = t /\ pc[t] = "append" /\ item'[t] = item[t]
    BY <1>8, <2>2, EntryPlaces
  <2>3. CASE u = t /\ Lookup(t)
    BY <1>8, <2>3 DEF Lookup, TypeOK
  <2>4. CASE u = t /\ ~Lookup(t)
    <3>1. pc[t] = "append" /\ item'[t] = item[t]
      BY <1>8, <2>4 DEF WriterStep, ReaderStep, Skip, StartStore, StartNearDup,
              EncodeDelta, AppendPending, Drain, DrainAs, Flush, FlushReturns, WritePack,
              WriteFails, Install, InsertIndex, PutSignature, Get, GetPending, GetStored,
              GetResume, StartGet, FinishGet, TypeOK
    <3>2. QED
      BY <2>2, <2>4, <3>1
  <2>5. QED
    BY <2>1, <2>3, <2>4
<1>9. QED
  BY <1>1, <1>6, <1>7, <1>8, EntryPlacesNext

LEMMA DeltaAcyclic ==
    ASSUME DeltaInv
    PROVE  Acyclic(Entries)
<1> SUFFICES ASSUME NEW S \in SUBSET Chunk \ {{}}, ~HasEnd(S, Entries)
             PROVE  FALSE
  BY DEF Acyclic
<1>1. \A c \in S : \E e \in Entries : e.hash = c /\ e.base \in S
  BY DEF HasEnd
<1> DEFINE T == S \cap Placeholder
<1>2. \A c \in S \ Located : \E e \in Entries : e.hash = c /\ e.base \in T
  <2> SUFFICES ASSUME NEW c \in S \ Located
               PROVE  \E e \in Entries : e.hash = c /\ e.base \in T
    OBVIOUS
  <2>1. PICK e \in Entries : e.hash = c /\ e.base \in S
    BY <1>1
  <2>2. OverPlaceholder(e)
    BY <2>1 DEF DeltaInv
  <2>3. e.base # NoBase
    BY <2>1, NamesAssumption
  <2>4. QED
    BY <2>1, <2>2, <2>3 DEF OverPlaceholder
<1>3. CASE S \subseteq Located
  BY <1>3 DEF DeltaInv
<1>4. CASE ~(S \subseteq Located)
  <2>1. T # {}
    BY <1>2, <1>4
  <2>2. T \in SUBSET Placeholder \ {{}}
    BY <2>1
  <2>3. HasEnd(T, Entries)
    BY <2>2 DEF DeltaInv
  <2>4. PICK d \in T : \A e \in Entries : e.hash = d => e.base \notin T
    BY <2>3 DEF HasEnd
  <2>5. d \in S \ Located
    BY <2>4 DEF Placeholder, Located
  <2>6. QED
    BY <1>2, <2>4, <2>5
<1>5. QED
  BY <1>3, <1>4

LEMMA AcyclicSubset ==
    ASSUME NEW entries, NEW part, part \subseteq entries, Acyclic(entries)
    PROVE  Acyclic(part)
BY DEF Acyclic, HasEnd

(* A store opened on acyclic packs: all it holds is located.                *)
LEMMA OpenedAcyclic ==
    ASSUME TypeOK', Acyclic(UNION {disk'[p] : p \in PackId}),
           index' = IndexOf(disk'), pending' = {},
           \A t \in Thread : pc'[t] = "ready" /\ batch'[t] = {} /\ bases'[t] = {}
    PROVE  DeltaInv'
<1> DEFINE Files == UNION {disk'[p] : p \in PackId}
<1>1. \A e : e \in Entries' <=> \E p \in PackId : e \in disk'[p]
  BY EntryPlacesNext DEF Thread
<1>2. Entries' = Files
  BY <1>1
<1>3. Placeholder' = {} /\ Located' = {c \in Chunk : \E p \in PackId : c \in Hashes(disk'[p])}
  BY DEF Placeholder, Located, IndexOf
<1>4. \A e \in Entries' : e.hash \in Located'
  <2> SUFFICES ASSUME NEW p \in PackId, NEW e \in disk'[p]
               PROVE  e.hash \in Located'
    BY <1>1
  <2>1. e.hash \in Chunk
    BY DEF TypeOK, Entry
  <2>2. QED
    BY <2>1, <1>3 DEF Hashes
<1>5. Located' \subseteq Chunk
  BY <1>3
<1>6. \A S \in SUBSET Located' \ {{}} : HasEnd(S, Files)
  BY <1>5 DEF Acyclic
<1>7. WriterBases'
  BY DEF WriterBases, StoresNew, BasesStored, Storing, Thread
<1> HIDE DEF Files
<1>8. \A S \in SUBSET Located' \ {{}} : HasEnd(S, Entries)'
  BY <1>2, <1>6 DEF HasEnd
<1>9. QED
  BY <1>3, <1>4, <1>7, <1>8 DEF DeltaInv

LEMMA StepDelta ==
    ASSUME DeltaInv, [Next]_vars
    PROVE  DeltaInv'
<1>0. TypeOK /\ TypeOK' /\ WriterBases /\ WriterBases'
  BY StepType, StepBases DEF DeltaInv
<1>1. ASSUME NEW t \in Thread,
             (t \in Writers /\ WriterStep(t)) \/ (t \in Readers /\ ReaderStep(t))
      PROVE  DeltaInv'
  <2>0. /\ Located' = Located
        /\ Placeholder \subseteq Placeholder'
        /\ ~InsertIndex(t) => Placeholder' = Placeholder
        /\ Located \cap Placeholder = {} /\ Located \subseteq Chunk
        /\ Placeholder' \subseteq Chunk
    <3>1. Located \cap Placeholder = {} /\ Located \subseteq Chunk
          /\ Placeholder' \subseteq Chunk
      BY DEF Located, Placeholder
    <3>2. QED
      BY <1>0, <1>1, <3>1, SessionIndex
  <2>1. ASSUME NEW e \in Entries'
        PROVE  \/ \E f \in Entries : e.hash = f.hash /\ e.base = f.base
               \/ /\ Lookup(t) /\ e = item[t] /\ e.hash \notin Located \cup Placeholder
                  /\ OverPlaceholder(e)
    <3>1. CASE Lookup(t) /\ e = item[t] /\ ~IndexHas(item[t].hash) /\ t \in Writers
      <4>1. item[t] \in Entry /\ Storing(t)
        BY <1>0, <3>1, NamesAssumption DEF Lookup, TypeOK, Storing, Thread
      <4>2. OverPlaceholder(e)
        BY <1>0, <3>1, <4>1 DEF WriterBases, StoresNew
      <4>3. e.hash \notin Located \cup Placeholder
        BY <3>1 DEF IndexHas, Located, Placeholder
      <4>4. QED
        BY <3>1, <4>2, <4>3
    <3>2. QED
      BY <1>0, <1>1, <3>1, EntriesFrom
  <2>2. ASSUME NEW e \in Entries'
        PROVE  e.hash \in Located' \/ OverPlaceholder(e)'
    BY <2>0, <2>1 DEF DeltaInv, OverPlaceholder
  <2>3. ASSUME NEW S, NEW c \in S, c \in Located \cup Placeholder,
               \A f \in Entries : f.hash = c => f.base \notin S
        PROVE  HasEnd(S, Entries)'
    <3>1. \A e \in Entries' : e.hash = c => e.base \notin S
      BY <2>1, <2>3
    <3>2. QED
      BY <3>1 DEF HasEnd
  <2>4. ASSUME NEW S \in SUBSET Located' \ {{}}
        PROVE  HasEnd(S, Entries)'
    BY <2>0, <2>3, <2>4 DEF DeltaInv, HasEnd
  <2>5. ASSUME NEW S \in SUBSET Placeholder \ {{}}
        PROVE  HasEnd(S, Entries)'
    BY <2>3, <2>5 DEF DeltaInv, HasEnd
  <2>6. ASSUME NEW S \in SUBSET Placeholder' \ {{}}
        PROVE  HasEnd(S, Entries)'
    <3>1. CASE S \subseteq Placeholder
      BY <2>5, <3>1
    <3>2. CASE ~(S \subseteq Placeholder)
      <4>1. InsertIndex(t) /\ ~Lookup(t)
        BY <2>0, <3>2 DEF InsertIndex, Lookup
      <4> DEFINE c == item[t].hash
                 T == S \ {c}
      <4>2. Placeholder' \subseteq Placeholder \cup {c}
        BY <1>0, <4>1 DEF InsertIndex, Placeholder, TypeOK
      <4>3. c \in S /\ c \notin Placeholder /\ T \subseteq Placeholder
        BY <2>6, <3>2, <4>2
      <4>4. c \notin Located
        BY <2>0, <2>6, <4>3 DEF Located, Placeholder
      <4>5. NoBase \notin S
        BY <2>0, <2>6, NamesAssumption
      <4>6. ASSUME NEW f \in Entries, f.hash \notin Located
            PROVE  f.base # c
        BY <4>3, <4>5, <4>6 DEF DeltaInv, OverPlaceholder
      <4>7. CASE T = {}
        <5>1. \A e \in Entries' : e.hash = c => e.base \notin S
          BY <2>1, <4>1, <4>3, <4>4, <4>6, <4>7
        <5>2. QED
          BY <4>3, <5>1 DEF HasEnd
      <4>8. CASE T # {}
        <5>1. PICK d \in T : \A e \in Entries : e.hash = d => e.base \notin T
          BY <4>3, <4>8 DEF DeltaInv, HasEnd
        <5>2. d \in S /\ d \notin Located
          BY <2>0, <4>3, <5>1
        <5>3. \A e \in Entries' : e.hash = d => e.base \notin S
          BY <2>1, <4>1, <4>6, <5>1, <5>2
        <5>4. QED
          BY <5>2, <5>3 DEF HasEnd
      <4>9. QED
        BY <4>7, <4>8
    <3>3. QED
      BY <3>1, <3>2
  <2>7. QED
    BY <1>0, <2>2, <2>4, <2>6 DEF DeltaInv
<1>2. CASE Reopen
  <2>1. Acyclic(UNION {disk[p] : p \in PackId})
    <3>1. UNION {disk[p] : p \in PackId} \subseteq Entries
      BY DEF Entries
    <3>2. QED
      BY <3>1, DeltaAcyclic, AcyclicSubset
  <2>2. disk' = disk
    BY <1>2 DEF Reopen
  <2>3. Acyclic(UNION {disk'[p] : p \in PackId})
    BY <2>1, <2>2
  <2>4. QED
    BY <1>0, <1>2, <2>2, <2>3, OpenedAcyclic DEF Reopen
<1>3. CASE UNCHANGED vars
  <2>1. Entries' = Entries /\ Located' = Located /\ Placeholder' = Placeholder
    BY <1>3 DEF vars, disk_vars, thread_vars, Entries, Located, Placeholder
  <2>2. QED
    BY <1>0, <2>1 DEF DeltaInv, HasEnd, OverPlaceholder
<1>4. QED
  BY <1>1, <1>2, <1>3 DEF Next, Thread

LEMMA InitDelta == ASSUME PacksAcyclic, Init PROVE DeltaInv
<1>1. TypeOK
  BY InitType
<1>2. \A e : e \in Entries <=> \E p \in PackId : e \in InitDisk[p]
  BY EntryPlaces DEF Init, Thread
<1>3. Entries = UNION {InitDisk[p] : p \in PackId}
  BY <1>2
<1>4. Acyclic(Entries)
  BY <1>3 DEF PacksAcyclic
<1>5. Placeholder = {} /\ Located = {c \in Chunk : \E p \in PackId : c \in Hashes(InitDisk[p])}
  BY DEF Init, Placeholder, Located, IndexOf
<1>6. \A e \in Entries : e.hash \in Located
  <2> SUFFICES ASSUME NEW p \in PackId, NEW e \in InitDisk[p]
               PROVE  e.hash \in Located
    BY <1>2
  <2>1. e.hash \in Chunk
    BY DiskAssumption DEF Entry
  <2>2. QED
    BY <2>1, <1>5 DEF Hashes
<1>7. WriterBases
  BY DEF Init, WriterBases, StoresNew, BasesStored, Storing, Thread
<1>8. QED
  BY <1>1, <1>4, <1>5, <1>6, <1>7 DEF DeltaInv, Acyclic

(* Following the bases of stored deltas ends, for any number of backups at  *)
(* once, with failing writes, restarts, a similarity index that evicts, and *)
(* even where a pack file is overwritten.                                   *)
THEOREM NoDeltaCycleHolds ==
    ASSUME PacksAcyclic
    PROVE  Spec => []NoDeltaCycle
<1>1. Init => DeltaInv
  BY InitDelta
<1>2. DeltaInv /\ [Next]_vars => DeltaInv'
  BY StepDelta
<1>3. DeltaInv => NoDeltaCycle
  <2> SUFFICES ASSUME DeltaInv
               PROVE  NoDeltaCycle
    OBVIOUS
  <2>1. (UNION {disk[p] : p \in PackId}) \cup pending \subseteq Entries
    BY DEF Entries
  <2>2. Acyclic((UNION {disk[p] : p \in PackId}) \cup pending)
    BY <2>1, DeltaAcyclic, AcyclicSubset
  <2>3. QED
    BY <2>2 DEF NoDeltaCycle, Acyclic, HasEnd
<1>4. QED
  BY <1>1, <1>2, <1>3, PTL DEF Spec

-----------------------------------------------------------------------------
(* One writer and no failed write: chunks are stored once, with their bases. *)

(* What is in flight is the batch the writer writes.                        *)
LEMMA WriterInFlight ==
    ASSUME SingleWriter, WriterBases, NEW t \in Writers
    PROVE  InFlight = IF pc[t] = "write" THEN Hashes(batch[t]) ELSE {}
<1>1. \A u \in Thread : pc[u] = "write" => u = t
  BY DEF SingleWriter, WriterBases, Thread
<1>2. t \in Thread
  BY DEF Thread
<1>3. \A c : c \in InFlight <=> \E u \in Thread : pc[u] = "write" /\ c \in Hashes(batch[u])
  BY DEF InFlight
<1>4. QED
  BY <1>1, <1>2, <1>3

LEMMA WriterInFlightNext ==
    ASSUME SingleWriter, WriterBases', NEW t \in Writers
    PROVE  InFlight' = IF pc'[t] = "write" THEN Hashes(batch'[t]) ELSE {}
<1>1. \A u \in Thread : pc'[u] = "write" => u = t
  BY DEF SingleWriter, WriterBases, Thread
<1>2. t \in Thread
  BY DEF Thread
<1>3. \A c : c \in InFlight' <=> \E u \in Thread : pc'[u] = "write" /\ c \in Hashes(batch'[u])
  BY DEF InFlight, Hashes
<1>4. QED
  BY <1>1, <1>2, <1>3

LEMMA OnDiskMember ==
    /\ \A c : c \in OnDisk <=> \E p \in PackId : c \in Hashes(disk[p])
    /\ \A c : c \in OnDisk' <=> \E p \in PackId : c \in Hashes(disk'[p])
BY DEF OnDisk, Hashes

(* Signing entries changes neither their chunks nor their bases.            *)
LEMMA SignedHashes ==
    ASSUME NEW t \in Thread, PutSignature(t)
    PROVE  Hashes(pending') = Hashes(pending)
<1> DEFINE mine == {f \in pending : f.hash = item[t].hash}
<1>1. Hashes(pending') \subseteq Hashes(pending)
  BY SignedFrom DEF Hashes
<1>2. ASSUME NEW f \in pending
      PROVE  f.hash \in Hashes(pending')
  <2>1. pending' = (pending \ mine) \cup {Signed(e) : e \in mine}
    BY DEF PutSignature
  <2>2. CASE f \in mine
    <3>1. Signed(f) \in pending' /\ Signed(f).hash = f.hash
      BY <2>1, <2>2 DEF Signed
    <3>2. QED
      BY <3>1 DEF Hashes
  <2>3. CASE f \notin mine
    BY <2>1, <2>3 DEF Hashes
  <2>4. QED
    BY <2>2, <2>3
<1>3. QED
  BY <1>1, <1>2 DEF Hashes

(* The steps that move no entry.                                            *)
LEMMA QuietSingle ==
    ASSUME SingleInv, UNCHANGED <<disk, pending>>,
           InFlight = {}, InFlight' = {},
           \A t \in Writers : pc'[t] # "write" /\ (pc'[t] = "append" => ~IndexHas(item[t].hash)')
    PROVE  /\ \A t \in Writers : pc'[t] = "append" => ~IndexHas(item[t].hash)'
           /\ Apart' /\ BasesNear'
<1>1. OnDisk' = OnDisk /\ Hashes(pending)' = Hashes(pending) /\ \A c : InPacks(c)' = InPacks(c)
  BY DEF OnDisk, Hashes, InPacks
<1>2. Apart'
  BY <1>1 DEF SingleInv, Apart
<1>3. BasesNear'
  BY <1>1 DEF SingleInv, BasesNear, HasBase, DeltaBaseStored
<1>4. QED
  BY <1>2, <1>3

(* The base of an entry a writer is about to store is pending or on disk.   *)
LEMMA ItemBase ==
    ASSUME SingleInv, SingleWriter, NEW t \in Writers, pc[t] = "append"
    PROVE  /\ item[t] \in Entry
           /\ HasBase(item[t], Hashes(pending) \cup OnDisk)
           /\ item[t].hash \notin Hashes(pending) \cup OnDisk
<1>1. item[t] \in Entry /\ Storing(t)
  BY NamesAssumption
     DEF SingleInv, BackupInv, IndexInv, PackInv, TypeOK, Thread, Storing
<1>2. InFlight = {}
  BY WriterInFlight DEF SingleInv
<1>3. ASSUME item[t].base # NoBase
      PROVE  item[t].base \in Hashes(pending) \cup OnDisk
  <2>1. item[t].base \in Placeholder
    BY <1>1, <1>3 DEF SingleInv, WriterBases, StoresNew, OverPlaceholder
  <2>2. item[t].base \in Chunk /\ IndexHas(item[t].base)
    BY <2>1 DEF Placeholder, IndexHas
  <2>3. QED
    BY <1>2, <2>2 DEF SingleInv, BackupInv, IndexInv, IndexedIsStored
<1>4. \A c \in Hashes(pending) \cup OnDisk : IndexHas(c)
  <2>1. \A c : \A u \in Writers : ~AboutToIndex(u, c)
    BY DEF AboutToIndex, SingleWriter
  <2>2. QED
    BY <2>1 DEF SingleInv, StoredIsIndexed
<1>5. QED
  BY <1>1, <1>3, <1>4 DEF HasBase, SingleInv

LEMMA StepSingleWriter ==
    ASSUME SingleInv, SingleWriter, ~WriteCanFail, NEW t \in Writers, WriterStep(t),
           TypeOK', WriterBases'
    PROVE  /\ \A u \in Writers : pc'[u] = "append" => ~IndexHas(item[u].hash)'
           /\ StoredIsIndexed' /\ Apart' /\ BasesNear'
<1> USE DEF disk_vars, ghost_vars
<1> DEFINE Goal == /\ \A u \in Writers : pc'[u] = "append" => ~IndexHas(item[u].hash)'
                   /\ StoredIsIndexed' /\ Apart' /\ BasesNear'
<1>0. t \in Thread /\ TypeOK /\ \A u \in Writers : u = t
  BY DEF SingleInv, BackupInv, IndexInv, PackInv, Thread, SingleWriter
<1>1. /\ InFlight = IF pc[t] = "write" THEN Hashes(batch[t]) ELSE {}
      /\ InFlight' = IF pc'[t] = "write" THEN Hashes(batch'[t]) ELSE {}
  BY WriterInFlight, WriterInFlightNext DEF SingleInv
<1>2. \A c \in Hashes(pending) \cup InFlight \cup OnDisk :
          IndexHas(c) \/ AboutToIndex(t, c)
  BY <1>0 DEF SingleInv, StoredIsIndexed
<1>3. ASSUME \A c \in Hashes(pending') \cup InFlight' \cup OnDisk' :
                 IndexHas(c)' \/ AboutToIndex(t, c)'
      PROVE  StoredIsIndexed'
  <2>1. Hashes(pending)' = Hashes(pending')
    BY DEF Hashes
  <2>2. QED
    BY <1>3, <2>1 DEF StoredIsIndexed
<1>4. ASSUME pc[t] \in {"ready", "get", "lookup", "sign"}, UNCHANGED <<disk, pending, index>>,
             pc'[t] \in {"ready", "get", "lookup", "sign", "append", "insert"},
             pc'[t] = "append" => ~IndexHas(item[t].hash)'
      PROVE  Goal
  <2>1. InFlight = {} /\ InFlight' = {}
    BY <1>1, <1>4
  <2>2. /\ \A u \in Writers : pc'[u] = "append" => ~IndexHas(item[u].hash)'
        /\ Apart' /\ BasesNear'
    BY <1>0, <1>4, <2>1, QuietSingle
  <2>3. OnDisk' = OnDisk
    BY <1>4 DEF OnDisk
  <2>4. StoredIsIndexed'
    BY <1>2, <1>3, <1>4, <2>1, <2>3 DEF AboutToIndex, IndexHas
  <2>5. QED
    BY <2>2, <2>4
<1>5. ASSUME \/ \E c \in Chunk : Skip(t, c) \/ StartStore(t, c)
             \/ \E c \in Chunk : \E b \in bases[t] : StartNearDup(t, c, b)
             \/ EncodeDelta(t) \/ Lookup(t) \/ Get(t)
             \/ Flush(t) /\ pending = {}
      PROVE  Goal
  <2>1. CASE Lookup(t)
    BY <1>0, <1>4, <2>1 DEF Lookup, TypeOK, IndexHas
  <2>2. CASE Get(t)
    BY <1>4, <2>2, ReadsChangeNothing DEF Get, GetPending, GetStored, GetResume
  <2>3. CASE ~Lookup(t) /\ ~Get(t)
    BY <1>0, <1>4, <1>5, <2>3 DEF Skip, StartStore, StartNearDup, EncodeDelta, Flush, TypeOK
  <2>4. QED
    BY <2>1, <2>2, <2>3
<1>6. ASSUME NEW entries, Drain(t, entries), UNCHANGED <<disk, index>>,
             pc[t] \in {"ready", "append"},
             Hashes(entries) \cap OnDisk = {},
             \A e \in entries : HasBase(e, Hashes(entries) \cup OnDisk),
             \A c \in Hashes(entries) \cup OnDisk : IndexHas(c) \/ AboutToIndex(t, c)'
      PROVE  Goal
  <2>1. pending' = {} /\ batch'[t] = entries /\ pc'[t] = "write"
    BY <1>0, <1>6 DEF Drain, DrainAs, TypeOK
  <2>2. Hashes(pending') = {} /\ InFlight' = Hashes(entries) /\ OnDisk' = OnDisk
    BY <1>1, <1>6, <2>1 DEF Hashes, OnDisk
  <2>3. StoredIsIndexed'
    BY <1>3, <1>6, <2>2 DEF IndexHas
  <2>4. Apart'
    <3>1. \A c : InPacks(c)' = InPacks(c)
      BY <1>6 DEF InPacks, Hashes
    <3>2. Hashes(pending)' = {}
      BY <2>1 DEF Hashes
    <3>3. QED
      BY <1>6, <2>2, <3>1, <3>2 DEF SingleInv, Apart
  <2>5. BasesNear'
    <3>1. DeltaBaseStored'
      BY <1>6, <2>2 DEF SingleInv, BasesNear, DeltaBaseStored
    <3>2. \A u \in Writers : \A e \in batch'[u] : HasBase(e, Hashes(batch'[u]) \cup OnDisk')
      BY <1>0, <1>6, <2>1, <2>2
    <3>3. QED
      BY <2>1, <3>1, <3>2 DEF BasesNear, HasBase, Hashes
  <2>6. QED
    BY <1>0, <2>1, <2>3, <2>4, <2>5
<1>7. ASSUME Flush(t), pending # {}
      PROVE  Goal
  <2>1. Drain(t, pending) /\ pc[t] = "ready" /\ UNCHANGED <<disk, index>>
    BY <1>7 DEF Flush
  <2>2. InFlight = {}
    BY <1>1, <2>1
  <2>3. \A c \in Hashes(pending) \cup OnDisk : IndexHas(c)
    BY <1>2, <2>1 DEF AboutToIndex
  <2>4. Hashes(pending) \cap OnDisk = {}
    BY DEF SingleInv, Apart
  <2>5. \A e \in pending : HasBase(e, Hashes(pending) \cup OnDisk)
    BY DEF SingleInv, BasesNear
  <2>6. QED
    BY <1>6, <2>1, <2>3, <2>4, <2>5
<1>8. ASSUME AppendPending(t)
      PROVE  Goal
  <2> DEFINE filled == pending \cup {item[t]}
  <2>1. /\ pc[t] = "append" /\ UNCHANGED <<disk, index>>
        /\ item'[t] = item[t] /\ item[t] # NoEntry
    BY <1>0, <1>8, NamesAssumption DEF AppendPending, TypeOK
  <2>2. /\ HasBase(item[t], Hashes(pending) \cup OnDisk)
        /\ item[t].hash \notin Hashes(pending) \cup OnDisk
    BY <2>1, ItemBase
  <2>3. Hashes(filled) = Hashes(pending) \cup {item[t].hash}
    BY DEF Hashes
  <2>4. Hashes(filled) \cap OnDisk = {}
    BY <2>2, <2>3 DEF SingleInv, Apart
  <2>5. \A e \in filled : HasBase(e, Hashes(filled) \cup OnDisk)
    BY <2>2, <2>3 DEF SingleInv, BasesNear, HasBase
  <2>6. \A c \in Hashes(pending) \cup OnDisk : IndexHas(c)
    BY <1>2, <2>1 DEF AboutToIndex
  <2>7. CASE Drain(t, filled)
    <3>1. pc'[t] = "write"
      BY <1>0, <2>7 DEF Drain, DrainAs, TypeOK
    <3>2. AboutToIndex(t, item[t].hash)'
      BY <2>1, <3>1 DEF AboutToIndex
    <3>3. \A c \in Hashes(filled) \cup OnDisk : IndexHas(c) \/ AboutToIndex(t, c)'
      BY <2>3, <2>6, <3>2, <2>1 DEF AboutToIndex
    <3>4. QED
      BY <1>6, <2>1, <2>4, <2>5, <2>7, <3>3
  <2>8. CASE pending' = filled /\ pc'[t] = "insert"
    <3>1. InFlight' = {} /\ OnDisk' = OnDisk /\ Hashes(pending)' = Hashes(filled)
      BY <1>1, <2>1, <2>8 DEF OnDisk, Hashes
    <3>2. AboutToIndex(t, item[t].hash)'
      BY <2>1, <2>8 DEF AboutToIndex
    <3>3. Hashes(pending') = Hashes(filled)
      BY <2>8
    <3>4. \A c \in Hashes(filled) \cup OnDisk : IndexHas(c)' \/ AboutToIndex(t, c)'
      BY <2>1, <2>3, <2>6, <3>2 DEF AboutToIndex, IndexHas
    <3>5. StoredIsIndexed'
      BY <1>3, <3>1, <3>3, <3>4
    <3>6. Apart'
      <4>1. \A c : InPacks(c)' = InPacks(c)
        BY <2>1 DEF InPacks, Hashes
      <4>2. QED
        BY <2>4, <3>1, <4>1 DEF SingleInv, Apart
    <3>7. BasesNear'
      <4>1. DeltaBaseStored'
        BY <2>1, <3>1 DEF SingleInv, BasesNear, DeltaBaseStored
      <4>2. \A u \in Writers : pc'[u] # "write"
        BY <1>0, <2>8
      <4>3. QED
        BY <2>5, <2>8, <3>1, <4>1, <4>2 DEF BasesNear, HasBase
    <3>8. QED
      BY <1>0, <2>8, <3>5, <3>6, <3>7
  <2>9. QED
    BY <1>0, <1>8, <2>2, <2>7, <2>8 DEF AppendPending, InPending, TypeOK
<1>9. ASSUME WritePack(t)
      PROVE  Goal
  <2>1. /\ pc[t] = "write" /\ pc'[t] = "install" /\ UNCHANGED <<pending, index>>
        /\ item'[t] = item[t] /\ batchId[t] \in PackId
        /\ disk'[batchId[t]] = batch[t]
        /\ \A p \in PackId \ {batchId[t]} : disk'[p] = disk[p]
    BY <1>0, <1>9 DEF WritePack, TypeOK
  <2>2. disk[batchId[t]] = {}
    BY <1>0, <2>1 DEF SingleInv, BackupInv, IndexInv, PackInv, BatchIds
  <2>3. pending = {} /\ Hashes(pending') = {} /\ Hashes(pending)' = {}
    BY <2>1 DEF SingleInv, BackupInv, Writing, Hashes
  <2>4. InFlight = Hashes(batch[t]) /\ InFlight' = {}
    BY <1>1, <2>1
  <2>5. Hashes({}) = {}
    BY DEF Hashes
  <2>6. OnDisk' = OnDisk \cup Hashes(batch[t])
    <3>1. \A c : c \in OnDisk' <=> c \in OnDisk \/ c \in Hashes(batch[t])
      BY <2>1, <2>2, <2>5, OnDiskMember
    <3>2. QED
      BY <3>1
  <2>7. StoredIsIndexed'
    BY <1>2, <1>3, <2>1, <2>3, <2>4, <2>6 DEF AboutToIndex, IndexHas
  <2>8. Apart'
    <3>1. ASSUME NEW c \in Chunk, NEW p \in PackId, NEW q \in PackId,
                 c \in Hashes(disk'[p]), c \in Hashes(disk'[q])
          PROVE  p = q
      <4>1. CASE c \in Hashes(batch[t])
        <5>1. c \notin OnDisk
          BY <2>4, <4>1 DEF SingleInv, Apart
        <5>2. p = batchId[t] /\ q = batchId[t]
          BY <2>1, <3>1, <5>1, OnDiskMember
        <5>3. QED
          BY <5>2
      <4>2. CASE c \notin Hashes(batch[t])
        <5>1. c \in Hashes(disk[p]) /\ c \in Hashes(disk[q])
          BY <2>1, <3>1, <4>2
        <5>2. QED
          BY <5>1 DEF SingleInv, Apart, InPacks
      <4>3. QED
        BY <4>1, <4>2
    <3>2. \A c \in Chunk : \A p, q \in InPacks(c)' : p = q
      BY <3>1 DEF InPacks, Hashes
    <3>3. QED
      BY <2>3, <2>4, <3>2 DEF Apart
  <2>9. BasesNear'
    <3>1. ASSUME NEW p \in PackId, NEW e \in disk'[p], e.base # NoBase
          PROVE  e.base \in OnDisk'
      <4>1. CASE p = batchId[t]
        BY <2>1, <2>6, <3>1, <4>1 DEF SingleInv, BasesNear, HasBase
      <4>2. CASE p # batchId[t]
        BY <2>1, <2>6, <3>1, <4>2 DEF SingleInv, BasesNear, DeltaBaseStored
      <4>3. QED
        BY <4>1, <4>2
    <3>2. DeltaBaseStored'
      BY <3>1 DEF DeltaBaseStored
    <3>3. QED
      BY <1>0, <2>1, <2>3, <3>2 DEF BasesNear
  <2>10. QED
    BY <1>0, <2>1, <2>7, <2>8, <2>9
<1>10. ASSUME Install(t) \/ InsertIndex(t)
       PROVE  Goal
  <2>1. /\ UNCHANGED <<disk, pending>>
        /\ pc[t] \in {"install", "insert"} /\ pc'[t] \in {"ready", "insert", "sign"}
    BY <1>0, <1>10 DEF Install, InsertIndex, TypeOK
  <2>2. InFlight = {} /\ InFlight' = {} /\ OnDisk' = OnDisk
    BY <1>1, <2>1 DEF OnDisk
  <2>3. ASSUME NEW c, IndexHas(c) \/ AboutToIndex(t, c), c \in Chunk
        PROVE  IndexHas(c)' \/ AboutToIndex(t, c)'
    <3>1. CASE Install(t)
      BY <1>0, <2>3, <3>1 DEF Install, AboutToIndex, IndexHas, TypeOK
    <3>2. CASE InsertIndex(t)
      <4>1. index'[c] = IF c = item[t].hash /\ index[c] = "absent" THEN "placeholder"
                        ELSE index[c]
        BY <1>0, <2>3, <3>2 DEF InsertIndex, TypeOK
      <4>2. QED
        BY <2>3, <3>2, <4>1 DEF InsertIndex, AboutToIndex, IndexHas
    <3>3. QED
      BY <1>10, <3>1, <3>2
  <2>4. Hashes(pending) \cup OnDisk \subseteq Chunk
    BY <1>0 DEF TypeOK, Hashes, Entry, OnDisk
  <2>5. StoredIsIndexed'
    BY <1>2, <1>3, <2>1, <2>2, <2>3, <2>4
  <2>6. QED
    BY <1>0, <2>1, <2>2, <2>5, QuietSingle
<1>11. ASSUME PutSignature(t)
       PROVE  Goal
  <2>1. /\ UNCHANGED <<disk, index>> /\ pc[t] = "sign" /\ pc'[t] = "ready"
    BY <1>0, <1>11 DEF PutSignature, TypeOK
  <2>2. InFlight = {} /\ InFlight' = {} /\ OnDisk' = OnDisk
    BY <1>1, <2>1 DEF OnDisk
  <2>3. Hashes(pending') = Hashes(pending) /\ Hashes(pending)' = Hashes(pending)
    <3>1. Hashes(pending') = Hashes(pending)
      BY <1>0, <1>11, SignedHashes
    <3>2. QED
      BY <3>1 DEF Hashes
  <2>4. StoredIsIndexed'
    BY <1>2, <1>3, <2>1, <2>2, <2>3 DEF AboutToIndex, IndexHas
  <2>5. Apart'
    <3>1. \A c : InPacks(c)' = InPacks(c)
      BY <2>1 DEF InPacks, Hashes
    <3>2. QED
      BY <2>2, <2>3, <3>1 DEF SingleInv, Apart
  <2>6. BasesNear'
    <3>1. DeltaBaseStored'
      BY <2>1, <2>2 DEF SingleInv, BasesNear, DeltaBaseStored
    <3>2. \A e \in pending' : HasBase(e, Hashes(pending') \cup OnDisk')
      BY <1>0, <1>11, <2>2, <2>3, SignedFrom DEF SingleInv, BasesNear, HasBase
    <3>3. QED
      BY <1>0, <2>1, <3>1, <3>2, <2>3 DEF BasesNear, HasBase
  <2>7. QED
    BY <1>0, <2>1, <2>4, <2>5, <2>6
<1>12. QED
  BY <1>5, <1>7, <1>8, <1>9, <1>10, <1>11 DEF WriterStep, WriteFails

LEMMA StepSingle ==
    ASSUME OrderedNames, SingleWriter, ~WriteCanFail, SingleInv, [Next]_vars
    PROVE  SingleInv'
<1>0. TypeOK /\ TypeOK' /\ BackupInv' /\ WriterBases'
  <2>1. TypeOK
    BY DEF SingleInv, BackupInv, IndexInv, PackInv
  <2>2. QED
    BY <2>1, StepType, StepBases, StepBackup DEF SingleInv
<1>1. SUFFICES /\ \A u \in Writers : pc'[u] = "append" => ~IndexHas(item[u].hash)'
               /\ StoredIsIndexed' /\ Apart' /\ BasesNear'
  BY <1>0 DEF SingleInv
<1>2. ASSUME NEW t \in Writers, WriterStep(t)
      PROVE  /\ \A u \in Writers : pc'[u] = "append" => ~IndexHas(item[u].hash)'
             /\ StoredIsIndexed' /\ Apart' /\ BasesNear'
  BY <1>0, <1>2, StepSingleWriter
<1>3. ASSUME UNCHANGED <<disk, pending, index>>,
             \A u \in Writers : pc'[u] = pc[u] /\ item'[u] = item[u] /\ batch'[u] = batch[u],
             InFlight' = InFlight
      PROVE  /\ \A u \in Writers : pc'[u] = "append" => ~IndexHas(item[u].hash)'
             /\ StoredIsIndexed' /\ Apart' /\ BasesNear'
  <2>1. OnDisk' = OnDisk /\ Hashes(pending)' = Hashes(pending)
        /\ \A c : InPacks(c)' = InPacks(c)
    BY <1>3 DEF OnDisk, Hashes, InPacks
  <2>2. StoredIsIndexed'
    BY <1>3, <2>1 DEF SingleInv, StoredIsIndexed, AboutToIndex, IndexHas
  <2>3. Apart'
    BY <1>3, <2>1 DEF SingleInv, Apart
  <2>4. BasesNear'
    BY <1>3, <2>1 DEF SingleInv, BasesNear, DeltaBaseStored, HasBase, Hashes
  <2>5. QED
    BY <1>3, <2>2, <2>3, <2>4 DEF SingleInv, IndexHas
<1>4. ASSUME NEW t \in Readers, ReaderStep(t)
      PROVE  /\ \A u \in Writers : pc'[u] = "append" => ~IndexHas(item[u].hash)'
             /\ StoredIsIndexed' /\ Apart' /\ BasesNear'
  <2>1. t \in Thread /\ t \notin Writers
    BY ThreadsAssumption DEF Thread
  <2>2. UNCHANGED <<disk, pending, index, batch>>
    BY <1>4, <2>1, ReadsChangeNothing DEF ReaderStep, StartGet, FinishGet, disk_vars
  <2>3. \A u \in Writers : pc'[u] = pc[u] /\ item'[u] = item[u] /\ batch'[u] = batch[u]
    BY <1>0, <1>4, <2>1, OthersStay DEF Thread
  <2>4. InFlight' = InFlight
    <3>1. \A u \in Readers : pc[u] # "write" /\ pc'[u] # "write"
      BY <1>0 DEF SingleInv, WriterBases
    <3>2. \A u \in Thread : (pc'[u] = "write") <=> (pc[u] = "write")
      BY <2>3, <3>1 DEF Thread
    <3>3. {u \in Thread : pc'[u] = "write"} = {u \in Thread : pc[u] = "write"}
      BY <3>2
    <3>4. \A c : /\ c \in InFlight <=> \E u \in Thread : pc[u] = "write" /\ c \in Hashes(batch[u])
                 /\ c \in InFlight' <=> \E u \in Thread : pc'[u] = "write" /\ c \in Hashes(batch'[u])
      BY DEF InFlight, Hashes
    <3>5. QED
      BY <2>2, <3>2, <3>4
  <2>5. QED
    BY <1>3, <2>2, <2>3, <2>4
<1>5. CASE Reopen
  <2>1. /\ disk' = disk /\ pending' = {} /\ index' = IndexOf(disk)
        /\ \A u \in Thread : pc'[u] = "ready"
    BY <1>5 DEF Reopen
  <2>2. OnDisk' = OnDisk /\ Hashes(pending)' = {} /\ \A c : InPacks(c)' = InPacks(c)
    BY <2>1 DEF OnDisk, Hashes, InPacks
  <2>3. InFlight' = {}
    BY <2>1 DEF InFlight
  <2>4. \A c \in OnDisk : IndexHas(c)'
    <3>1. OnDisk \subseteq Chunk
      BY <1>0, OnDiskType
    <3>2. QED
      BY <2>1, <3>1, OnDiskMember DEF IndexHas, IndexOf
  <2>5. StoredIsIndexed'
    BY <2>2, <2>3, <2>4 DEF StoredIsIndexed
  <2>6. Apart'
    BY <2>2, <2>3 DEF SingleInv, Apart
  <2>7. BasesNear'
    BY <2>1, <2>2 DEF SingleInv, BasesNear, DeltaBaseStored, HasBase, Thread
  <2>8. QED
    BY <2>1, <2>5, <2>6, <2>7 DEF Thread
<1>6. CASE UNCHANGED vars
  <2>1. UNCHANGED <<disk, pending, index, pc, item, batch>>
    BY <1>6 DEF vars, disk_vars, thread_vars
  <2>2. InFlight' = InFlight
    BY <2>1 DEF InFlight, Hashes
  <2>3. QED
    BY <1>3, <2>1, <2>2
<1>7. QED
  BY <1>2, <1>4, <1>5, <1>6 DEF Next

LEMMA InitSingle ==
    ASSUME OrderedNames, PacksApart, PacksHaveBases, Init
    PROVE  SingleInv
<1>1. BackupInv
  BY InitBackup
<1>2. WriterBases
  BY DEF Init, WriterBases, StoresNew, BasesStored, Storing, Thread
<1>3. Hashes(pending) = {} /\ InFlight = {}
  BY DEF Init, Hashes, InFlight
<1>4. OnDisk \subseteq Chunk
  BY OnDiskType, InitType
<1>5. StoredIsIndexed
  BY <1>3, <1>4, OnDiskMember DEF Init, StoredIsIndexed, IndexHas, IndexOf
<1>6. Apart
  BY <1>3 DEF Init, PacksApart, Apart, InPacks
<1>7. BasesNear
  <2>1. DeltaBaseStored
    BY OnDiskMember DEF Init, PacksHaveBases, DeltaBaseStored
  <2>2. QED
    BY <2>1 DEF Init, BasesNear, Thread
<1>8. QED
  BY <1>1, <1>2, <1>5, <1>6, <1>7 DEF SingleInv, Init, Thread

(* With one backup at a time and no failed write, every chunk is pending,   *)
(* being written or in one pack, and never in two places: put finds what it *)
(* stored before, wherever it is on its way to the disk, across restarts.   *)
THEOREM StoredOnceHolds ==
    ASSUME OrderedNames, SingleWriter, ~WriteCanFail, PacksApart, PacksHaveBases
    PROVE  Spec => []StoredOnce
<1>1. Init => SingleInv
  BY InitSingle
<1>2. SingleInv /\ [Next]_vars => SingleInv'
  BY StepSingle
<1>3. SingleInv => StoredOnce
  <2> SUFFICES ASSUME SingleInv, NEW c \in Chunk
               PROVE  /\ Cardinality(InPacks(c)) <= 1
                      /\ c \in Hashes(pending) => InPacks(c) = {} /\ c \notin InFlight
                      /\ c \in InFlight => InPacks(c) = {}
    BY DEF StoredOnce, InPacks
  <2>1. Cardinality(InPacks(c)) <= 1
    <3>1. CASE InPacks(c) = {}
      BY <3>1, FS_EmptySet
    <3>2. ASSUME NEW p \in InPacks(c)
          PROVE  Cardinality(InPacks(c)) <= 1
      <4>1. InPacks(c) = {p}
        BY <3>2 DEF SingleInv, Apart
      <4>2. Cardinality({p}) = 1
        BY FS_Singleton
      <4>3. QED
        BY <4>1, <4>2
    <3>3. QED
      BY <3>1, <3>2
  <2>2. c \in Hashes(pending) \cup InFlight => InPacks(c) = {}
    BY OnDiskMember DEF SingleInv, Apart, InPacks
  <2>3. c \in Hashes(pending) => c \notin InFlight
    <3>1. ASSUME c \in InFlight
          PROVE  pending = {}
      <4>1. PICK u \in Thread : pc[u] = "write"
        BY <3>1 DEF InFlight
      <4>2. QED
        BY <4>1 DEF SingleInv, BackupInv, Writing, Thread
    <3>2. QED
      BY <3>1 DEF Hashes
  <2>4. QED
    BY <2>1, <2>2, <2>3
<1>4. QED
  BY <1>1, <1>2, <1>3, PTL DEF Spec

(* Under the same conditions the base of every delta on disk is on disk, at *)
(* any moment the process may die: the base went into an earlier pack or    *)
(* into the same one.                                                       *)
THEOREM DeltaBaseStoredHolds ==
    ASSUME OrderedNames, SingleWriter, ~WriteCanFail, PacksApart, PacksHaveBases
    PROVE  Spec => []DeltaBaseStored
<1>1. Init => SingleInv
  BY InitSingle
<1>2. SingleInv /\ [Next]_vars => SingleInv'
  BY StepSingle
<1>3. SingleInv => DeltaBaseStored
  BY DEF SingleInv, BasesNear
<1>4. QED
  BY <1>1, <1>2, <1>3, PTL DEF Spec

-----------------------------------------------------------------------------
(* What was promised can be restored.                                       *)

LEMMA KeptMember ==
    /\ \A e : e \in AllKept <=>
          \/ \E p \in PackId : e \in disk[p]
          \/ e \in pending
          \/ \E t \in Writers : pc[t] = "write" /\ e \in batch[t]
          \/ \E t \in Writers : About(t) /\ e = item[t]
    /\ \A e : e \in AllKept' <=>
          \/ \E p \in PackId : e \in disk'[p]
          \/ e \in pending'
          \/ \E t \in Writers : pc'[t] = "write" /\ e \in batch'[t]
          \/ \E t \in Writers : About(t)' /\ e = item'[t]
BY DEF AllKept, Kept, Upcoming

LEMMA RestoreTypes ==
    ASSUME RestoreInv
    PROVE  TypeOK /\ PackInv /\ BackupInv /\ WriterBases /\ SingleInv
BY DEF RestoreInv, SingleInv, BackupInv, IndexInv, PackInv

(* Loaded metadata stays, and is that of every file no writer is at.        *)
LEMMA StepLoaded ==
    ASSUME RestoreInv, SingleWriter, ~WriteCanFail, [Next]_vars
    PROVE  /\ AllLoaded' /\ Loaded \subseteq Loaded'
           /\ UNCHANGED packs \/ \A p \in PackId : packs'[p] = disk'[p]
<1> USE DEF disk_vars, ghost_vars
<1> DEFINE Goal == /\ AllLoaded' /\ Loaded \subseteq Loaded'
                   /\ UNCHANGED packs \/ \A p \in PackId : packs'[p] = disk'[p]
<1>0. TypeOK /\ AllLoaded /\ PacksOnDisk /\ BatchIds
      /\ \A t \in Readers : pc[t] \in {"ready", "get"}
  BY RestoreTypes DEF RestoreInv, PackInv, BackupInv
<1>1. ASSUME \A p \in PackId : packs[p] \subseteq packs'[p]
      PROVE  Loaded \subseteq Loaded'
  BY <1>1 DEF Loaded
<1>2. CASE Reopen
  BY <1>0, <1>1, <1>2 DEF Reopen, AllLoaded, PacksOnDisk
<1>3. ASSUME UNCHANGED <<disk, packs, batchId>>,
             \A t \in Writers : pc[t] = "install" => pc'[t] = "install"
      PROVE  Goal
  BY <1>0, <1>1, <1>3 DEF AllLoaded
<1>4. ASSUME NEW t \in Writers, WritePack(t)
      PROVE  Goal
  BY <1>0, <1>1, <1>4 DEF WritePack, AllLoaded, TypeOK, Thread, SingleWriter
<1>5. ASSUME NEW t \in Writers, Install(t)
      PROVE  Goal
  <2>1. t \in Thread /\ pc[t] = "install" /\ disk[batchId[t]] = batch[t]
        /\ batchId[t] \in PackId /\ disk' = disk
        /\ packs' = [packs EXCEPT ![batchId[t]] = batch[t]]
    BY <1>0, <1>5 DEF Install, BatchIds, TypeOK, Thread
  <2>2. \A p \in PackId : packs'[p] = IF p = batchId[t] THEN disk[p] ELSE packs[p]
    BY <1>0, <2>1 DEF TypeOK
  <2>3. \A p \in PackId : packs'[p] = disk[p]
    BY <1>0, <2>2 DEF AllLoaded, SingleWriter
  <2>4. QED
    BY <1>0, <1>1, <2>1, <2>2, <2>3 DEF AllLoaded, PacksOnDisk
<1>6. ASSUME NEW t \in Writers, WriterStep(t), ~WritePack(t), ~Install(t)
      PROVE  UNCHANGED <<disk, packs>>
             /\ (pc[t] = "install" => pc'[t] = "install" /\ UNCHANGED batchId)
  BY <1>6 DEF WriterStep, Skip, StartStore, StartNearDup, EncodeDelta, Lookup,
       AppendPending, Drain, DrainAs, Flush, WriteFails, InsertIndex, PutSignature,
       Get, GetPending, GetStored, GetResume
<1>7. ASSUME NEW t \in Writers, WriterStep(t)
      PROVE  Goal
  <2>1. CASE ~WritePack(t) /\ ~Install(t) /\ pc[t] = "install"
    BY <1>3, <1>6, <1>7, <2>1 DEF SingleWriter
  <2>2. CASE ~WritePack(t) /\ ~Install(t) /\ pc[t] # "install"
    <3>1. UNCHANGED <<disk, packs>> /\ \A p \in PackId : packs[p] = disk[p]
      BY <1>0, <1>6, <1>7, <2>2 DEF AllLoaded, SingleWriter
    <3>2. QED
      BY <1>1, <3>1 DEF AllLoaded
  <2>3. QED
    BY <1>4, <1>5, <1>7, <2>1, <2>2
<1>8. ASSUME NEW t \in Readers, ReaderStep(t)
      PROVE  Goal
  <2>1. UNCHANGED <<disk, packs, batchId>>
    BY <1>8, ReadsChangeNothing DEF ReaderStep, StartGet, FinishGet, Thread
  <2>2. \A u \in Writers : pc'[u] = pc[u]
    BY <1>0, <1>8, OthersStay, ThreadsAssumption DEF Thread
  <2>3. QED
    BY <1>3, <2>1, <2>2
<1>9. CASE UNCHANGED vars
  BY <1>3, <1>9 DEF vars, thread_vars
<1>10. QED
  BY <1>2, <1>7, <1>8, <1>9 DEF Next

LEMMA StepPromised ==
    ASSUME RestoreInv, SingleWriter, ~WriteCanFail, OrderedNames, [Next]_vars
    PROVE  promised' \subseteq Hashes(Loaded')
<1>1. AllLoaded' /\ Loaded \subseteq Loaded'
  BY StepLoaded
<1> USE DEF disk_vars, ghost_vars
<1>2. CASE promised' = promised
  BY <1>1, <1>2 DEF RestoreInv, Hashes
<1>3. ASSUME NEW t \in Writers, WriterStep(t), promised' # promised
      PROVE  pc'[t] # "install"
  BY <1>3, RestoreTypes DEF TypeOK, Thread, WriterStep, Skip, StartStore, StartNearDup, EncodeDelta, Lookup,
       AppendPending, Drain, DrainAs, Flush, WritePack, WriteFails, Install, InsertIndex,
       PutSignature, Get, GetPending, GetStored, GetResume
<1>4. ASSUME NEW t \in Writers, WriterStep(t), promised' # promised
      PROVE  promised' \subseteq Hashes(Loaded')
  <2>1. \A p \in PackId : packs'[p] = disk'[p]
    BY <1>1, <1>3, <1>4 DEF AllLoaded, SingleWriter
  <2>2. promised' \subseteq OnDisk'
    BY <1>4, StepBackup, RestoreTypes DEF BackupInv, PromiseKept
  <2>3. QED
    BY <2>1, <2>2, OnDiskMember DEF Loaded, Hashes
<1>5. ASSUME NEW t \in Readers, ReaderStep(t)
      PROVE  promised' = promised
  BY <1>5, ReadsChangeNothing DEF ReaderStep, StartGet, FinishGet, Thread
<1>6. QED
  BY <1>2, <1>4, <1>5 DEF Next, Reopen, vars

LEMMA StepBasesLoaded ==
    ASSUME RestoreInv, SingleWriter, ~WriteCanFail, OrderedNames, [Next]_vars
    PROVE  BasesLoaded'
<1>1. UNCHANGED packs \/ \A p \in PackId : packs'[p] = disk'[p]
  BY StepLoaded
<1>2. CASE UNCHANGED packs
  BY <1>2 DEF RestoreInv, BasesLoaded, Loaded, Hashes, HasBase
<1>3. CASE \A p \in PackId : packs'[p] = disk'[p]
  <2>1. DeltaBaseStored'
    BY RestoreTypes, StepSingle DEF SingleInv, BasesNear
  <2>2. \A c : c \in OnDisk' => c \in Hashes(Loaded')
    BY <1>3, OnDiskMember DEF Hashes, Loaded
  <2>3. QED
    BY <1>3, <2>1, <2>2 DEF DeltaBaseStored, BasesLoaded, HasBase, Loaded, Hashes
<1>4. QED
  BY <1>1, <1>2, <1>3

(* A chunk about to be stored is nowhere yet, and no stored entry is over   *)
(* it.                                                                      *)
LEMMA NewChunk ==
    ASSUME RestoreInv, SingleWriter, ~Evicts, NEW t \in Writers, NEW c \in Chunk,
           pc[t] = "ready", IsSent(c)
    PROVE  /\ \A e \in AllKept : e.hash # c /\ e.base # c
           /\ c \notin bases[t]
<1>0. SingleInv /\ TypeOK /\ WriterBases /\ \A u \in Writers : u = t
  BY RestoreTypes DEF SingleWriter
<1>1. ~IndexHas(c)
  BY DEF IsSent
<1>2. InFlight = {}
  BY <1>0, WriterInFlight DEF SingleInv
<1>3. c \notin Hashes(pending) \cup OnDisk
  BY <1>0, <1>1 DEF SingleInv, StoredIsIndexed, AboutToIndex
<1>4. ASSUME NEW e \in AllKept
      PROVE  e \in pending \/ \E p \in PackId : e \in disk[p]
  BY <1>0, <1>4, KeptMember DEF About
<1>5. ASSUME NEW e \in AllKept
      PROVE  /\ e.hash \in Hashes(pending) \cup OnDisk
             /\ e.base # NoBase => e.base \in Hashes(pending) \cup OnDisk
  <2>1. CASE e \in pending
    BY <1>0, <2>1 DEF SingleInv, BasesNear, HasBase, Hashes
  <2>2. CASE \E p \in PackId : e \in disk[p]
    BY <1>0, <2>2, OnDiskMember DEF SingleInv, BasesNear, DeltaBaseStored, Hashes
  <2>3. QED
    BY <1>4, <1>5, <2>1, <2>2
<1>6. c \notin bases[t]
  BY <1>0, <1>1 DEF WriterBases, BasesStored, Storing, Placeholder, IndexHas
<1>7. QED
  BY <1>3, <1>5, <1>6, NamesAssumption

SameBytes(e, f) == e.hash = f.hash /\ e.base = f.base /\ e.over = f.over

(* Apart from an entry a writer makes, no step makes an entry.              *)
LEMMA NothingMade ==
    ASSUME RestoreInv, SingleWriter, ~WriteCanFail, NEW t \in Writers, WriterStep(t),
           \A c \in Chunk : ~StartStore(t, c) /\ \A b \in bases[t] : ~StartNearDup(t, c, b),
           ~EncodeDelta(t)
    PROVE  /\ \A e \in AllKept' : \E f \in AllKept : SameBytes(e, f)
           /\ bases'[t] \subseteq bases[t]
<1> USE DEF disk_vars, ghost_vars
<1>0. TypeOK /\ t \in Thread /\ \A u \in Writers : u = t
  BY RestoreTypes DEF SingleWriter, Thread
<1>1. bases'[t] \subseteq bases[t]
  BY <1>0 DEF WriterStep, Skip, Lookup, AppendPending, Drain, DrainAs, Flush,
       FlushReturns, WritePack, WriteFails, Install, InsertIndex, PutSignature, Get,
       GetPending, GetStored, GetResume, TypeOK
<1>2. ASSUME AllKept' \subseteq AllKept
      PROVE  \A e \in AllKept' : \E f \in AllKept : SameBytes(e, f)
  BY <1>2 DEF SameBytes
<1>3. CASE Lookup(t) \/ (\E c \in Chunk : Skip(t, c)) \/ Get(t) \/ InsertIndex(t)
  <2>1. UNCHANGED <<disk, pending, item>> /\ pc[t] # "write" /\ pc'[t] # "write"
        /\ (About(t)' => About(t))
    BY <1>0, <1>3 DEF Lookup, Skip, InsertIndex, Get, GetPending, GetStored, GetResume,
         About, TypeOK
  <2>2. AllKept' \subseteq AllKept
    BY <1>0, <2>1, KeptMember
  <2>3. QED
    BY <1>1, <1>2, <2>2
<1>4. CASE AppendPending(t)
  <2>1. item[t] # NoEntry
    BY <1>0, <1>4, NamesAssumption DEF AppendPending, TypeOK
  <2>2. item[t] \in AllKept
    BY <1>4, <2>1, KeptMember DEF AppendPending, About
  <2>3. /\ disk' = disk /\ pc'[t] \in {"insert", "write"}
        /\ pending' \subseteq pending \cup {item[t]}
        /\ pc'[t] = "write" => batch'[t] \subseteq pending \cup {item[t]}
    BY <1>0, <1>4 DEF AppendPending, Drain, DrainAs, TypeOK
  <2>4. AllKept' \subseteq AllKept
    BY <1>0, <2>2, <2>3, KeptMember DEF About
  <2>5. QED
    BY <1>1, <1>2, <2>4
<1>5. CASE Flush(t)
  <2>1. /\ disk' = disk /\ pc'[t] \in {"ready", "write"}
        /\ pending' \subseteq pending
        /\ pc'[t] = "write" => batch'[t] \subseteq pending
    BY <1>0, <1>5 DEF Flush, Drain, DrainAs, TypeOK
  <2>2. AllKept' \subseteq AllKept
    BY <1>0, <2>1, KeptMember DEF About
  <2>3. QED
    BY <1>1, <1>2, <2>2
<1>6. CASE WritePack(t)
  <2>1. /\ \A p \in PackId : disk'[p] \subseteq disk[p] \cup batch[t]
        /\ pc[t] = "write" /\ pc'[t] = "install" /\ pending' = pending
    BY <1>0, <1>6 DEF WritePack, TypeOK
  <2>2. AllKept' \subseteq AllKept
    BY <1>0, <2>1, KeptMember DEF About
  <2>3. QED
    BY <1>1, <1>2, <2>2
<1>7. CASE Install(t)
  <2>1. UNCHANGED <<disk, pending>> /\ pc'[t] \in {"ready", "insert"}
    BY <1>0, <1>7 DEF Install, TypeOK
  <2>2. AllKept' \subseteq AllKept
    BY <1>0, <2>1, KeptMember DEF About
  <2>3. QED
    BY <1>1, <1>2, <2>2
<1>8. CASE PutSignature(t)
  <2>1. UNCHANGED disk /\ pc'[t] = "ready"
    BY <1>0, <1>8 DEF PutSignature, TypeOK
  <2>2. ASSUME NEW e \in pending'
        PROVE  \E f \in pending : SameBytes(e, f)
    BY <1>0, <1>8, SignedFrom DEF SameBytes, Signed
  <2>3. ASSUME NEW e \in AllKept'
        PROVE  \E f \in AllKept : SameBytes(e, f)
    BY <1>0, <2>1, <2>2, KeptMember DEF About, SameBytes
  <2>4. QED
    BY <1>1, <2>3
<1>9. QED
  BY <1>3, <1>4, <1>5, <1>6, <1>7, <1>8 DEF WriterStep, WriteFails

(* What a writer makes can be decoded, and what may become a base stays in  *)
(* full.                                                                    *)
LEMMA MadeDecodable ==
    ASSUME RestoreInv, SingleWriter, ~Evicts, NEW t \in Writers,
           \/ \E c \in Chunk : StartStore(t, c) \/ \E b \in bases[t] : StartNearDup(t, c, b)
           \/ EncodeDelta(t)
    PROVE  Decodable(AllKept') /\ \A b \in bases'[t] : InFullOnly(b, AllKept')
<1> USE DEF disk_vars, ghost_vars
<1>0. TypeOK /\ t \in Thread /\ (\A u \in Writers : u = t)
      /\ Decodable(AllKept) /\ \A b \in bases[t] : InFullOnly(b, AllKept)
  BY RestoreTypes DEF SingleWriter, Thread, RestoreInv, UniqueInFull
<1>1. /\ UNCHANGED <<disk, pending>>
      /\ pc[t] \in {"ready", "get"} /\ pc'[t] \in {"get", "lookup"}
  BY <1>0 DEF StartStore, StartNearDup, EncodeDelta, TypeOK
<1>2. \A e \in AllKept' : e \in AllKept \/ e = item'[t]
  BY <1>0, <1>1, KeptMember
<1>3. ASSUME NEW c \in Chunk, StartStore(t, c)
      PROVE  Decodable(AllKept') /\ \A b \in bases'[t] : InFullOnly(b, AllKept')
  <2>1. item'[t] = FullEntry(c) /\ bases'[t] = bases[t] \cup {c}
    BY <1>0, <1>3 DEF StartStore, TypeOK
  <2>2. FullEntry(c).hash = c /\ FullEntry(c).base = NoBase /\ FullEntry(c).over = "content"
    BY DEF FullEntry, StoredAs
  <2>3. \A e \in AllKept : e.hash # c
    BY <1>3, NewChunk DEF StartStore
  <2>4. QED
    BY <1>0, <1>2, <2>1, <2>2, <2>3 DEF Decodable, InFullOnly
<1>4. ASSUME NEW c \in Chunk, NEW d \in bases[t], StartNearDup(t, c, d)
      PROVE  Decodable(AllKept') /\ \A b \in bases'[t] : InFullOnly(b, AllKept')
  <2>1. item'[t] = DeltaEntry(c, d) /\ bases'[t] = bases[t] /\ c # d
    BY <1>0, <1>4 DEF StartNearDup, TypeOK
  <2>2. DeltaEntry(c, d).hash = c /\ DeltaEntry(c, d).base = d
        /\ DeltaEntry(c, d).over = "content"
    BY DEF DeltaEntry, StoredAs
  <2>3. (\A e \in AllKept : e.hash # c /\ e.base # c) /\ c \notin bases[t]
    BY <1>4, NewChunk DEF StartNearDup
  <2>4. QED
    BY <1>0, <1>2, <2>1, <2>2, <2>3 DEF Decodable, InFullOnly
<1>5. ASSUME EncodeDelta(t)
      PROVE  Decodable(AllKept') /\ \A b \in bases'[t] : InFullOnly(b, AllKept')
  <2>1. item[t] \in Entry /\ item[t] # NoEntry
    BY <1>0, <1>5, NamesAssumption DEF EncodeDelta, TypeOK
  <2>2. item[t] \in AllKept
    BY <1>5, <2>1, KeptMember DEF EncodeDelta, About
  <2>3. bases'[t] = bases[t]
    BY <1>5 DEF EncodeDelta
  <2>4. CASE item'[t] = FullEntry(item[t].hash)
    <3>1. item'[t].base = NoBase /\ item'[t].over = "content"
      BY <2>4 DEF FullEntry, StoredAs
    <3>2. QED
      BY <1>0, <1>2, <2>3, <3>1 DEF Decodable, InFullOnly
  <2>5. CASE item'[t] = StoredAs(item[t].hash, item[t].base, reply[t]) /\ reply[t] \in Bytes
    <3>1. reply[t] = "content"
      BY <1>5, <2>5 DEF EncodeDelta, RestoreInv, WriterReads, Bytes
    <3>2. item[t].over = "content"
      BY <1>0, <2>2 DEF Decodable
    <3>3. item'[t].hash = item[t].hash /\ item'[t].base = item[t].base
          /\ item'[t].over = "content"
      BY <2>5, <3>1 DEF StoredAs
    <3>4. QED
      BY <1>0, <1>2, <2>2, <2>3, <3>3 DEF Decodable, InFullOnly
  <2>6. QED
    BY <1>0, <1>5, <2>4, <2>5 DEF EncodeDelta, TypeOK
<1>6. QED
  BY <1>3, <1>4, <1>5

LEMMA StepDecodable ==
    ASSUME RestoreInv, SingleWriter, ~WriteCanFail, ~Evicts, [Next]_vars
    PROVE  Decodable(AllKept)' /\ UniqueInFull'
<1> USE DEF disk_vars, ghost_vars
<1>0. TypeOK /\ Decodable(AllKept) /\ UniqueInFull
  BY RestoreTypes DEF RestoreInv
<1>1. ASSUME \A e \in AllKept' : \E f \in AllKept : SameBytes(e, f),
             \A t \in Writers : bases'[t] \subseteq bases[t]
      PROVE  Decodable(AllKept)' /\ UniqueInFull'
  <2>1. \A c : InFullOnly(c, AllKept) => InFullOnly(c, AllKept')
    BY <1>1 DEF InFullOnly, SameBytes
  <2>2. Decodable(AllKept')
    BY <1>0, <1>1, <2>1 DEF Decodable, SameBytes
  <2>3. QED
    BY <1>0, <1>1, <2>1, <2>2 DEF UniqueInFull, Decodable, InFullOnly
<1>2. ASSUME AllKept' \subseteq AllKept, \A t \in Writers : bases'[t] \subseteq bases[t]
      PROVE  Decodable(AllKept)' /\ UniqueInFull'
  BY <1>1, <1>2 DEF SameBytes
<1>3. ASSUME NEW t \in Writers, WriterStep(t)
      PROVE  Decodable(AllKept)' /\ UniqueInFull'
  <2>1. \A u \in Writers : u = t
    BY DEF SingleWriter
  <2>2. CASE \/ \E c \in Chunk : StartStore(t, c) \/ \E b \in bases[t] : StartNearDup(t, c, b)
             \/ EncodeDelta(t)
    BY <2>1, <2>2, MadeDecodable DEF UniqueInFull, Decodable, InFullOnly
  <2>3. QED
    BY <1>1, <1>3, <2>1, <2>2, NothingMade
<1>4. ASSUME NEW t \in Readers, ReaderStep(t)
      PROVE  Decodable(AllKept)' /\ UniqueInFull'
  <2>1. \A u \in Writers : pc'[u] = pc[u] /\ item'[u] = item[u] /\ bases'[u] = bases[u]
                           /\ batch'[u] = batch[u]
    BY <1>0, <1>4, OthersStay, ThreadsAssumption DEF Thread
  <2>2. UNCHANGED <<disk, pending>>
    BY <1>4, ReadsChangeNothing DEF ReaderStep, StartGet, FinishGet, Thread
  <2>3. AllKept' \subseteq AllKept
    BY <2>1, <2>2, KeptMember DEF About
  <2>4. QED
    BY <1>2, <2>1, <2>3
<1>5. CASE Reopen
  <2>1. /\ disk' = disk /\ pending' = {}
        /\ \A t \in Writers : pc'[t] = "ready" /\ bases'[t] = {}
    BY <1>5 DEF Reopen, Thread
  <2>2. AllKept' \subseteq AllKept
    BY <2>1, KeptMember DEF About
  <2>3. QED
    BY <1>2, <2>1, <2>2
<1>6. CASE UNCHANGED vars
  <2>1. UNCHANGED <<disk, pending, pc, item, batch, bases>>
    BY <1>6 DEF vars, thread_vars
  <2>2. AllKept' \subseteq AllKept
    BY <2>1, KeptMember DEF About
  <2>3. QED
    BY <1>2, <2>1, <2>2
<1>7. QED
  BY <1>3, <1>4, <1>5, <1>6 DEF Next

(* The stack of calls has one or two frames.                                *)
LEMMA OneCall ==
    ASSUME NEW f \in Frame
    PROVE  /\ <<f>> # <<>> /\ Head(<<f>>) = f /\ Tail(<<f>>) = <<>> /\ Len(<<f>>) = 1
           /\ <<f>> \o Tail(<<f>>) = <<f>>
<1>1. <<f>> \in Seq(Frame) /\ Len(<<f>>) = 1 /\ Head(<<f>>) = f
  OBVIOUS
<1>2. Tail(<<f>>) = <<>>
  <2>1. Tail(<<f>>) \in Seq(Frame) /\ Len(Tail(<<f>>)) = 0
    BY <1>1
  <2>2. QED
    BY <2>1
<1>3. QED
  BY <1>1, <1>2

LEMMA TwoCalls ==
    ASSUME NEW f \in Frame, NEW g \in Frame
    PROVE  /\ <<g, f>> # <<>> /\ Head(<<g, f>>) = g /\ Tail(<<g, f>>) = <<f>>
           /\ Len(<<g, f>>) = 2
           /\ \A h \in Frame : /\ <<h>> \o Tail(<<g, f>>) = <<h, f>>
                               /\ <<g, f>> \o Tail(<<h>>) = <<g, f>>
                               /\ <<h>> \o Tail(<<f>>) = <<h>>
<1>1. <<g, f>> \in Seq(Frame) /\ Len(<<g, f>>) = 2 /\ Head(<<g, f>>) = g
  OBVIOUS
<1>2. Tail(<<g, f>>) = <<f>>
  <2>1. Tail(<<g, f>>) \in Seq(Frame) /\ Len(Tail(<<g, f>>)) = 1
        /\ Tail(<<g, f>>)[1] = f
    BY <1>1
  <2>2. QED
    BY <2>1
<1>3. ASSUME NEW h \in Frame
      PROVE  <<h>> \o <<f>> = <<h, f>>
  <2>1. <<h>> \o <<f>> \in Seq(Frame) /\ <<h, f>> \in Seq(Frame)
    OBVIOUS
  <2>2. Len(<<h>> \o <<f>>) = 2 /\ (<<h>> \o <<f>>)[1] = h /\ (<<h>> \o <<f>>)[2] = f
    OBVIOUS
  <2>3. Len(<<h, f>>) = 2 /\ <<h, f>>[1] = h /\ <<h, f>>[2] = f
    OBVIOUS
  <2>4. \A i \in 1 .. 2 : i = 1 \/ i = 2
    OBVIOUS
  <2>5. QED
    BY <2>1, <2>2, <2>3, <2>4, SeqEqual
<1>4. <<g, f>> \o <<>> = <<g, f>>
  BY <1>1, ConcatEmptySeq
<1>5. QED
  BY <1>1, <1>2, <1>3, <1>4, OneCall

LEMMA StepNoCall ==
    ASSUME RestoreInv, ~WriteCanFail, [Next]_vars
    PROVE  NoCallLeft'
<1> USE DEF disk_vars, ghost_vars
<1>0. TypeOK /\ NoCallLeft
  BY RestoreTypes DEF RestoreInv
<1>1. ASSUME NEW t \in Thread, WriterStep(t) \/ ReaderStep(t)
      PROVE  NoCallLeft'
  <2>1. pc'[t] # "get" => frames'[t] = <<>> /\ reply'[t] = "none"
    <3>1. CASE Get(t)
      BY <3>1, ReadsChangeNothing DEF Get, GetPending, GetStored, GetResume
    <3>2. CASE EncodeDelta(t) \/ FinishGet(t)
      BY <1>0, <3>2 DEF EncodeDelta, FinishGet, TypeOK
    <3>3. CASE \/ \E c \in Chunk : StartGet(t, c) \/ \E b \in bases[t] : StartNearDup(t, c, b)
      BY <1>0, <3>3 DEF StartGet, StartNearDup, TypeOK
    <3>4. CASE \/ (\E c \in Chunk : Skip(t, c) \/ StartStore(t, c))
               \/ Lookup(t) \/ AppendPending(t) \/ Flush(t) \/ WritePack(t) \/ Install(t)
               \/ InsertIndex(t) \/ PutSignature(t)
      <4>1. pc[t] # "get" /\ UNCHANGED <<frames, reply>>
        BY <3>4 DEF Skip, StartStore, Lookup, AppendPending, Flush, WritePack, Install,
             InsertIndex, PutSignature
      <4>2. QED
        BY <1>0, <4>1 DEF NoCallLeft
    <3>5. QED
      BY <1>1, <3>1, <3>2, <3>3, <3>4 DEF WriterStep, ReaderStep, WriteFails
  <2>2. \A u \in Thread : u # t => /\ pc'[u] = pc[u] /\ frames'[u] = frames[u]
                                   /\ reply'[u] = reply[u]
    BY <1>0, <1>1 DEF WriterStep, ReaderStep, Skip, StartStore, StartNearDup, EncodeDelta,
       Lookup, AppendPending, Drain, DrainAs, Flush, FlushReturns, WritePack,
       WriteFails, Install, InsertIndex, PutSignature, Get, GetPending, GetStored,
       GetResume, StartGet, FinishGet, TypeOK, Returns, ReplaceTop, GiveUp, ReadEntry
  <2>3. QED
    BY <1>0, <2>1, <2>2 DEF NoCallLeft
<1>2. CASE Reopen
  BY <1>2 DEF Reopen, NoCallLeft
<1>3. CASE UNCHANGED vars
  BY <1>0, <1>3 DEF NoCallLeft, vars, thread_vars
<1>4. QED
  BY <1>1, <1>2, <1>3 DEF Next, Thread

(* A get of a chunk that is in full wherever it is never answers with the   *)
(* bytes of a delta, and calls itself for no other chunk.                   *)
LEMMA WriterGets ==
    ASSUME RestoreInv, NEW t \in Writers, Get(t)
    PROVE  /\ reply'[t] # "raw"
           /\ \A i \in DOMAIN frames'[t] : frames'[t][i].hash \in bases'[t]
<1> USE DEF disk_vars, ghost_vars
<1> DEFINE Goal == /\ reply'[t] # "raw"
                   /\ \A i \in DOMAIN frames'[t] : frames'[t][i].hash \in bases'[t]
<1>0. /\ TypeOK /\ t \in Thread /\ pc[t] = "get" /\ bases' = bases /\ frames[t] # <<>>
      /\ reply[t] # "raw" /\ \A i \in DOMAIN frames[t] : frames[t][i].hash \in bases[t]
      /\ \A b \in bases[t] : InFullOnly(b, AllKept)
      /\ PacksOnDisk
  BY RestoreTypes DEF Get, GetPending, GetStored, GetResume, Thread, RestoreInv,
     WriterReads, UniqueInFull, PackInv
<1>1. /\ frames[t] \in Seq(Frame) /\ Top(t) = frames[t][1] /\ 1 \in DOMAIN frames[t]
      /\ Top(t).hash \in bases[t]
  BY <1>0 DEF TypeOK, Top
<1>2. ASSUME frames'[t] = Tail(frames[t])
      PROVE  \A i \in DOMAIN frames'[t] : frames'[t][i].hash \in bases'[t]
  <2>1. \A i \in 1 .. Len(Tail(frames[t])) : Tail(frames[t])[i] = frames[t][i + 1]
                                             /\ i + 1 \in DOMAIN frames[t]
    BY <1>0, <1>1
  <2>2. DOMAIN Tail(frames[t]) = 1 .. Len(Tail(frames[t]))
    BY <1>0, <1>1
  <2>3. QED
    BY <1>0, <1>2, <2>1, <2>2
<1>3. ASSUME NEW f, ReplaceTop(t, f), f.hash = Top(t).hash
      PROVE  \A i \in DOMAIN frames'[t] : frames'[t][i].hash \in bases'[t]
  <2>1. frames'[t] = <<f>> \o Tail(frames[t])
    BY <1>0, <1>3 DEF ReplaceTop, TypeOK
  <2>2. /\ DOMAIN frames'[t] = DOMAIN frames[t]
        /\ \A i \in DOMAIN frames[t] : frames'[t][i] = IF i = 1 THEN f ELSE frames[t][i]
    BY <1>0, <1>1, <2>1
  <2>3. QED
    BY <1>0, <1>1, <1>3, <2>2
<1>4. ASSUME NEW r, Returns(t, r), r # "raw"
      PROVE  Goal
  BY <1>0, <1>2, <1>4 DEF Returns, TypeOK
<1>5. ASSUME GiveUp(t)
      PROVE  Goal
  <2>1. CASE Top(t).at = "scan"
    BY <1>4, <1>5, <2>1 DEF GiveUp
  <2>2. CASE Top(t).at # "scan"
    BY <1>0, <1>3, <1>5, <2>2 DEF GiveUp, Call, TypeOK
  <2>3. QED
    BY <2>1, <2>2
<1>6. CASE GetPending(t)
  <2>1. ASSUME NEW e \in pending, e.hash = Top(t).hash
        PROVE  e.base = NoBase
    BY <1>0, <1>1, <2>1, KeptMember DEF InFullOnly
  <2>2. CASE Returns(t, "err") \/ Returns(t, "content")
    BY <1>4, <2>2
  <2>3. CASE ReplaceTop(t, Call(Top(t).hash, "index", "none")) /\ UNCHANGED reply
    BY <1>0, <1>3, <2>3 DEF Call
  <2>4. QED
    BY <1>6, <2>1, <2>2, <2>3 DEF GetPending
<1>7. CASE GetStored(t)
  <2>1. ASSUME NEW p \in PackId, NEW e \in packs[p], e.hash = Top(t).hash, ReadEntry(t, p, e)
        PROVE  Goal
    <3>1. e.base = NoBase
      BY <1>0, <1>1, <2>1, KeptMember DEF InFullOnly, PacksOnDisk
    <3>2. CASE Returns(t, "content")
      BY <1>4, <3>2
    <3>3. QED
      BY <1>5, <2>1, <3>1, <3>2 DEF ReadEntry
  <2>2. QED
    BY <1>5, <1>7, <2>1 DEF GetStored
<1>8. CASE GetResume(t)
  <2>1. CASE Returns(t, "content")
    BY <1>4, <2>1
  <2>2. QED
    BY <1>5, <1>8, <2>1 DEF GetResume
<1>9. QED
  BY <1>6, <1>7, <1>8 DEF Get

LEMMA StepWriterReads ==
    ASSUME RestoreInv, SingleWriter, ~WriteCanFail, [Next]_vars
    PROVE  WriterReads'
<1> USE DEF disk_vars, ghost_vars
<1>0. TypeOK /\ WriterReads /\ NoCallLeft
  BY RestoreTypes DEF RestoreInv
<1>1. ASSUME NEW t \in Writers, WriterStep(t)
      PROVE  WriterReads'
  <2>1. \A u \in Writers : u = t /\ t \in Thread
    BY DEF SingleWriter, Thread
  <2>2. CASE Get(t)
    BY <2>1, <2>2, WriterGets DEF WriterReads
  <2>3. CASE \E c \in Chunk : \E b \in bases[t] : StartNearDup(t, c, b)
    <3>1. PICK c \in Chunk : \E b \in bases[t] : StartNearDup(t, c, b)
      BY <2>3
    <3>2. PICK b \in bases[t] : StartNearDup(t, c, b)
      BY <3>1
    <3>3. frames'[t] = <<NewCall(b)>> /\ bases' = bases /\ reply'[t] = "none"
      BY <1>0, <2>1, <3>2 DEF StartNearDup, TypeOK, NoCallLeft
    <3>4. DOMAIN frames'[t] = {1} /\ frames'[t][1].hash = b
      BY <3>3 DEF NewCall, Call
    <3>5. QED
      BY <2>1, <3>3, <3>4 DEF WriterReads
  <2>4. CASE ~Get(t) /\ ~\E c \in Chunk : \E b \in bases[t] : StartNearDup(t, c, b)
    <3>1. pc'[t] # "get"
      BY <1>0, <1>1, <2>1, <2>4 DEF WriterStep, Skip, StartStore, EncodeDelta,
         Lookup, AppendPending, Drain, DrainAs, Flush, WritePack, WriteFails, Install,
         InsertIndex, PutSignature, TypeOK
    <3>2. QED
      BY <2>1, <3>1 DEF WriterReads
  <2>5. QED
    BY <2>2, <2>3, <2>4
<1>2. ASSUME NEW t \in Readers, ReaderStep(t)
      PROVE  WriterReads'
  <2>1. \A u \in Writers : /\ pc'[u] = pc[u] /\ frames'[u] = frames[u] /\ reply'[u] = reply[u]
                           /\ bases'[u] = bases[u]
    BY <1>0, <1>2, ThreadsAssumption DEF Thread, ReaderStep, Get, GetPending, GetStored,
       GetResume, StartGet, FinishGet, TypeOK, Returns, ReplaceTop, GiveUp, ReadEntry
  <2>2. QED
    BY <1>0, <2>1 DEF WriterReads
<1>3. CASE Reopen
  BY <1>3 DEF Reopen, WriterReads, Thread
<1>4. CASE UNCHANGED vars
  BY <1>0, <1>4 DEF WriterReads, vars, thread_vars
<1>5. QED
  BY <1>1, <1>2, <1>3, <1>4 DEF Next

(* A chunk that was promised is in a loaded pack and not pending, and every *)
(* entry of a loaded pack can be restored.                                  *)
LEMMA LoadedRestores ==
    ASSUME RestoreInv
    PROVE  /\ \A c \in Hashes(Loaded) : ~InPending(c)
           /\ \A p \in PackId : \A e \in packs[p] :
                 /\ e \in disk[p] /\ e \in Loaded /\ e \in Entry
                 /\ e.over = "content"
<1>0. TypeOK /\ PacksOnDisk /\ Decodable(AllKept) /\ Apart
  BY RestoreTypes DEF RestoreInv, PackInv, SingleInv
<1>1. \A p \in PackId : \A e \in packs[p] :
          e \in disk[p] /\ e \in Loaded /\ e \in Entry /\ e.over = "content"
  BY <1>0, KeptMember DEF PacksOnDisk, Loaded, Decodable, TypeOK
<1>2. ASSUME NEW c \in Hashes(Loaded)
      PROVE  ~InPending(c)
  <2>1. PICK p \in PackId : \E e \in packs[p] : e.hash = c
    BY DEF Hashes, Loaded
  <2>2. c \in OnDisk
    BY <1>1, <2>1, OnDiskMember DEF Hashes
  <2>3. QED
    BY <1>0, <2>2 DEF Apart, InPending
<1>3. QED
  BY <1>1, <1>2

(* The base of a loaded delta is loaded, in full only.                      *)
LEMMA LoadedBases ==
    ASSUME RestoreInv, NEW c \in Chunk, IsBase(c)
    PROVE  /\ c \in Hashes(Loaded)
           /\ \A p \in PackId : \A e \in packs[p] : e.hash = c => e.base = NoBase
<1>0. TypeOK /\ PacksOnDisk /\ Decodable(AllKept) /\ BasesLoaded
  BY RestoreTypes DEF RestoreInv, PackInv
<1>1. \A p \in PackId : \A e \in packs[p] : e \in AllKept
  BY <1>0, KeptMember DEF PacksOnDisk
<1>2. PICK d \in Loaded : d.base = c
  BY DEF IsBase
<1>3. d \in AllKept /\ d.base # NoBase
  BY <1>1, <1>2, NamesAssumption DEF Loaded
<1>4. QED
  BY <1>0, <1>1, <1>2, <1>3 DEF BasesLoaded, HasBase, Decodable, InFullOnly

(* A reader's get of a promised chunk goes from the call for the chunk,     *)
(* through the call for its base if it is stored as a delta, to its bytes.  *)
LEMMA ReaderReads ==
    ASSUME RestoreInv, SingleWriter, MaxDepth # 0, NEW t \in Readers, Get(t),
           item[t].hash \in Hashes(Loaded), ReaderGets(t)
    PROVE  ReaderGets(t)'
<1> USE DEF disk_vars, ghost_vars
<1> DEFINE c == item[t].hash
<1>0. /\ TypeOK /\ t \in Thread /\ pc[t] = "get" /\ frames[t] # <<>> /\ item' = item
      /\ \A h \in Hashes(Loaded) : ~InPending(h) /\ h \in Chunk
      /\ MaxDepth \in Nat /\ MaxDepth >= 1
  <2>1. TypeOK
    BY RestoreTypes
  <2>2. \A h \in Hashes(Loaded) : h \in Chunk
    BY <2>1 DEF Hashes, Loaded, TypeOK, Entry
  <2>3. QED
    BY <2>1, <2>2, LoadedRestores, BoundsAssumption
       DEF Get, GetPending, GetStored, GetResume, Thread
<1>1. \A h \in Hashes(Loaded) : \E p \in PackId : h \in Hashes(packs[p])
  BY DEF Hashes, Loaded
<1>2. UNCHANGED packs /\ \A h : IsBase(h)' <=> IsBase(h)
  BY ReadsChangeNothing, <1>0 DEF IsBase, Loaded
<1>4. ASSUME NEW f \in Frame, f.hash = c, f.over = "none", frames[t] = <<f>>, reply[t] = "none"
      PROVE  ReaderGets(t)'
  <2>0. Top(t) = f /\ Len(frames[t]) = 1 /\ Tail(frames[t]) = <<>>
        /\ <<f>> \o Tail(frames[t]) = <<f>>
    BY <1>4, OneCall DEF Top
  <2>1. CASE GetPending(t)
    <3>1. ReplaceTop(t, Call(c, "index", "none")) /\ reply'[t] = "none"
      BY <1>0, <1>4, <2>0, <2>1 DEF GetPending, InPending, Hashes
    <3>2. Call(c, "index", "none") \in Frame
      BY <1>0 DEF Call, Frame
    <3>3. frames'[t] = <<Call(c, "index", "none")>>
      BY <1>0, <1>4, <3>1, <3>2, TwoCalls DEF ReplaceTop, TypeOK
    <3>4. QED
      BY <1>0, <3>1, <3>2, <3>3 DEF ReaderGets, Call
  <2>2. CASE GetStored(t)
    <3>1. CASE GiveUp(t) /\ f.at = "index"
      <4>1. ReplaceTop(t, Call(c, "scan", "none")) /\ reply'[t] = "none"
        BY <1>0, <1>4, <2>0, <3>1 DEF GiveUp, TypeOK
      <4>2. Call(c, "scan", "none") \in Frame
        BY <1>0 DEF Call, Frame
      <4>3. frames'[t] = <<Call(c, "scan", "none")>>
        BY <1>0, <1>4, <4>1, <4>2, TwoCalls DEF ReplaceTop, TypeOK
      <4>4. QED
        BY <1>0, <4>1, <4>2, <4>3 DEF ReaderGets, Call
    <3>2. ASSUME NEW p \in PackId, NEW e \in packs[p], e.hash = c, ReadEntry(t, p, e)
          PROVE  ReaderGets(t)'
      <4>1. e \in disk[p] /\ e \in Loaded /\ e \in Entry /\ e.over = "content"
        BY LoadedRestores
      <4>2. CASE e.base = NoBase
        <5>1. Returns(t, "content")
          BY <3>2, <4>1, <4>2 DEF ReadEntry
        <5>2. frames'[t] = <<>> /\ reply'[t] = "content"
          BY <1>0, <2>0, <5>1 DEF Returns, TypeOK
        <5>3. QED
          BY <5>2 DEF ReaderGets
      <4>3. CASE e.base # NoBase
        <5> DEFINE g == NewCall(e.base)
                   d == Call(c, f.at, "content")
        <5>1. IsBase(e.base) /\ e.base \in Chunk
          BY <4>1, <4>3 DEF Entry, IsBase
        <5>2. g \in Frame /\ d \in Frame
          BY <1>0, <5>1 DEF NewCall, Call, Frame, Bytes
        <5>3. frames'[t] = <<g, d>> \o <<>> /\ reply'[t] = "none"
          BY <1>0, <1>4, <2>0, <3>2, <4>1, <4>3 DEF ReadEntry, TypeOK
        <5>4. frames'[t] = <<g, d>>
          BY <5>2, <5>3, TwoCalls, OneCall
        <5>5. /\ g.over = "none" /\ g.hash = e.base
              /\ d.hash = c /\ d.over = "content" /\ d.at # "pending"
          BY <2>0, <2>2 DEF NewCall, Call, GetStored
        <5>6. IsBase(g.hash)'
          BY <1>2, <5>1, <5>5
        <5>7. QED
          BY <1>0, <5>2, <5>3, <5>4, <5>5, <5>6 DEF ReaderGets
      <4>4. QED
        BY <4>2, <4>3
    <3>3. ~\A p \in PackId : c \notin Hashes(packs[p])
      BY <1>1
    <3>4. QED
      BY <2>0, <2>2, <3>1, <3>2, <3>3, <1>4 DEF GetStored
  <2>3. ~GetResume(t)
    BY <1>4 DEF GetResume
  <2>4. QED
    BY <2>1, <2>2, <2>3 DEF Get
<1>5. ASSUME NEW g \in Frame, NEW f \in Frame, f.hash = c, f.over = "content",
             f.at # "pending", g.over = "none", IsBase(g.hash), frames[t] = <<g, f>>, reply[t] = "none"
      PROVE  ReaderGets(t)'
  <2>0. Top(t) = g /\ Len(frames[t]) = 2 /\ Tail(frames[t]) = <<f>>
    BY <1>5, TwoCalls DEF Top
  <2>1. g.hash \in Hashes(Loaded) /\ g.hash \in Chunk
        /\ \A p \in PackId : \A e \in packs[p] : e.hash = g.hash => e.base = NoBase
    BY <1>5, LoadedBases DEF Frame
  <2>3. ASSUME NEW h \in Frame, h.hash = g.hash, h.over = "none", ReplaceTop(t, h),
               reply'[t] = "none"
        PROVE  ReaderGets(t)'
    <3>1. frames'[t] = <<h, f>>
      BY <1>0, <1>5, <2>3, TwoCalls DEF ReplaceTop, TypeOK
    <3>2. IsBase(h.hash)'
      BY <1>2, <1>5, <2>3
    <3>3. QED
      BY <1>0, <1>5, <2>3, <3>1, <3>2 DEF ReaderGets
  <2>4. CASE GetPending(t)
    <3>1. ReplaceTop(t, Call(g.hash, "index", "none")) /\ reply'[t] = "none"
      BY <1>0, <1>5, <2>0, <2>1, <2>4 DEF GetPending, InPending, Hashes
    <3>2. QED
      BY <2>1, <2>3, <3>1 DEF Call, Frame
  <2>5. CASE GetStored(t)
    <3>1. CASE GiveUp(t) /\ g.at = "index"
      <4>1. ReplaceTop(t, Call(g.hash, "scan", "none")) /\ reply'[t] = "none"
        BY <1>0, <2>0, <3>1 DEF GiveUp, TypeOK
      <4>2. QED
        BY <2>1, <2>3, <4>1 DEF Call, Frame
    <3>2. ASSUME NEW p \in PackId, NEW e \in packs[p], e.hash = g.hash, ReadEntry(t, p, e)
          PROVE  ReaderGets(t)'
      <4>1. e \in disk[p] /\ e.base = NoBase
        BY <2>1, <3>2, LoadedRestores
      <4>2. Returns(t, "content")
        BY <3>2, <4>1 DEF ReadEntry
      <4>3. frames'[t] = <<f>> /\ reply'[t] = "content"
        BY <1>0, <2>0, <4>2 DEF Returns, TypeOK
      <4>4. QED
        BY <1>0, <1>5, <4>3 DEF ReaderGets
    <3>3. ~\A p \in PackId : g.hash \notin Hashes(packs[p])
      BY <1>1, <2>1
    <3>4. QED
      BY <1>5, <2>0, <2>5, <3>1, <3>2, <3>3 DEF GetStored
  <2>6. ~GetResume(t)
    BY <1>5 DEF GetResume
  <2>7. QED
    BY <2>4, <2>5, <2>6 DEF Get
<1>6. ASSUME NEW f \in Frame, f.hash = c, f.over = "content", f.at # "pending", frames[t] = <<f>>,
             reply[t] = "content"
      PROVE  ReaderGets(t)'
  <2>0. Top(t) = f /\ Tail(frames[t]) = <<>> /\ Len(frames[t]) = 1
    BY <1>6, OneCall DEF Top
  <2>1. Returns(t, "content")
    BY <1>6, <2>0 DEF Get, GetPending, GetStored, GetResume
  <2>2. frames'[t] = <<>> /\ reply'[t] = "content"
    BY <1>0, <2>0, <2>1 DEF Returns, TypeOK
  <2>3. QED
    BY <2>2 DEF ReaderGets
<1>7. QED
  BY <1>0, <1>4, <1>5, <1>6 DEF ReaderGets

LEMMA StepReader ==
    ASSUME RestoreInv, SingleWriter, ~WriteCanFail, MaxDepth # 0, [Next]_vars
    PROVE  ReaderInv'
<1>0. /\ TypeOK /\ ReaderInv /\ NoCallLeft /\ promised \subseteq Hashes(Loaded)
      /\ Loaded \subseteq Loaded'
  BY RestoreTypes, StepLoaded DEF RestoreInv
<1> USE DEF disk_vars, ghost_vars
<1> DEFINE Good(u) == pc'[u] = "get" =>
               /\ owed'[u] \subseteq promised'
               /\ item'[u].hash \in owed'[u] => ReaderGets(u)'
<1>1. ASSUME NEW u \in Readers, promised \subseteq promised',
             pc'[u] = pc[u], frames'[u] = frames[u], reply'[u] = reply[u],
             item'[u] = item[u], owed'[u] = owed[u]
      PROVE  Good(u)
  <2>1. \A c : IsBase(c) => IsBase(c)'
    BY <1>0 DEF IsBase
  <2>2. ReaderGets(u) => ReaderGets(u)'
    BY <1>1, <2>1 DEF ReaderGets
  <2>3. QED
    BY <1>0, <1>1, <2>2 DEF ReaderInv
<1>2. ASSUME NEW t \in Thread, WriterStep(t) \/ ReaderStep(t), NEW u \in Thread, u # t
      PROVE  /\ pc'[u] = pc[u] /\ frames'[u] = frames[u] /\ reply'[u] = reply[u]
             /\ item'[u] = item[u] /\ owed'[u] = owed[u]
  BY <1>0, <1>2 DEF WriterStep, ReaderStep, Skip, StartStore, StartNearDup, EncodeDelta,
     Lookup, AppendPending, Drain, DrainAs, Flush, FlushReturns, WritePack,
     WriteFails, Install, InsertIndex, PutSignature, Get, GetPending, GetStored,
     GetResume, StartGet, FinishGet, TypeOK, Returns, ReplaceTop, GiveUp, ReadEntry
<1>3. ASSUME NEW t \in Writers, WriterStep(t)
      PROVE  ReaderInv'
  <2>1. promised \subseteq promised'
    BY <1>3 DEF WriterStep, Skip, StartStore, StartNearDup, EncodeDelta, Lookup,
       AppendPending, Flush, FlushReturns, WritePack, WriteFails, Install, InsertIndex,
       PutSignature, Get, GetPending, GetStored, GetResume
  <2>2. \A u \in Readers : Good(u)
    BY <1>1, <1>2, <1>3, <2>1, ThreadsAssumption DEF Thread
  <2>3. QED
    BY <2>2 DEF ReaderInv
<1>4. ASSUME NEW t \in Readers, ReaderStep(t)
      PROVE  ReaderInv'
  <2>0. promised' = promised /\ t \in Thread
    BY <1>4, ReadsChangeNothing DEF ReaderStep, StartGet, FinishGet, Thread
  <2>1. \A u \in Readers \ {t} : Good(u)
    BY <1>1, <1>2, <1>4, <2>0 DEF Thread
  <2>2. ASSUME NEW c \in Chunk, StartGet(t, c)
        PROVE  Good(t)
    <3>1. /\ item'[t] = FullEntry(c) /\ owed'[t] = promised /\ reply'[t] = "none"
          /\ frames'[t] = <<NewCall(c)>>
      BY <1>0, <2>0, <2>2 DEF StartGet, TypeOK, NoCallLeft
    <3>2. NewCall(c) \in Frame /\ NewCall(c).hash = c /\ NewCall(c).over = "none"
          /\ FullEntry(c).hash = c
      BY DEF NewCall, Call, Frame, FullEntry, StoredAs
    <3>3. ReaderGets(t)'
      BY <3>1, <3>2 DEF ReaderGets
    <3>4. QED
      BY <2>0, <3>1, <3>3
  <2>3. ASSUME FinishGet(t)
        PROVE  Good(t)
    BY <1>0, <2>0, <2>3 DEF FinishGet, TypeOK
  <2>4. ASSUME Get(t)
        PROVE  Good(t)
    <3>1. pc[t] = "get" /\ item' = item /\ owed' = owed
      BY <2>0, <2>4, ReadsChangeNothing DEF Get, GetPending, GetStored, GetResume
    <3>2. item[t].hash \in owed[t] => ReaderGets(t)'
      BY <1>0, <2>4, <3>1, ReaderReads DEF ReaderInv
    <3>3. QED
      BY <1>0, <2>0, <3>1, <3>2 DEF ReaderInv
  <2>5. Good(t)
    BY <1>4, <2>2, <2>3, <2>4 DEF ReaderStep
  <2>6. QED
    BY <2>1, <2>5 DEF ReaderInv
<1>5. CASE Reopen
  BY <1>5 DEF Reopen, ReaderInv, Thread
<1>6. CASE UNCHANGED vars
  <2>1. \A u \in Readers : Good(u)
    BY <1>1, <1>6 DEF vars, thread_vars
  <2>2. QED
    BY <2>1 DEF ReaderInv
<1>7. QED
  BY <1>3, <1>4, <1>5, <1>6 DEF Next

LEMMA InitRestore ==
    ASSUME OrderedNames, PacksApart, PacksHaveBases, PacksDecode, Init
    PROVE  RestoreInv
<1>1. SingleInv
  BY InitSingle
<1>2. AllKept = UNION {InitDisk[p] : p \in PackId} /\ Loaded = UNION {InitDisk[p] : p \in PackId}
  <2>1. \A e : e \in AllKept <=> \E p \in PackId : e \in InitDisk[p]
    BY KeptMember DEF Init, About, Thread
  <2>2. QED
    BY <2>1 DEF Init, Loaded
<1>3. Decodable(AllKept)
  BY <1>2 DEF PacksDecode
<1>4. \A c : c \in OnDisk => c \in Hashes(Loaded)
  BY OnDiskMember DEF Init, Hashes, Loaded
<1>5. BasesLoaded
  <2>1. DeltaBaseStored
    BY <1>1 DEF SingleInv, BasesNear
  <2>2. QED
    BY <1>4, <2>1 DEF Init, BasesLoaded, HasBase, DeltaBaseStored, Loaded
<1>6. QED
  BY <1>1, <1>3, <1>4, <1>5
     DEF RestoreInv, Init, AllLoaded, UniqueInFull, NoCallLeft, WriterReads, ReaderInv, Thread

LEMMA StepRestore ==
    ASSUME OrderedNames, SingleWriter, ~WriteCanFail, ~Evicts, MaxDepth # 0,
           RestoreInv, [Next]_vars
    PROVE  RestoreInv'
BY StepSingle, StepLoaded, StepPromised, StepBasesLoaded, StepDecodable, StepNoCall,
   StepWriterReads, StepReader, RestoreTypes DEF RestoreInv

(* A get of a chunk of a finished backup returns the chunk's bytes, at any  *)
(* moment of a backup that runs beside it: while the chunk's pack is read,  *)
(* others are drained, written and installed, and chunks that are pending   *)
(* are found there first.  For any chunks, readers and packs, with one      *)
(* backup at a time, writes that succeed and a similarity index that evicts *)
(* nothing of the running backup (LocalStoreEviction.cfg breaks it else).   *)
THEOREM RestoreCorrectHolds ==
    ASSUME OrderedNames, SingleWriter, ~WriteCanFail, ~Evicts, MaxDepth # 0,
           PacksApart, PacksHaveBases, PacksDecode
    PROVE  Spec => []RestoreCorrect
<1>1. Init => RestoreInv
  BY InitRestore
<1>2. RestoreInv /\ [Next]_vars => RestoreInv'
  BY StepRestore
<1>3. RestoreInv => RestoreCorrect
  <2> SUFFICES ASSUME RestoreInv, NEW t \in Readers, pc[t] = "get", frames[t] = <<>>,
                      item[t].hash \in owed[t]
               PROVE  reply[t] = "content"
    BY DEF RestoreCorrect
  <2>1. ReaderGets(t)
    BY DEF RestoreInv, ReaderInv
  <2>2. QED
    BY <2>1, OneCall, TwoCalls DEF ReaderGets
<1>4. QED
  BY <1>1, <1>2, <1>3, PTL DEF Spec

(* Under the same conditions every delta in a pack file was encoded over    *)
(* the bytes its base is restored to.                                       *)
THEOREM DeltasDecodeHolds ==
    ASSUME OrderedNames, SingleWriter, ~WriteCanFail, ~Evicts, MaxDepth # 0,
           PacksApart, PacksHaveBases, PacksDecode
    PROVE  Spec => []DeltasDecode
<1>1. Init => RestoreInv
  BY InitRestore
<1>2. RestoreInv /\ [Next]_vars => RestoreInv'
  BY StepRestore
<1>3. RestoreInv => DeltasDecode
  BY KeptMember DEF RestoreInv, Decodable, DeltasDecode
<1>4. QED
  BY <1>1, <1>2, <1>3, PTL DEF Spec

=============================================================================
