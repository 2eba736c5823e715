--------------------------- MODULE CloudStoreProofs ---------------------------
(***************************************************************************)
(* Proofs about CloudStore for any machines, chunks and bounds, with every *)
(* failure it models, as long as the machines take turns (OneAtATime) and  *)
(* _meta.index can be read when it exists (~ReadCanFail).                  *)
(*                                                                         *)
(* The argument: a pack is safe from being overwritten while its id is at  *)
(* most that of some pack _meta.index lists (or any, if there is no such   *)
(* object), because every process starts counting after that.  All that is *)
(* promised is in such packs, though not listed there itself.  As no step  *)
(* takes a chunk out of such a pack, the bucket is what ContentStore       *)
(* promises when no write fails (Implementation).                          *)
(*                                                                         *)
(* Reads: what a process can find rests on nothing but what it can find,   *)
(* without a circle, so it decodes (ReadYourWritesHolds).                  *)
(***************************************************************************)
EXTENDS CloudStoreInv, TLAPS

-----------------------------------------------------------------------------
(* Types.                                                                  *)

LEMMA HashesAdd ==
    ASSUME NEW es, NEW c, NEW base
    PROVE  Hashes(es \cup {<<c, base>>}) = Hashes(es) \cup {c}
<1>1. <<c, base>>[1] = c
      OBVIOUS
<1>2. \A x \in es \cup {<<c, base>>} : x[1] \in Hashes(es) \cup {c}
      BY <1>1 DEF Hashes
<1>3. \A d \in Hashes(es) \cup {c} : \E x \in es \cup {<<c, base>>} : x[1] = d
      BY <1>1 DEF Hashes
<1> QED
    BY <1>2, <1>3 DEF Hashes

LEMMA OpensType ==
    ASSUME TypeInv, NEW m \in Machine, NEW located \in SUBSET (Chunk \X PackId),
           NEW loaded \in [PackId -> SUBSET Entry], Opens(m, located, loaded)
    PROVE  TypeInv'
<1>1. PICK f \in [{l[1] : l \in located} -> {l[2] : l \in located}] :
          index' = [index EXCEPT ![m] = f]
      BY DEF Opens
<1>2. DOMAIN f \subseteq Chunk /\ \A c \in DOMAIN f : f[c] \in PackId
      OBVIOUS
<1>3. PICK n \in 0 .. MaxPack + 1 :
          n # 0 /\ nextId' = [nextId EXCEPT ![m] = n]
  <2>1. PICK n \in 0 .. MaxPack + 1 :
            /\ NextAfter(n, {l[2] : l \in located})
            /\ nextId' = [nextId EXCEPT ![m] = n]
        BY DEF Opens
  <2>2. n - 1 \in PackId \cup {0}
        BY <2>1 DEF NextAfter
  <2>3. n # 0
        BY <2>2, CloudBounds DEF PackId
  <2> QED
      BY <2>1, <2>3
<1>4. index' = [k \in Machine |-> index'[k]] /\ DOMAIN index' = Machine
      BY <1>1 DEF TypeInv
<1>5. \A k \in Machine : index'[k] = IF k = m THEN f ELSE index[k]
      BY <1>1 DEF TypeInv
<1>6. Hashes(pending[m]) = {}
      BY DEF TypeInv, Opens, Up, Hashes
<1> QED
    BY <1>2, <1>3, <1>4, <1>5, <1>6 DEF Opens, TypeInv, TypeOK, Up, history

(* The function that locates all that was located, and one more chunk.     *)
LEMMA IndexedType ==
    ASSUME TypeInv, NEW m \in Machine, NEW c \in Chunk, Indexed(m, c)
    PROVE  /\ index' = [k \in Machine |-> index'[k]]
           /\ \A k \in Machine \ {m} : index'[k] = index[k]
           /\ DOMAIN index'[m] = DOMAIN index[m] \cup {c}
           /\ \A d \in DOMAIN index'[m] : index'[m][d] \in PackId \cup {NoPack}
           /\ owed' = [owed EXCEPT ![m] = owed[m] \cup {c}]
<1> DEFINE f == [d \in DOMAIN index[m] \cup {c} |-> IF d = c THEN NoPack ELSE index[m][d]]
<1>1. index' = [index EXCEPT ![m] = f]
      BY DEF Indexed
<1>2. \A d \in DOMAIN f : f[d] \in PackId \cup {NoPack}
      BY DEF TypeInv, TypeOK
<1> HIDE DEF f
<1>3. index'[m] = f /\ \A k \in Machine \ {m} : index'[k] = index[k]
      BY <1>1 DEF TypeInv
<1> QED
    BY <1>1, <1>2, <1>3 DEF Indexed, TypeInv, f

LEMMA DrainType ==
    ASSUME TypeInv, NEW m \in Machine, NEW c \in Chunk \cup {NoChunk},
           NEW es \in SUBSET Entry, es # {}, pc[m] = "ready", Drain(m, c, es),
           UNCHANGED <<bucket, meta, cache, missed, packs, index, lost, own, promised, owed>>,
           bases' \in [Machine -> SUBSET Chunk]
    PROVE  TypeInv'
<1>1. nextId[m] \in PackId /\ nextId[m] + 1 \in 0 .. MaxPack + 1
      BY CloudBounds DEF Drain, TypeInv, TypeOK, Up, PackId
<1>2. nextId[m] + 1 # 0
      BY <1>1 DEF PackId
<1>3. Hashes({}) = {}
      BY DEF Hashes
<1> QED
    BY <1>1, <1>2, <1>3, CloudBounds DEF Drain, TypeInv, TypeOK, Up, PackId

LEMMA PutType ==
    ASSUME TypeInv, NEW m \in Machine, NEW c \in Chunk, NEW base \in Chunk \cup {NoChunk},
           Put(m, c, base)
    PROVE  TypeInv'
<1> DEFINE filled == pending[m] \cup {<<c, base>>}
<1>1. filled \in SUBSET Entry /\ filled # {}
  <2>1. pending[m] \in SUBSET Entry
        BY DEF TypeInv, TypeOK
  <2>2. <<c, base>> \in Entry
        BY DEF Entry
  <2> QED
      BY <2>1, <2>2
<1>2. bases' \in [Machine -> SUBSET Chunk]
      BY DEF Put, TypeInv, TypeOK
<1>3. CASE pending' = [pending EXCEPT ![m] = filled] /\ Indexed(m, c)
              /\ UNCHANGED <<nextId, batch, batchId, item, pc>>
  <2>1. Hashes(filled) = Hashes(pending[m]) \cup {c}
        BY HashesAdd
  <2>0. Indexed(m, c) /\ pending' = [pending EXCEPT ![m] = filled]
        BY <1>3
  <2> HIDE DEF filled
  <2>2. \A k \in Machine : Hashes(pending'[k]) \subseteq DOMAIN index'[k]
        BY <2>0, <2>1, IndexedType DEF TypeInv, TypeOK
  <2>3. index' = [k \in Machine |-> index'[k]]
        BY <2>0, IndexedType
  <2>4. owed' \in [Machine -> SUBSET Chunk]
    <3>1. owed' = [owed EXCEPT ![m] = owed[m] \cup {c}]
          BY <2>0, IndexedType
    <3>2. owed \in [Machine -> SUBSET Chunk] /\ owed[m] \cup {c} \in SUBSET Chunk
          BY DEF TypeInv, TypeOK
    <3> QED
        BY <3>1, <3>2
  <2>5. \A k \in Machine :
            /\ DOMAIN index'[k] \subseteq Chunk
            /\ \A d \in DOMAIN index'[k] : index'[k][d] \in PackId \cup {NoPack}
    <3>1. /\ \A k \in Machine \ {m} : index'[k] = index[k]
          /\ DOMAIN index'[m] = DOMAIN index[m] \cup {c}
          /\ \A d \in DOMAIN index'[m] : index'[m][d] \in PackId \cup {NoPack}
          BY <2>0, IndexedType
    <3>2. \A k \in Machine :
              /\ DOMAIN index[k] \subseteq Chunk
              /\ \A d \in DOMAIN index[k] : index[k][d] \in PackId \cup {NoPack}
          BY DEF TypeInv, TypeOK
    <3> QED
        BY <3>1, <3>2
  <2>6. /\ pending' \in [Machine -> SUBSET Entry]
        /\ \A k \in Machine : ~Up(k) => pending'[k] = {}
        BY <1>1, <1>3 DEF Put, TypeInv, TypeOK, Up
  <2>7. UNCHANGED <<bucket, meta, cache, missed, packs, own, promised, lost, nextId, batch,
                    batchId, item, pc>>
        BY <1>3 DEF Put, history
  <2>8. TypeOK'
        BY <1>2, <2>2, <2>4, <2>5, <2>6, <2>7 DEF TypeInv, TypeOK
  <2> QED
      BY <2>3, <2>6, <2>7, <2>8 DEF TypeInv, Up
<1>4. CASE Drain(m, c, filled) /\ UNCHANGED <<index, owed>>
  <2> HIDE DEF filled
  <2>1. /\ pc[m] = "ready"
        /\ UNCHANGED <<bucket, meta, cache, missed, packs, index, lost, own, promised, owed>>
        BY <1>4 DEF Put, history
  <2> QED
      BY <1>1, <1>2, <1>4, <2>1, DrainType
<1> QED
    BY <1>3, <1>4 DEF Put

LEMMA FlushReturnsType ==
    ASSUME TypeInv, NEW m \in Machine, FlushReturns(m)
    PROVE  /\ own' \in [Machine -> SUBSET promised'] /\ promised' \subseteq Chunk
           /\ owed' \in [Machine -> SUBSET Chunk] /\ bases' \in [Machine -> SUBSET Chunk]
<1>1. /\ own \in [Machine -> SUBSET promised] /\ promised \subseteq Chunk
      /\ owed \in [Machine -> SUBSET Chunk] /\ bases \in [Machine -> SUBSET Chunk]
      BY DEF TypeInv, TypeOK
<1> QED
    BY <1>1 DEF FlushReturns

LEMMA FlushType ==
    ASSUME TypeInv, NEW m \in Machine, Flush(m)
    PROVE  TypeInv'
<1>1. CASE pending[m] = {} /\ FlushReturns(m) /\ UNCHANGED <<nextId, pending, batch, batchId, item, pc>>
      BY <1>1, FlushReturnsType DEF Flush, TypeInv, TypeOK, Up
<1>2. CASE /\ pending[m] # {} /\ Drain(m, NoChunk, pending[m])
           /\ UNCHANGED <<owed, bases, own, promised>>
  <2>1. bases' \in [Machine -> SUBSET Chunk] /\ pending[m] \in SUBSET Entry
        BY <1>2 DEF TypeInv, TypeOK
  <2> QED
      BY <1>2, <2>1, DrainType DEF Flush
<1> QED
    BY <1>1, <1>2 DEF Flush

LEMMA BatchType ==
    ASSUME TypeInv, NEW m \in Machine, Busy(m)
    PROVE  /\ batchId[m] \in PackId /\ batch[m] \in SUBSET Entry /\ batch[m] # {}
           /\ Loaded(m) \in [PackId -> SUBSET Entry]
           /\ MetaOf(Loaded(m)) \subseteq Chunk \X PackId
<1>1. batchId[m] \in PackId /\ batch[m] \in SUBSET Entry /\ batch[m] # {}
      BY DEF TypeInv, TypeOK, Busy
<1>2. Loaded(m) \in [PackId -> SUBSET Entry]
      BY <1>1 DEF Loaded, TypeInv, TypeOK
<1>3. \A id \in PackId : \A e \in Loaded(m)[id] : e[1] \in Chunk
      BY <1>2 DEF Entry
<1> QED
    BY <1>1, <1>2, <1>3 DEF MetaOf, Contents, Hashes

(* What the attempt to write a cache file leaves.                          *)
LEMMA WrittenFile ==
    ASSUME TypeInv, NEW m \in Machine, NEW id \in PackId, NEW es \in SUBSET (Entry \cup {Torn}),
           WriteCached(m, id, es) \/ CacheHolds(m, id, es)
    PROVE  /\ cache' \in [Machine -> [PackId -> SUBSET (Entry \cup {Torn})]]
           /\ missed' \in [Machine -> SUBSET PackId]
           /\ \A k \in Machine : \A i \in PackId : k # m \/ i # id =>
                  cache'[k][i] = cache[k][i] /\ (i \in missed[k] => i \in missed'[k])
           /\ \/ cache'[m][id] \in {es, {Torn}}
              \/ cache'[m][id] = cache[m][id] /\ (cache[m][id] # {} => id \in missed'[m])
           /\ CacheHolds(m, id, es) => cache'[m][id] = es
<1>1. /\ cache \in [Machine -> [PackId -> SUBSET (Entry \cup {Torn})]]
      /\ missed \in [Machine -> SUBSET PackId]
      BY DEF TypeInv, TypeOK
<1>2. ASSUME NEW xs \in SUBSET (Entry \cup {Torn}), CacheHolds(m, id, xs)
      PROVE  /\ cache' \in [Machine -> [PackId -> SUBSET (Entry \cup {Torn})]]
             /\ missed' \in [Machine -> SUBSET PackId] /\ cache'[m][id] = xs
             /\ \A k \in Machine : \A i \in PackId : k # m \/ i # id =>
                    cache'[k][i] = cache[k][i] /\ (i \in missed[k] => i \in missed'[k])
  <2>1. [cache[m] EXCEPT ![id] = xs] \in [PackId -> SUBSET (Entry \cup {Torn})]
        BY <1>1
  <2>2. /\ cache' = [cache EXCEPT ![m] = [cache[m] EXCEPT ![id] = xs]]
        /\ missed' = [missed EXCEPT ![m] = missed[m] \ {id}]
        BY <1>2 DEF CacheHolds
  <2> QED
      BY <1>1, <2>1, <2>2
<1>3. CASE CacheHolds(m, id, es)
      BY <1>2, <1>3
<1>4. CASE ~CacheHolds(m, id, es) /\ CacheHolds(m, id, {Torn})
      BY <1>2, <1>4
<1>5. CASE /\ ~CacheHolds(m, id, es)
           /\ missed' = [missed EXCEPT ![m] = IF cache[m][id] # {} THEN @ \cup {id} ELSE @]
           /\ UNCHANGED cache
      BY <1>1, <1>5
<1> QED
    BY <1>3, <1>4, <1>5 DEF WriteCached

LEMMA UploadType ==
    ASSUME TypeInv, NEW m \in Machine, Upload(m) \/ UploadFails(m)
    PROVE  TypeInv'
<1>1. batchId[m] \in PackId /\ batch[m] \in SUBSET Entry /\ batch[m] # {}
      BY BatchType DEF Upload, UploadFails, Busy
<1>2. bucket' \in [PackId -> SUBSET Entry]
      BY <1>1 DEF Upload, UploadFails, TypeInv, TypeOK
<1>3. /\ cache' \in [Machine -> [PackId -> SUBSET (Entry \cup {Torn})]]
      /\ missed' \in [Machine -> SUBSET PackId]
  <2>1. CASE UNCHANGED <<cache, missed>>
        BY <2>1 DEF TypeInv, TypeOK
  <2>2. CASE WriteCached(m, batchId[m], batch[m])
        BY <1>1, <2>2, WrittenFile
  <2> QED
      BY <2>1, <2>2 DEF Upload, UploadFails
<1>4. CASE Upload(m)
      BY <1>1, <1>2, <1>3, <1>4 DEF Upload, memory, history, TypeInv, TypeOK, Up
<1>5. CASE UploadFails(m)
  <2>1. lost' \subseteq Chunk
    <3>1. \A e \in batch[m] : e[1] \in Chunk
          BY <1>1 DEF Entry
    <3>2. lost' = lost \cup Hashes(batch[m]) /\ lost \subseteq Chunk
          BY <1>5 DEF UploadFails, Fails, TypeInv, TypeOK
    <3> QED
        BY <3>1, <3>2 DEF Hashes
  <2> QED
      BY <1>1, <1>2, <1>3, <1>5, <2>1 DEF UploadFails, Fails, TypeInv, TypeOK, Up
<1> QED
    BY <1>4, <1>5

LEMMA InstallType ==
    ASSUME TypeInv, NEW m \in Machine, Install(m) \/ InstallFails(m)
    PROVE  TypeInv'
<1>1. Busy(m)
      BY DEF Install, InstallFails, Busy
<1>2. packs' \in [Machine -> [PackId -> SUBSET Entry]] /\ meta' \subseteq Chunk \X PackId
  <2>1. packs' = [packs EXCEPT ![m] = Loaded(m)] /\ meta' \in {meta, MetaOf(Loaded(m))}
        BY DEF Install, InstallFails
  <2> QED
      BY <1>1, <2>1, BatchType DEF TypeInv, TypeOK
<1>3. CASE Install(m)
  <2>1. UNCHANGED <<bucket, cache, missed, pending, nextId, batchId, lost>>
        BY <1>3 DEF Install
  <2>2. /\ batch' \in [Machine -> SUBSET Entry] /\ item' \in [Machine -> Chunk \cup {NoChunk}]
        /\ pc' = [pc EXCEPT ![m] = "ready"] /\ pc' \in [Machine -> {"down", "ready", "upload", "install"}]
        /\ \A k \in Machine : pc'[k] \in {"upload", "install"} => batch'[k] # {} /\ batchId[k] \in PackId
        BY <1>3 DEF Install, TypeInv, TypeOK
  <2>3. CASE item[m] = NoChunk /\ FlushReturns(m) /\ UNCHANGED index
        BY <1>2, <2>1, <2>2, <2>3, FlushReturnsType, <1>1 DEF TypeInv, TypeOK, Up, Busy
  <2>4. CASE item[m] # NoChunk /\ Indexed(m, item[m]) /\ UNCHANGED <<bases, own, promised>>
    <3>1. item[m] \in Chunk
          BY <2>4 DEF TypeInv, TypeOK
    <3>2. /\ index' = [k \in Machine |-> index'[k]]
          /\ \A k \in Machine \ {m} : index'[k] = index[k]
          /\ DOMAIN index'[m] = DOMAIN index[m] \cup {item[m]}
          /\ \A d \in DOMAIN index'[m] : index'[m][d] \in PackId \cup {NoPack}
          /\ owed' = [owed EXCEPT ![m] = owed[m] \cup {item[m]}]
          BY <2>4, <3>1, IndexedType
    <3>3. owed' \in [Machine -> SUBSET Chunk]
      <4>1. owed \in [Machine -> SUBSET Chunk] /\ owed[m] \cup {item[m]} \in SUBSET Chunk
            BY <3>1 DEF TypeInv, TypeOK
      <4> QED
          BY <3>2, <4>1
    <3>4. \A k \in Machine :
              /\ DOMAIN index'[k] \subseteq Chunk
              /\ \A d \in DOMAIN index'[k] : index'[k][d] \in PackId \cup {NoPack}
              /\ Hashes(pending[k]) \subseteq DOMAIN index'[k]
      <4>1. \A k \in Machine :
                /\ DOMAIN index[k] \subseteq Chunk
                /\ \A d \in DOMAIN index[k] : index[k][d] \in PackId \cup {NoPack}
                /\ Hashes(pending[k]) \subseteq DOMAIN index[k]
            BY DEF TypeInv, TypeOK
      <4> QED
          BY <3>1, <3>2, <4>1
    <3>5. TypeOK'
          BY <1>2, <2>1, <2>2, <2>4, <3>3, <3>4 DEF TypeInv, TypeOK
    <3> QED
        BY <1>1, <2>1, <2>2, <3>2, <3>5 DEF TypeInv, Up, Busy
  <2> QED
      BY <1>3, <2>3, <2>4 DEF Install
<1>4. CASE InstallFails(m)
  <2>1. lost' \subseteq Chunk
    <3>1. \A e \in batch[m] : e[1] \in Chunk
          BY <1>1, BatchType DEF Entry
    <3>2. lost' = lost \cup Hashes(batch[m]) /\ lost \subseteq Chunk
          BY <1>4 DEF InstallFails, Fails, TypeInv, TypeOK
    <3> QED
        BY <3>1, <3>2 DEF Hashes
  <2> QED
      BY <1>1, <1>2, <1>4, <2>1 DEF InstallFails, Fails, TypeInv, TypeOK, Up, Busy
<1> QED
    BY <1>3, <1>4

LEMMA CacheType ==
    ASSUME TypeInv, NEW m \in Machine, CacheStep(m)
    PROVE  /\ TypeInv'
           /\ UNCHANGED <<bucket, meta, memory, pc, history>>
<1>1. PICK id \in PackId : CachePack(m, id) \/ EvictCached(m, id)
      BY DEF CacheStep
<1>2. UNCHANGED <<bucket, meta, memory, pc, history>>
      BY <1>1 DEF CachePack, EvictCached
<1>3. bucket[id] \in SUBSET (Entry \cup {Torn})
      BY DEF TypeInv, TypeOK
<1>4. /\ cache' \in [Machine -> [PackId -> SUBSET (Entry \cup {Torn})]]
      /\ missed' \in [Machine -> SUBSET PackId]
      BY <1>1, <1>3, WrittenFile DEF CachePack, EvictCached
<1> QED
    BY <1>2, <1>4 DEF memory, history, TypeInv, TypeOK, Up

LEMMA StopType ==
    ASSUME TypeInv, NEW m \in Machine, StopStep(m)
    PROVE  /\ TypeInv' /\ Stops(m)
           /\ \/ UNCHANGED bucket
              \/ pc[m] = "upload" /\ bucket' = [bucket EXCEPT ![batchId[m]] = batch[m]]
<1>1. /\ Stops(m)
      /\ \/ UNCHANGED bucket
         \/ pc[m] = "upload" /\ bucket' = [bucket EXCEPT ![batchId[m]] = batch[m]]
      BY DEF StopStep, Stop, StopInUpload, StopInRead
<1>2. bucket' \in [PackId -> SUBSET Entry]
      BY <1>1, BatchType DEF Busy, TypeInv, TypeOK
<1>3. /\ cache' \in [Machine -> [PackId -> SUBSET (Entry \cup {Torn})]]
      /\ missed' \in [Machine -> SUBSET PackId]
  <2>1. CASE UNCHANGED <<cache, missed>>
        BY <2>1 DEF TypeInv, TypeOK
  <2>2. CASE \E id \in PackId : CacheHolds(m, id, {Torn})
        BY <2>2, WrittenFile
  <2> QED
      BY <2>1, <2>2, BatchType DEF StopStep, Stop, StopInUpload, StopInRead, Busy
<1>4. Hashes({}) = {} /\ DOMAIN <<>> = {}
      BY DEF Hashes
<1>5. UNCHANGED <<meta, promised, lost>>
      BY <1>1 DEF Stops, history
<1>6. /\ packs' \in [Machine -> [PackId -> SUBSET Entry]]
      /\ pending' \in [Machine -> SUBSET Entry] /\ batch' \in [Machine -> SUBSET Entry]
      /\ nextId' \in [Machine -> 0 .. MaxPack + 1] /\ batchId' \in [Machine -> 0 .. MaxPack + 1]
      /\ item' \in [Machine -> Chunk \cup {NoChunk}]
      /\ pc' \in [Machine -> {"down", "ready", "upload", "install"}]
      BY <1>1, CloudBounds DEF Stops, TypeInv, TypeOK, NoPacks
<1>7. /\ owed' \in [Machine -> SUBSET Chunk] /\ bases' \in [Machine -> SUBSET Chunk]
      /\ own' \in [Machine -> SUBSET promised]
      BY <1>1 DEF Stops, TypeInv, TypeOK
<1>8. \A k \in Machine :
          /\ DOMAIN index'[k] \subseteq Chunk
          /\ \A c \in DOMAIN index'[k] : index'[k][c] \in PackId \cup {NoPack}
          /\ Hashes(pending'[k]) \subseteq DOMAIN index'[k]
          /\ pc'[k] \in {"upload", "install"} => batch'[k] # {} /\ batchId'[k] \in PackId
  <2> TAKE k \in Machine
  <2>1. CASE k = m
    <3>1. index'[m] = <<>> /\ pending'[m] = {} /\ pc'[m] = "down"
          BY <1>1 DEF Stops, TypeInv, TypeOK
    <3> QED
        BY <1>4, <2>1, <3>1
  <2>2. CASE k # m
    <3>1. /\ index'[k] = index[k] /\ pending'[k] = pending[k] /\ pc'[k] = pc[k]
          /\ batch'[k] = batch[k] /\ batchId'[k] = batchId[k]
          BY <1>1, <2>2 DEF Stops, TypeInv, TypeOK
    <3> QED
        BY <3>1 DEF TypeInv, TypeOK
  <2> QED
      BY <2>1, <2>2
<1>9. TypeOK'
      BY <1>2, <1>3, <1>5, <1>6, <1>7, <1>8 DEF TypeInv, TypeOK
<1> QED
    BY <1>1, <1>9 DEF Stops, TypeInv, TypeOK, Up

(* The first index of a process, and what it loads.                        *)
LEMMA OpenType ==
    ASSUME TypeInv, ~ReadCanFail, NEW m \in Machine, OpenFromMeta(m) \/ OpenFromPacks(m)
    PROVE  /\ TypeInv'
           /\ \/ meta # {} /\ Opens(m, meta, NoPacks)
              \/ meta = {} /\ Opens(m, Contents(bucket), bucket)
<1>1. \/ meta # {} /\ Opens(m, meta, NoPacks)
      \/ meta = {} /\ Opens(m, Contents(bucket), bucket)
      BY DEF OpenFromMeta, OpenFromPacks
<1>2. meta \in SUBSET (Chunk \X PackId) /\ bucket \in [PackId -> SUBSET Entry]
      BY DEF TypeInv, TypeOK
<1>3. NoPacks \in [PackId -> SUBSET Entry]
      BY DEF NoPacks
<1>4. Contents(bucket) \in SUBSET (Chunk \X PackId)
  <2>1. \A id \in PackId : \A e \in bucket[id] : e[1] \in Chunk
        BY <1>2 DEF Entry
  <2> QED
      BY <2>1 DEF Contents, Hashes
<1> QED
    BY <1>1, <1>2, <1>3, <1>4, OpensType

LEMMA SkipType ==
    ASSUME TypeInv, NEW m \in Machine, NEW c \in Chunk, Skip(m, c)
    PROVE  TypeInv'
<1>1. owed' \in [Machine -> SUBSET Chunk]
  <2>1. owed \in [Machine -> SUBSET Chunk] /\ owed[m] \cup {c} \in SUBSET Chunk
        BY DEF TypeInv, TypeOK
  <2> QED
      BY <2>1 DEF Skip
<1> QED
    BY <1>1 DEF Skip, history, TypeInv, TypeOK, Up

-----------------------------------------------------------------------------
(* What is taken stays.                                                    *)

Kept == \A id \in PackId : Taken(id) => Taken(id)' /\ bucket'[id] = bucket[id]

LEMMA KeptIfUnchanged ==
    ASSUME UNCHANGED <<bucket, meta>>
    PROVE  Kept /\ \A id \in PackId : Taken(id)' <=> Taken(id)
BY DEF Kept, Taken

LEMMA KeptSafe ==
    ASSUME Kept
    PROVE  /\ Durable \subseteq Durable'
           /\ \A c : SafeInFull(c) => SafeInFull(c)'
           /\ \A es : HasBases(es) => HasBases(es)'
<1>1. Durable \subseteq Durable'
      BY DEF Kept, Durable
<1>2. \A c : SafeInFull(c) => SafeInFull(c)'
      BY DEF Kept, SafeInFull
<1>3. \A es : HasBases(es) => HasBases(es)'
      BY <1>2 DEF HasBases
<1> QED
    BY <1>1, <1>2, <1>3

(* Taken packs, whoever is up, have ids below those it may write.          *)
LEMMA TakenDurable ==
    ASSUME NEW id \in PackId, Taken(id), NEW c \in Hashes(bucket[id])
    PROVE  c \in Durable
BY DEF Durable

LEMMA InContents ==
    ASSUME NEW p, NEW id \in PackId, NEW e \in p[id]
    PROVE  <<e[1], id>> \in Contents(p)
<1>1. e[1] \in Hashes(p[id])
      BY DEF Hashes
<1> QED
    BY <1>1 DEF Contents

LEMMA OpenKeeps ==
    ASSUME IInv, OneAtATime, ~ReadCanFail, NEW m \in Machine,
           OpenFromMeta(m) \/ OpenFromPacks(m)
    PROVE  IInv'
<1>1. TypeInv' /\ \/ meta # {} /\ Opens(m, meta, NoPacks)
                  \/ meta = {} /\ Opens(m, Contents(bucket), bucket)
      BY OpenType DEF IInv
<1>2. PICK located, loaded :
          /\ Opens(m, located, loaded)
          /\ \/ meta # {} /\ located = meta /\ loaded = NoPacks
             \/ meta = {} /\ located = Contents(bucket) /\ loaded = bucket
      BY <1>1
<1>3. \A k \in Machine : ~Up(k)
      BY <1>2 DEF Opens, Up
<1>4. /\ UNCHANGED <<bucket, meta, pending, item, batch, batchId, owed, bases, own, promised, lost>>
      /\ packs' = [packs EXCEPT ![m] = loaded]
      /\ pc' = [pc EXCEPT ![m] = "ready"]
      BY <1>2 DEF Opens, history
<1>5. /\ pc'[m] = "ready" /\ packs'[m] = loaded
      /\ \A k \in Machine \ {m} : pc'[k] = pc[k] /\ packs'[k] = packs[k] /\ ~Up(k)' /\ ~Busy(k)'
      /\ Up(m)' /\ ~Busy(m)'
      BY <1>3, <1>4 DEF IInv, TypeInv, TypeOK, Up, Busy
<1>6. /\ \A l \in located : l[2] < nextId'[m]
      /\ nextId'[m] \in Nat
      /\ \A k \in Machine \ {m} : nextId'[k] = nextId[k]
  <2>1. PICK n \in 0 .. MaxPack + 1 :
            /\ NextAfter(n, {l[2] : l \in located})
            /\ nextId' = [nextId EXCEPT ![m] = n]
        BY <1>2 DEF Opens
  <2> QED
      BY <2>1 DEF NextAfter, IInv, TypeInv, TypeOK
<1>7. /\ DOMAIN index'[m] = {l[1] : l \in located}
      /\ \A k \in Machine \ {m} : index'[k] = index[k]
      BY <1>2 DEF Opens, IInv, TypeInv
<1>8. \A l \in located : l[2] \in PackId /\ Taken(l[2]) /\ l[1] \in Durable
  <2>1. CASE meta # {} /\ located = meta
    <3>1. \A l \in meta : l[2] \in PackId /\ l[1] \in Hashes(bucket[l[2]])
          BY DEF IInv, MetaPointsAtPacks, TypeInv, TypeOK
    <3>2. \A l \in meta : bucket[l[2]] # {} /\ l[2] <= l[2]
          BY <3>1 DEF Hashes, PackId
    <3>3. \A l \in meta : Taken(l[2])
          BY <3>2 DEF Taken
    <3> QED
        BY <2>1, <3>1, <3>3, TakenDurable
  <2>2. CASE meta = {} /\ located = Contents(bucket)
    <3>1. \A l \in located : \E id \in PackId : l[2] = id /\ l[1] \in Hashes(bucket[id])
          BY <2>2 DEF Contents
    <3>2. \A l \in located : bucket[l[2]] # {}
          BY <3>1 DEF Hashes
    <3>3. \A l \in located : Taken(l[2])
          BY <2>2, <3>2 DEF Taken
    <3> QED
        BY <3>1, <3>3, TakenDurable
  <2> QED
      BY <1>2, <2>1, <2>2
<1>9. \A id \in PackId : Taken(id) => id < nextId'[m]
  <2> SUFFICES ASSUME NEW id \in PackId, Taken(id) PROVE id < nextId'[m]
      OBVIOUS
  <2>1. CASE meta # {} /\ located = meta
    <3>1. PICK l \in meta : id <= l[2]
          BY <2>1 DEF Taken
    <3>2. l[2] < nextId'[m] /\ l[2] \in PackId
          BY <1>6, <1>8, <2>1
    <3> QED
        BY <1>6, <3>1, <3>2 DEF PackId
  <2>2. CASE meta = {} /\ located = Contents(bucket)
    <3>1. PICK e \in bucket[id] : TRUE
          BY DEF Taken
    <3>2. <<e[1], id>> \in located
          BY <2>2, InContents
    <3> QED
        BY <1>6, <3>2
  <2> QED
      BY <1>2, <2>1, <2>2
<1>10. Kept /\ \A id \in PackId : Taken(id)' <=> Taken(id)
       BY <1>4, KeptIfUnchanged
<1>11. OneUp'
       BY <1>5 DEF OneUp
<1>12. Shape'
  <2>1. \A k \in Machine : batch'[k] = {} /\ owed'[k] = {}
        BY <1>3, <1>4 DEF IInv, Shape, Busy, Up
  <2>2. \A k \in Machine \ {m} : packs'[k] = NoPacks
        BY <1>3, <1>5 DEF IInv, Shape
  <2> QED
      BY <1>5, <2>1, <2>2 DEF Shape, Busy, Up
<1>13. Behind'
  <2>1. Limit(m)' = nextId'[m]
        BY <1>5 DEF Limit
  <2>2. \A k \in Machine \ {m} : packs'[k] = NoPacks
        BY <1>3, <1>5 DEF IInv, Shape
  <2>3. \A id \in PackId : packs'[m][id] # {} => Taken(id)
        BY <1>2, <1>5 DEF NoPacks, Taken
  <2> QED
      BY <1>5, <1>9, <1>10, <2>1, <2>2, <2>3 DEF Behind, NoPacks
<1>14. MetaPointsAtPacks'
       BY <1>4 DEF IInv, MetaPointsAtPacks
<1>15. PacksInBucket'
       BY <1>2, <1>4, <1>5 DEF IInv, PacksInBucket, NoPacks
<1>16. Covered'
  <2>1. \A k \in Machine \ {m} :
            DOMAIN index'[k] \subseteq Hashes(pending'[k]) \cup Hashes(batch'[k]) \cup Durable' \cup lost'
        BY <1>4, <1>7, <1>10, KeptSafe DEF IInv, Covered
  <2>2. DOMAIN index'[m] \subseteq Durable
        BY <1>7, <1>8
  <2> QED
      BY <1>10, <2>1, <2>2, KeptSafe DEF Covered
<1>17. PromisedDurable'
       BY <1>4, <1>10, KeptSafe DEF IInv, PromisedDurable
<1>18. BasesInFull'
       BY <1>4, <1>10, KeptSafe DEF IInv, BasesInFull, HasBases
<1> QED
    BY <1>1, <1>11, <1>12, <1>13, <1>14, <1>15, <1>16, <1>17, <1>18 DEF IInv

LEMMA SkipKeeps ==
    ASSUME IInv, NEW m \in Machine, NEW c \in Chunk, Skip(m, c)
    PROVE  IInv'
<1>1. TypeInv'
      BY SkipType DEF IInv
<1>2. /\ UNCHANGED <<bucket, meta, packs, pending, nextId, index, pc, item, batch, batchId, bases,
                     promised, lost>>
      /\ \A k \in Machine : owed'[k] \subseteq owed[k] \cup (DOMAIN index[k] \cap IF k = m THEN {c} ELSE {})
      /\ \A k \in Machine \ {m} : owed'[k] = owed[k]
      /\ Up(m)
      BY DEF Skip, history, IInv, TypeInv, TypeOK, Up
<1>3. Kept /\ \A id \in PackId : Taken(id)' <=> Taken(id)
      BY <1>2, KeptIfUnchanged
<1>4. \A k \in Machine : (Up(k)' <=> Up(k)) /\ (Busy(k)' <=> Busy(k)) /\ Limit(k)' = Limit(k)
      BY <1>2 DEF Up, Busy, Limit
<1>5. Shape'
      BY <1>2, <1>4 DEF IInv, Shape
<1>6. OneUp' /\ Behind' /\ MetaPointsAtPacks' /\ PacksInBucket'
      BY <1>2, <1>3, <1>4 DEF IInv, OneUp, Behind, MetaPointsAtPacks, PacksInBucket
<1>7. Covered' /\ PromisedDurable'
      BY <1>2, <1>3, KeptSafe DEF IInv, Covered, PromisedDurable
<1>8. BasesInFull'
      BY <1>2, <1>3, KeptSafe DEF IInv, BasesInFull, HasBases
<1> QED
    BY <1>1, <1>5, <1>6, <1>7, <1>8 DEF IInv

LEMMA DrainKeeps ==
    ASSUME IInv, TypeInv', NEW m \in Machine, NEW c \in Chunk \cup {NoChunk},
           NEW es \in SUBSET Entry, pc[m] = "ready", Drain(m, c, es),
           UNCHANGED <<bucket, meta, packs, index, owed, promised, lost>>,
           pending[m] \subseteq es, c # NoChunk => c \in Hashes(es), HasBases(es),
           \A b \in bases'[m] : <<b, NoChunk>> \in es \/ SafeInFull(b),
           \A k \in Machine \ {m} : bases'[k] = bases[k]
    PROVE  IInv'
<1>1. /\ pc'[m] = "upload" /\ batch'[m] = es /\ pending'[m] = {} /\ item'[m] = c
      /\ batchId'[m] = nextId[m] /\ nextId'[m] = nextId[m] + 1
      /\ \A k \in Machine \ {m} :
            /\ pc'[k] = pc[k] /\ batch'[k] = batch[k] /\ pending'[k] = pending[k]
            /\ item'[k] = item[k] /\ batchId'[k] = batchId[k] /\ nextId'[k] = nextId[k]
      BY DEF Drain, IInv, TypeInv, TypeOK
<1>2. Up(m) /\ Up(m)' /\ Busy(m)' /\ ~Busy(m) /\ \A k \in Machine : Up(k)' <=> Up(k)
      BY <1>1 DEF Up, Busy
<1>3. Kept /\ \A id \in PackId : Taken(id)' <=> Taken(id)
      BY KeptIfUnchanged
<1>4. \A k \in Machine : Limit(k)' = Limit(k)
      BY <1>1 DEF Limit
<1>5. OneUp' /\ Behind' /\ MetaPointsAtPacks' /\ PacksInBucket'
      BY <1>2, <1>3, <1>4 DEF IInv, OneUp, Behind, MetaPointsAtPacks, PacksInBucket
<1>6. Shape'
  <2>1. \A k \in Machine \ {m} : Busy(k)' <=> Busy(k)
        BY <1>1 DEF Busy
  <2> QED
      BY <1>1, <1>2, <2>1 DEF IInv, Shape
<1>7. Covered' /\ PromisedDurable'
  <2>1. Hashes(pending[m]) \subseteq Hashes(es) /\ batch[m] = {}
        BY <1>2 DEF Hashes, IInv, Shape
  <2>2. DOMAIN index[m] \subseteq Hashes(es) \cup Durable \cup lost
    <3>1. DOMAIN index[m] \subseteq Hashes(pending[m]) \cup Hashes(batch[m]) \cup Durable \cup lost
          BY DEF IInv, Covered
    <3>2. Hashes(batch[m]) = {}
          BY <2>1 DEF Hashes
    <3> QED
        BY <2>1, <3>1, <3>2
  <2>3. DOMAIN index'[m] \subseteq Hashes(pending'[m]) \cup Hashes(batch'[m]) \cup Durable' \cup lost'
        BY <1>1, <1>3, <2>2, KeptSafe
  <2> QED
      BY <1>1, <1>3, <2>3, KeptSafe DEF IInv, Covered, PromisedDurable
<1>8. BasesInFull'
  <2>1. HasBases(pending[m])' /\ HasBases(batch[m])'
        BY <1>1, <1>3, KeptSafe DEF HasBases
  <2>2. \A b \in bases'[m] : <<b, NoChunk>> \in pending'[m] \cup batch'[m] \/ SafeInFull(b)'
        BY <1>1, <1>3, KeptSafe
  <2>3. \A k \in Machine \ {m} :
            /\ HasBases(pending[k])' /\ HasBases(batch[k])'
            /\ \A b \in bases'[k] : <<b, NoChunk>> \in pending'[k] \cup batch'[k] \/ SafeInFull(b)'
        BY <1>1, <1>3, KeptSafe DEF IInv, BasesInFull, HasBases
  <2>4. \A id \in PackId : \A e \in bucket'[id] : e[2] # NoChunk =>
            \/ <<e[2], NoChunk>> \in bucket'[id]
            \/ \E i \in PackId : i < id /\ Taken(i)' /\ <<e[2], NoChunk>> \in bucket'[i]
        BY <1>3 DEF IInv, BasesInFull
  <2> QED
      BY <2>1, <2>2, <2>3, <2>4 DEF BasesInFull
<1> QED
    BY <1>5, <1>6, <1>7, <1>8 DEF IInv

LEMMA PutKeeps ==
    ASSUME IInv, NEW m \in Machine, NEW c \in Chunk, NEW base \in Chunk \cup {NoChunk},
           Put(m, c, base)
    PROVE  IInv'
<1> DEFINE filled == pending[m] \cup {<<c, base>>}
<1>1. TypeInv'
      BY PutType DEF IInv
<1>2. filled \in SUBSET Entry
  <2>1. pending[m] \in SUBSET Entry /\ <<c, base>> \in Entry
        BY DEF IInv, TypeInv, TypeOK, Entry
  <2> QED
      BY <2>1
<1>3. Hashes(filled) = Hashes(pending[m]) \cup {c}
      BY HashesAdd
<1>4. /\ pc[m] = "ready" /\ base \in {NoChunk} \cup bases[m]
      /\ bases'[m] = IF base = NoChunk THEN bases[m] \cup {c} ELSE bases[m]
      /\ \A k \in Machine \ {m} : bases'[k] = bases[k]
      /\ UNCHANGED <<bucket, meta, packs, promised, lost>>
      BY DEF Put, history, IInv, TypeInv, TypeOK
<1>5. ~Busy(m) /\ batch[m] = {} /\ Up(m)
      BY <1>4 DEF Busy, IInv, Shape, Up
<1>6. \A b \in bases[m] : <<b, NoChunk>> \in pending[m] \/ SafeInFull(b)
      BY <1>5 DEF IInv, BasesInFull
<1>7. HasBases(filled)
  <2>1. HasBases(pending[m])
        BY DEF IInv, BasesInFull
  <2>2. base # NoChunk => <<base, NoChunk>> \in filled \/ SafeInFull(base)
        BY <1>4, <1>6
  <2>3. <<c, base>>[2] = base
        OBVIOUS
  <2> QED
      BY <2>1, <2>2, <2>3 DEF HasBases
<1>8. \A b \in bases'[m] : <<b, NoChunk>> \in filled \/ SafeInFull(b)
      BY <1>4, <1>6
<1>9. CASE Drain(m, c, filled) /\ UNCHANGED <<index, owed>>
  <2>1. pending[m] \subseteq filled /\ c \in Hashes(filled)
        BY <1>3
  <2> HIDE DEF filled
  <2> QED
      BY <1>1, <1>2, <1>4, <1>7, <1>8, <1>9, <2>1, DrainKeeps
<1>10. CASE /\ pending' = [pending EXCEPT ![m] = filled] /\ Indexed(m, c)
            /\ UNCHANGED <<nextId, batch, batchId, item, pc>>
  <2>1. /\ pending'[m] = filled
        /\ \A k \in Machine \ {m} : pending'[k] = pending[k]
        BY <1>10 DEF IInv, TypeInv, TypeOK
  <2>2. /\ DOMAIN index'[m] = DOMAIN index[m] \cup {c}
        /\ \A k \in Machine \ {m} : index'[k] = index[k]
        /\ owed' = [owed EXCEPT ![m] = owed[m] \cup {c}]
        BY <1>10, IndexedType DEF IInv
  <2>3. /\ owed'[m] = owed[m] \cup {c}
        /\ \A k \in Machine \ {m} : owed'[k] = owed[k]
        BY <2>2 DEF IInv, TypeInv, TypeOK
  <2>4. Kept /\ \A id \in PackId : Taken(id)' <=> Taken(id)
        BY <1>4, KeptIfUnchanged
  <2>5. \A k \in Machine : (Up(k)' <=> Up(k)) /\ (Busy(k)' <=> Busy(k)) /\ Limit(k)' = Limit(k)
        BY <1>10 DEF Up, Busy, Limit
  <2>6. OneUp' /\ Behind' /\ MetaPointsAtPacks' /\ PacksInBucket'
        BY <1>4, <2>4, <2>5 DEF IInv, OneUp, Behind, MetaPointsAtPacks, PacksInBucket
  <2>7. Shape'
        BY <1>4, <1>5, <1>10, <2>1, <2>2, <2>3, <2>5 DEF IInv, Shape
  <2>8. Covered' /\ PromisedDurable'
    <3>1. DOMAIN index'[m] \subseteq Hashes(pending'[m]) \cup Hashes(batch'[m]) \cup Durable' \cup lost'
          BY <1>3, <1>4, <1>10, <2>1, <2>2, <2>4, KeptSafe DEF IInv, Covered
    <3> QED
        BY <1>4, <1>10, <2>1, <2>2, <2>4, <3>1, KeptSafe DEF IInv, Covered, PromisedDurable
  <2>9. BasesInFull'
    <3>1. /\ HasBases(pending[m])' /\ HasBases(batch[m])'
          /\ \A b \in bases'[m] : <<b, NoChunk>> \in pending'[m] \cup batch'[m] \/ SafeInFull(b)'
          BY <1>5, <1>7, <1>8, <1>10, <2>1, <2>4, KeptSafe DEF HasBases
    <3>2. \A k \in Machine \ {m} :
              /\ HasBases(pending[k])' /\ HasBases(batch[k])'
              /\ \A b \in bases'[k] : <<b, NoChunk>> \in pending'[k] \cup batch'[k] \/ SafeInFull(b)'
          BY <1>4, <1>10, <2>1, <2>4, KeptSafe DEF IInv, BasesInFull, HasBases
    <3>3. \A id \in PackId : \A e \in bucket'[id] : e[2] # NoChunk =>
              \/ <<e[2], NoChunk>> \in bucket'[id]
              \/ \E i \in PackId : i < id /\ Taken(i)' /\ <<e[2], NoChunk>> \in bucket'[i]
          BY <1>4, <2>4 DEF IInv, BasesInFull
    <3> QED
        BY <3>1, <3>2, <3>3 DEF BasesInFull
  <2> QED
      BY <1>1, <2>6, <2>7, <2>8, <2>9 DEF IInv
<1> QED
    BY <1>9, <1>10 DEF Put

LEMMA OthersDown ==
    ASSUME IInv, NEW m \in Machine, Up(m), NEW k \in Machine \ {m}
    PROVE  /\ ~Up(k) /\ ~Busy(k) /\ packs[k] = NoPacks /\ batch[k] = {} /\ pending[k] = {}
<1>1. ~Up(k)
      BY DEF IInv, OneUp
<1> QED
    BY <1>1 DEF Up, Busy, IInv, Shape, TypeInv

LEMMA FlushKeeps ==
    ASSUME IInv, NEW m \in Machine, Flush(m)
    PROVE  IInv'
<1>1. TypeInv'
      BY FlushType DEF IInv
<1>2. pc[m] = "ready" /\ ~Busy(m) /\ batch[m] = {}
      BY DEF Flush, Busy, IInv, Shape
<1>3. UNCHANGED <<bucket, meta, packs, index, lost>>
      BY DEF Flush
<1>4. CASE pending[m] = {} /\ FlushReturns(m) /\ UNCHANGED <<nextId, pending, batch, batchId, item, pc>>
  <2>1. Kept /\ \A id \in PackId : Taken(id)' <=> Taken(id)
        BY <1>3, KeptIfUnchanged
  <2>2. \A k \in Machine : (Up(k)' <=> Up(k)) /\ (Busy(k)' <=> Busy(k)) /\ Limit(k)' = Limit(k)
        BY <1>4 DEF Up, Busy, Limit
  <2>3. /\ promised' = promised \cup owed[m]
        /\ owed'[m] = {} /\ bases'[m] = {}
        /\ \A k \in Machine \ {m} : owed'[k] = owed[k] /\ bases'[k] = bases[k]
        BY <1>4 DEF FlushReturns, IInv, TypeInv, TypeOK
  <2>4. OneUp' /\ Behind' /\ MetaPointsAtPacks' /\ PacksInBucket'
        BY <1>3, <2>1, <2>2 DEF IInv, OneUp, Behind, MetaPointsAtPacks, PacksInBucket
  <2>5. Shape'
        BY <1>3, <1>4, <2>2, <2>3 DEF IInv, Shape
  <2>6. owed[m] \subseteq Durable \cup lost
    <3>1. /\ owed[m] \subseteq DOMAIN index[m]
          /\ DOMAIN index[m] \subseteq Hashes(pending[m]) \cup Hashes(batch[m]) \cup Durable \cup lost
          BY DEF IInv, Shape, Covered
    <3>2. Hashes(pending[m]) = {} /\ Hashes(batch[m]) = {}
          BY <1>2, <1>4 DEF Hashes
    <3> QED
        BY <3>1, <3>2
  <2>7. Covered' /\ PromisedDurable'
        BY <1>3, <1>4, <2>1, <2>3, <2>6, KeptSafe DEF IInv, Covered, PromisedDurable
  <2>8. BasesInFull'
        BY <1>3, <1>4, <2>1, <2>3, KeptSafe DEF IInv, BasesInFull, HasBases
  <2> QED
      BY <1>1, <2>4, <2>5, <2>7, <2>8 DEF IInv
<1>5. CASE /\ pending[m] # {} /\ Drain(m, NoChunk, pending[m])
           /\ UNCHANGED <<owed, bases, own, promised>>
  <2>1. pending[m] \in SUBSET Entry /\ HasBases(pending[m])
        BY DEF IInv, TypeInv, TypeOK, BasesInFull
  <2>2. \A b \in bases'[m] : <<b, NoChunk>> \in pending[m] \/ SafeInFull(b)
        BY <1>2, <1>5 DEF IInv, BasesInFull
  <2> QED
      BY <1>1, <1>2, <1>3, <1>5, <2>1, <2>2, DrainKeeps
<1> QED
    BY <1>4, <1>5 DEF Flush

-----------------------------------------------------------------------------
(* Writing a pack overwrites none that is taken.                           *)

LEMMA WritePack ==
    ASSUME IInv, NEW m \in Machine, pc[m] = "upload", UNCHANGED meta,
           bucket' \in {bucket, [bucket EXCEPT ![batchId[m]] = batch[m]]}
    PROVE  /\ Kept
           /\ \A id \in PackId : Taken(id)' => id < nextId[m]
           /\ MetaPointsAtPacks'
           /\ \A id \in PackId : packs[m][id] \subseteq bucket'[id]
           /\ \A id \in PackId : \A e \in bucket'[id] : e[2] # NoChunk =>
                  \/ <<e[2], NoChunk>> \in bucket'[id]
                  \/ \E i \in PackId : i < id /\ Taken(i)' /\ <<e[2], NoChunk>> \in bucket'[i]
<1>1. Busy(m) /\ Up(m) /\ batchId[m] \in PackId /\ nextId[m] = batchId[m] + 1 /\ Limit(m) = batchId[m]
      BY DEF Busy, Up, Limit, IInv, Shape, TypeInv, TypeOK
<1>2. \A id \in PackId :
          \/ bucket'[id] = bucket[id]
          \/ id = batchId[m] /\ bucket'[id] = batch[m]
  <2>1. bucket \in [PackId -> SUBSET Entry]
        BY DEF IInv, TypeInv, TypeOK
  <2>2. CASE bucket' = bucket
        BY <2>2
  <2>3. CASE bucket' = [bucket EXCEPT ![batchId[m]] = batch[m]]
        BY <1>1, <2>1, <2>3
  <2> QED
      BY <2>2, <2>3
<1>3. \A id \in PackId : (Taken(id) \/ packs[m][id] # {}) => id < batchId[m]
      BY <1>1 DEF IInv, Behind
<1>4. \A id \in PackId : id < batchId[m] => bucket'[id] = bucket[id]
      BY <1>1, <1>2 DEF PackId
<1>5. Kept
      BY <1>3, <1>4 DEF Kept, Taken
<1>6. \A id \in PackId : Taken(id)' => (Taken(id) \/ id = batchId[m])
      BY <1>2 DEF Taken
<1>7. \A id \in PackId : Taken(id)' => id < nextId[m]
      BY <1>1, <1>3, <1>6 DEF PackId
<1>8. MetaPointsAtPacks'
  <2> SUFFICES ASSUME NEW l \in meta PROVE l[1] \in Hashes(bucket'[l[2]])
      BY DEF MetaPointsAtPacks
  <2>1. l[2] \in PackId /\ l[1] \in Hashes(bucket[l[2]])
        BY DEF IInv, MetaPointsAtPacks, TypeInv, TypeOK
  <2>2. Taken(l[2])
        BY <2>1 DEF Taken, Hashes, PackId
  <2> QED
      BY <1>5, <2>1, <2>2 DEF Kept
<1>9. \A id \in PackId : packs[m][id] \subseteq bucket'[id]
      BY <1>3, <1>4 DEF IInv, PacksInBucket
<1>10. ASSUME NEW id \in PackId, NEW e \in bucket'[id], e[2] # NoChunk
       PROVE  \/ <<e[2], NoChunk>> \in bucket'[id]
              \/ \E i \in PackId : i < id /\ Taken(i)' /\ <<e[2], NoChunk>> \in bucket'[i]
  <2>1. CASE bucket'[id] = bucket[id]
        BY <1>5, <1>10, <2>1 DEF IInv, BasesInFull, Kept
  <2>2. CASE id = batchId[m] /\ bucket'[id] = batch[m]
    <3>1. CASE <<e[2], NoChunk>> \in batch[m]
          BY <2>2, <3>1
    <3>2. CASE SafeInFull(e[2])
      <4>1. PICK i \in PackId : Taken(i) /\ <<e[2], NoChunk>> \in bucket[i]
            BY <3>2 DEF SafeInFull
      <4> QED
          BY <1>3, <1>5, <2>2, <4>1 DEF Kept
    <3> QED
        BY <1>10, <2>2, <3>1, <3>2 DEF IInv, BasesInFull, HasBases
  <2> QED
      BY <1>2, <2>1, <2>2
<1> QED
    BY <1>5, <1>7, <1>8, <1>9, <1>10

LEMMA UploadKeeps ==
    ASSUME IInv, NEW m \in Machine, Upload(m)
    PROVE  IInv'
<1>1. TypeInv'
      BY UploadType DEF IInv
<1>2. /\ pc[m] = "upload" /\ pc' = [pc EXCEPT ![m] = "install"]
      /\ bucket' = [bucket EXCEPT ![batchId[m]] = batch[m]]
      /\ UNCHANGED <<meta, packs, pending, nextId, index, item, batch, batchId, owed, bases,
                     promised, lost>>
      BY DEF Upload, memory, history
<1>3. /\ Kept
      /\ \A id \in PackId : Taken(id)' => id < nextId[m]
      /\ MetaPointsAtPacks'
      /\ \A id \in PackId : packs[m][id] \subseteq bucket'[id]
      /\ \A id \in PackId : \A e \in bucket'[id] : e[2] # NoChunk =>
             \/ <<e[2], NoChunk>> \in bucket'[id]
             \/ \E i \in PackId : i < id /\ Taken(i)' /\ <<e[2], NoChunk>> \in bucket'[i]
      BY <1>2, WritePack
<1>4. /\ pc'[m] = "install" /\ Up(m) /\ Up(m)' /\ Busy(m) /\ Busy(m)' /\ Limit(m)' = nextId[m]
      /\ \A k \in Machine \ {m} : pc'[k] = pc[k]
      BY <1>2 DEF Up, Busy, Limit, IInv, TypeInv, TypeOK
<1>5. batchId[m] \in PackId /\ nextId[m] = batchId[m] + 1 /\ Limit(m) = batchId[m] /\ nextId[m] \in Nat
      BY <1>2, <1>4 DEF IInv, Shape, TypeInv, TypeOK, Busy, Limit
<1>6. \A k \in Machine \ {m} :
          /\ packs[k] = NoPacks /\ ~Up(k) /\ ~Busy(k) /\ ~Up(k)' /\ ~Busy(k)'
      BY <1>4, OthersDown DEF Up, Busy
<1>7. OneUp'
      BY <1>6 DEF OneUp
<1>8. bucket'[batchId[m]] = batch[m]
      BY <1>2, <1>5 DEF IInv, TypeInv, TypeOK
<1>9. Shape'
  <2>1. \A k \in Machine : ~Up(k)' => ~Up(k)
        BY <1>4, <1>6
  <2>2. \A k \in Machine : Busy(k)' <=> Busy(k)
        BY <1>4, <1>6
  <2>3. \A k \in Machine : pc'[k] = "install" => k = m
        BY <1>6 DEF Busy
  <2> QED
      BY <1>2, <1>8, <2>1, <2>2, <2>3 DEF IInv, Shape
<1>10. Behind'
  <2>1. \A id \in PackId : packs[m][id] # {} => id < nextId[m]
        BY <1>5 DEF IInv, Behind, PackId
  <2> QED
      BY <1>2, <1>3, <1>4, <1>6, <2>1 DEF Behind, NoPacks
<1>11. PacksInBucket'
       BY <1>2, <1>3, <1>6 DEF PacksInBucket, NoPacks
<1>12. Covered' /\ PromisedDurable'
       BY <1>2, <1>3, KeptSafe DEF IInv, Covered, PromisedDurable
<1>13. BasesInFull'
       BY <1>2, <1>3, KeptSafe DEF IInv, BasesInFull
<1> QED
    BY <1>1, <1>3, <1>7, <1>9, <1>10, <1>11, <1>12, <1>13 DEF IInv

(* A machine that gives up its batch: it is ready again, or down.          *)
LEMMA GiveUp ==
    ASSUME IInv, TypeInv', Kept, NEW m \in Machine, Busy(m), pc'[m] \in {"ready", "down"},
           \A k \in Machine \ {m} :
               /\ pc'[k] = pc[k] /\ packs'[k] = packs[k] /\ pending'[k] = pending[k]
               /\ batch'[k] = batch[k] /\ owed'[k] = owed[k] /\ bases'[k] = bases[k]
               /\ index'[k] = index[k],
           pending'[m] = {}, batch'[m] = {}, owed'[m] = {}, bases'[m] = {},
           UNCHANGED promised, lost \subseteq lost',
           pc'[m] = "ready" => nextId'[m] = nextId[m],
           DOMAIN index'[m] \subseteq Durable' \cup lost',
           \A id \in PackId : Taken(id)' => id < nextId[m],
           MetaPointsAtPacks',
           \A id \in PackId : packs'[m][id] # {} =>
               pc'[m] = "ready" /\ packs'[m][id] \subseteq bucket'[id] /\ id < nextId[m],
           \A id \in PackId : \A e \in bucket'[id] : e[2] # NoChunk =>
               \/ <<e[2], NoChunk>> \in bucket'[id]
               \/ \E i \in PackId : i < id /\ Taken(i)' /\ <<e[2], NoChunk>> \in bucket'[i]
    PROVE  IInv'
<1>1. /\ Up(m) /\ ~Busy(m)'
      /\ \A k \in Machine \ {m} : packs[k] = NoPacks /\ ~Up(k) /\ ~Busy(k)
      BY OthersDown DEF Up, Busy
<1>2. \A k \in Machine \ {m} : ~Up(k)' /\ ~Busy(k)'
      BY <1>1 DEF Up, Busy
<1>3. OneUp'
      BY <1>2 DEF OneUp
<1>4. packs'[m] \in [PackId -> SUBSET Entry]
      BY DEF TypeInv, TypeOK
<1>5. ~Up(m)' => packs'[m] = NoPacks
      BY <1>4 DEF Up, NoPacks
<1>6. Shape'
  <2>1. /\ pc'[m] # "install"
        /\ \A k \in Machine \ {m} : pc'[k] # "install" /\ owed'[k] = {} /\ batch'[k] = {}
    <3>1. \A k \in Machine \ {m} : pc'[k] # "install" /\ owed[k] = {} /\ batch[k] = {}
          BY <1>1, <1>2 DEF Busy, IInv, Shape
    <3> QED
        BY <3>1
  <2> QED
      BY <1>1, <1>2, <1>5, <2>1 DEF Shape
<1>7. Behind'
  <2>1. pc'[m] = "ready" => Limit(m)' = nextId[m]
        BY DEF Limit
  <2>2. Up(m)' => pc'[m] = "ready"
        BY DEF Up
  <2> QED
      BY <1>1, <1>2, <2>1, <2>2 DEF Behind, NoPacks
<1>8. PacksInBucket'
      BY <1>1 DEF PacksInBucket, NoPacks
<1>9. Covered' /\ PromisedDurable'
  <2>1. \A k \in Machine \ {m} :
            DOMAIN index'[k] \subseteq Hashes(pending'[k]) \cup Hashes(batch'[k]) \cup Durable' \cup lost'
        BY KeptSafe DEF IInv, Covered
  <2> QED
      BY <2>1, KeptSafe DEF Covered, IInv, PromisedDurable
<1>10. BasesInFull'
  <2>1. HasBases(pending[m])' /\ HasBases(batch[m])'
        BY DEF HasBases
  <2>2. \A k \in Machine \ {m} :
            /\ HasBases(pending[k])' /\ HasBases(batch[k])'
            /\ \A b \in bases'[k] : <<b, NoChunk>> \in pending'[k] \cup batch'[k] \/ SafeInFull(b)'
        BY KeptSafe DEF IInv, BasesInFull, HasBases
  <2> QED
      BY <2>1, <2>2 DEF BasesInFull
<1> QED
    BY <1>3, <1>6, <1>7, <1>8, <1>9, <1>10 DEF IInv

(* What a busy machine indexes is lost with the batch, or safe.            *)
LEMMA BusyCovers ==
    ASSUME IInv, NEW m \in Machine, Busy(m), Kept
    PROVE  DOMAIN index[m] \subseteq Durable' \cup lost \cup Hashes(batch[m])
<1>1. Hashes(pending[m]) = {}
      BY DEF IInv, Shape, Hashes
<1> QED
    BY <1>1, KeptSafe DEF IInv, Covered

LEMMA UploadFailsKeeps ==
    ASSUME IInv, NEW m \in Machine, UploadFails(m)
    PROVE  IInv'
<1>1. TypeInv'
      BY UploadType DEF IInv
<1>2. /\ pc[m] = "upload" /\ Fails(m)
      /\ bucket' \in {bucket, [bucket EXCEPT ![batchId[m]] = batch[m]]}
      /\ UNCHANGED <<meta, packs, pending, nextId, index, batchId, promised>>
      BY DEF UploadFails
<1>3. Busy(m) /\ pending[m] = {} /\ nextId[m] = batchId[m] + 1 /\ Limit(m) = batchId[m]
      /\ batchId[m] \in PackId
      BY <1>2 DEF Busy, Limit, IInv, Shape, TypeInv, TypeOK
<1>4. /\ pc'[m] = "ready" /\ batch'[m] = {} /\ owed'[m] = {} /\ bases'[m] = {}
      /\ lost' = lost \cup Hashes(batch[m])
      /\ \A k \in Machine \ {m} :
            pc'[k] = pc[k] /\ batch'[k] = batch[k] /\ owed'[k] = owed[k] /\ bases'[k] = bases[k]
      BY <1>2 DEF Fails, IInv, TypeInv, TypeOK
<1>5. /\ Kept
      /\ \A id \in PackId : Taken(id)' => id < nextId[m]
      /\ MetaPointsAtPacks'
      /\ \A id \in PackId : packs[m][id] \subseteq bucket'[id]
      /\ \A id \in PackId : \A e \in bucket'[id] : e[2] # NoChunk =>
             \/ <<e[2], NoChunk>> \in bucket'[id]
             \/ \E i \in PackId : i < id /\ Taken(i)' /\ <<e[2], NoChunk>> \in bucket'[i]
      BY <1>2, WritePack
<1>6. \A id \in PackId : packs[m][id] # {} => id < nextId[m]
      BY <1>3 DEF IInv, Behind, PackId
<1>7. DOMAIN index[m] \subseteq Durable' \cup lost'
      BY <1>3, <1>4, <1>5, BusyCovers
<1> QED
    BY <1>1, <1>2, <1>3, <1>4, <1>5, <1>6, <1>7, GiveUp

LEMMA StopKeeps ==
    ASSUME IInv, NEW m \in Machine, StopStep(m)
    PROVE  IInv'
<1>1. /\ TypeInv' /\ Stops(m)
      /\ \/ UNCHANGED bucket
         \/ pc[m] = "upload" /\ bucket' = [bucket EXCEPT ![batchId[m]] = batch[m]]
      BY StopType DEF IInv
<1>2. UNCHANGED <<meta, promised, lost>> /\ pc[m] # "down" /\ Up(m)
      BY <1>1 DEF Stops, history, Up
<1>3. /\ pc'[m] = "down" /\ batch'[m] = {} /\ owed'[m] = {} /\ bases'[m] = {} /\ pending'[m] = {}
      /\ packs'[m] = NoPacks /\ index'[m] = <<>>
      /\ \A k \in Machine \ {m} :
               /\ pc'[k] = pc[k] /\ packs'[k] = packs[k] /\ pending'[k] = pending[k]
               /\ batch'[k] = batch[k] /\ owed'[k] = owed[k] /\ bases'[k] = bases[k]
               /\ index'[k] = index[k]
      BY <1>1 DEF Stops, IInv, TypeInv, TypeOK
<1>4. DOMAIN index'[m] = {}
      BY <1>3
<1>5. \A id \in PackId : packs'[m][id] = {}
      BY <1>3 DEF NoPacks
<1>6. CASE pc[m] = "upload"
  <2>1. /\ Kept
        /\ \A id \in PackId : Taken(id)' => id < nextId[m]
        /\ MetaPointsAtPacks'
        /\ \A id \in PackId : \A e \in bucket'[id] : e[2] # NoChunk =>
               \/ <<e[2], NoChunk>> \in bucket'[id]
               \/ \E i \in PackId : i < id /\ Taken(i)' /\ <<e[2], NoChunk>> \in bucket'[i]
        BY <1>1, <1>2, <1>6, WritePack
  <2>2. Busy(m)
        BY <1>6 DEF Busy
  <2> QED
      BY <1>1, <1>2, <1>3, <1>4, <1>5, <2>1, <2>2, GiveUp
<1>7. CASE pc[m] # "upload"
  <2>1. UNCHANGED bucket
        BY <1>1, <1>7
  <2>2. Kept /\ \A id \in PackId : Taken(id)' <=> Taken(id)
        BY <1>2, <2>1, KeptIfUnchanged
  <2>3. \A k \in Machine \ {m} : packs[k] = NoPacks /\ ~Up(k) /\ ~Busy(k) /\ owed[k] = {} /\ batch[k] = {}
        BY <1>2, OthersDown DEF IInv, Shape
  <2>4. \A k \in Machine : ~Up(k)' /\ ~Busy(k)'
        BY <1>3, <2>3 DEF Up, Busy
  <2>5. \A k \in Machine : packs'[k] = NoPacks /\ owed'[k] = {} /\ batch'[k] = {}
        BY <1>3, <2>3
  <2>6. OneUp' /\ Shape'
        BY <2>4, <2>5 DEF OneUp, Shape, Busy
  <2>7. Behind' /\ PacksInBucket' /\ MetaPointsAtPacks'
        BY <1>2, <2>1, <2>4, <2>5 DEF Behind, PacksInBucket, NoPacks, IInv, MetaPointsAtPacks
  <2>8. Covered' /\ PromisedDurable'
        BY <1>2, <1>3, <1>4, <2>2, KeptSafe DEF IInv, Covered, PromisedDurable
  <2>9. BasesInFull'
    <3>1. \A k \in Machine :
              /\ HasBases(pending[k])' /\ HasBases(batch[k])'
              /\ \A b \in bases'[k] : <<b, NoChunk>> \in pending'[k] \cup batch'[k] \/ SafeInFull(b)'
          BY <1>3, <2>2, KeptSafe DEF IInv, BasesInFull, HasBases
    <3> QED
        BY <2>1, <2>2, <3>1 DEF IInv, BasesInFull
  <2> QED
      BY <1>1, <2>6, <2>7, <2>8, <2>9 DEF IInv
<1> QED
    BY <1>6, <1>7

-----------------------------------------------------------------------------
(* Installing a pack.                                                      *)

LEMMA InstallEffect ==
    ASSUME IInv, NEW m \in Machine, pc[m] = "install", UNCHANGED bucket,
           meta' \in {meta, MetaOf(Loaded(m))}
    PROVE  /\ Kept
           /\ \A id \in PackId : Taken(id)' => id < nextId[m]
           /\ MetaPointsAtPacks'
           /\ \A id \in PackId : Loaded(m)[id] # {} =>
                  Loaded(m)[id] \subseteq bucket'[id] /\ id < nextId[m]
           /\ meta' = MetaOf(Loaded(m)) =>
                  \A id \in PackId : id = batchId[m] => Taken(id)'
           /\ \A id \in PackId : \A e \in bucket'[id] : e[2] # NoChunk =>
                  \/ <<e[2], NoChunk>> \in bucket'[id]
                  \/ \E i \in PackId : i < id /\ Taken(i)' /\ <<e[2], NoChunk>> \in bucket'[i]
<1>1. /\ Busy(m) /\ Up(m) /\ batchId[m] \in PackId /\ nextId[m] = batchId[m] + 1
      /\ Limit(m) = nextId[m] /\ bucket[batchId[m]] = batch[m] /\ batch[m] # {}
      BY BatchType DEF Busy, Up, Limit, IInv, Shape
<1>2. \A id \in PackId : (Taken(id) \/ packs[m][id] # {}) => id < nextId[m]
      BY <1>1 DEF IInv, Behind
<1>3. \A id \in PackId : Loaded(m)[id] = IF id = batchId[m] THEN batch[m] ELSE packs[m][id]
      BY DEF Loaded, IInv, TypeInv, TypeOK
<1>4. \A id \in PackId : Loaded(m)[id] # {} =>
          Loaded(m)[id] \subseteq bucket[id] /\ id < nextId[m]
      BY <1>1, <1>2, <1>3 DEF IInv, PacksInBucket, PackId
<1>5. \A l \in MetaOf(Loaded(m)) :
          l[2] \in PackId /\ l[1] \in Hashes(bucket[l[2]]) /\ l[2] < nextId[m]
  <2> SUFFICES ASSUME NEW l \in MetaOf(Loaded(m))
               PROVE  l[2] \in PackId /\ l[1] \in Hashes(bucket[l[2]]) /\ l[2] < nextId[m]
      OBVIOUS
  <2>1. PICK id \in PackId : \E c \in Hashes(Loaded(m)[id]) : l = <<c, id>>
        BY DEF MetaOf, Contents
  <2>2. l[2] = id /\ l[1] \in Hashes(Loaded(m)[id])
        BY <2>1
  <2> QED
      BY <1>4, <2>2 DEF Hashes
<1>6. \E l \in MetaOf(Loaded(m)) : l[2] = batchId[m]
  <2>1. PICK e \in batch[m] : TRUE
        BY <1>1
  <2>2. <<e[1], batchId[m]>> \in MetaOf(Loaded(m))
        BY <1>1, <1>3, InContents DEF MetaOf
  <2> QED
      BY <2>2
<1>7. CASE meta' = MetaOf(Loaded(m))
  <2>1. ASSUME NEW id \in PackId PROVE Taken(id)' <=> bucket[id] # {} /\ id < nextId[m]
    <3>1. Taken(id)' => bucket[id] # {} /\ \E l \in MetaOf(Loaded(m)) : id <= l[2]
          BY <1>6, <1>7 DEF Taken
    <3>2. Taken(id)' => bucket[id] # {} /\ id < nextId[m]
          BY <1>1, <1>5, <3>1 DEF PackId
    <3>3. id < nextId[m] => id <= batchId[m]
          BY <1>1 DEF PackId
    <3> QED
        BY <1>6, <1>7, <3>2, <3>3 DEF Taken
  <2>2. Kept
    <3>1. \A id \in PackId : Taken(id) => bucket[id] # {}
          BY DEF Taken
    <3>2. \A id \in PackId : Taken(id) => Taken(id)'
          BY <1>2, <2>1, <3>1
    <3> QED
        BY <3>2 DEF Kept
  <2>3. MetaPointsAtPacks'
        BY <1>5, <1>7 DEF MetaPointsAtPacks
  <2>4. \A id \in PackId : \A e \in bucket'[id] : e[2] # NoChunk =>
            \/ <<e[2], NoChunk>> \in bucket'[id]
            \/ \E i \in PackId : i < id /\ Taken(i)' /\ <<e[2], NoChunk>> \in bucket'[i]
        BY <2>2 DEF IInv, BasesInFull, Kept
  <2>5. \A id \in PackId : id = batchId[m] => Taken(id)'
        BY <1>1, <2>1 DEF PackId
  <2> QED
      BY <1>4, <2>1, <2>2, <2>3, <2>4, <2>5
<1>8. CASE meta' = meta /\ meta' # MetaOf(Loaded(m))
  <2>1. Kept /\ \A id \in PackId : Taken(id)' <=> Taken(id)
        BY <1>8, KeptIfUnchanged
  <2>2. MetaPointsAtPacks'
        BY <1>8 DEF IInv, MetaPointsAtPacks
  <2>3. \A id \in PackId : \A e \in bucket'[id] : e[2] # NoChunk =>
            \/ <<e[2], NoChunk>> \in bucket'[id]
            \/ \E i \in PackId : i < id /\ Taken(i)' /\ <<e[2], NoChunk>> \in bucket'[i]
        BY <2>1 DEF IInv, BasesInFull
  <2> QED
      BY <1>2, <1>4, <1>8, <2>1, <2>2, <2>3
<1> QED
    BY <1>7, <1>8

LEMMA InstallFailsKeeps ==
    ASSUME IInv, NEW m \in Machine, InstallFails(m)
    PROVE  IInv'
<1>1. TypeInv'
      BY InstallType DEF IInv
<1>2. /\ pc[m] = "install" /\ Fails(m)
      /\ packs' = [packs EXCEPT ![m] = Loaded(m)]
      /\ meta' \in {meta, MetaOf(Loaded(m))}
      /\ UNCHANGED <<bucket, pending, nextId, index, batchId, promised>>
      BY DEF InstallFails
<1>3. Busy(m) /\ pending[m] = {}
      BY <1>2 DEF Busy, IInv, Shape
<1>4. /\ pc'[m] = "ready" /\ batch'[m] = {} /\ owed'[m] = {} /\ bases'[m] = {}
      /\ lost' = lost \cup Hashes(batch[m]) /\ packs'[m] = Loaded(m)
      /\ \A k \in Machine \ {m} :
            pc'[k] = pc[k] /\ batch'[k] = batch[k] /\ owed'[k] = owed[k] /\ bases'[k] = bases[k]
            /\ packs'[k] = packs[k]
      BY <1>2 DEF Fails, IInv, TypeInv, TypeOK
<1>5. /\ Kept
      /\ \A id \in PackId : Taken(id)' => id < nextId[m]
      /\ MetaPointsAtPacks'
      /\ \A id \in PackId : Loaded(m)[id] # {} =>
             Loaded(m)[id] \subseteq bucket'[id] /\ id < nextId[m]
      /\ \A id \in PackId : \A e \in bucket'[id] : e[2] # NoChunk =>
             \/ <<e[2], NoChunk>> \in bucket'[id]
             \/ \E i \in PackId : i < id /\ Taken(i)' /\ <<e[2], NoChunk>> \in bucket'[i]
      BY <1>2, InstallEffect
<1>6. DOMAIN index[m] \subseteq Durable' \cup lost'
      BY <1>3, <1>4, <1>5, BusyCovers
<1> QED
    BY <1>1, <1>2, <1>3, <1>4, <1>5, <1>6, GiveUp

LEMMA InstallKeeps ==
    ASSUME IInv, NEW m \in Machine, Install(m)
    PROVE  IInv'
<1>1. TypeInv'
      BY InstallType DEF IInv
<1>2. /\ pc[m] = "install"
      /\ packs' = [packs EXCEPT ![m] = Loaded(m)]
      /\ meta' = MetaOf(Loaded(m))
      /\ UNCHANGED <<bucket, pending, nextId, batchId, lost>>
      /\ pc' = [pc EXCEPT ![m] = "ready"] /\ batch' = [batch EXCEPT ![m] = {}]
      BY DEF Install
<1>3. /\ Busy(m) /\ Up(m) /\ pending[m] = {} /\ batchId[m] \in PackId
      /\ bucket[batchId[m]] = batch[m]
      BY <1>2, BatchType DEF Busy, Up, IInv, Shape
<1>4. /\ pc'[m] = "ready" /\ batch'[m] = {} /\ packs'[m] = Loaded(m) /\ pending'[m] = {}
      /\ \A k \in Machine \ {m} :
             /\ pc'[k] = pc[k] /\ batch'[k] = batch[k] /\ packs'[k] = packs[k]
             /\ pending'[k] = pending[k]
      BY <1>2, <1>3 DEF IInv, TypeInv, TypeOK
<1>5. /\ Kept
      /\ \A id \in PackId : Taken(id)' => id < nextId[m]
      /\ MetaPointsAtPacks'
      /\ \A id \in PackId : Loaded(m)[id] # {} =>
             Loaded(m)[id] \subseteq bucket'[id] /\ id < nextId[m]
      /\ \A id \in PackId : id = batchId[m] => Taken(id)'
      /\ \A id \in PackId : \A e \in bucket'[id] : e[2] # NoChunk =>
             \/ <<e[2], NoChunk>> \in bucket'[id]
             \/ \E i \in PackId : i < id /\ Taken(i)' /\ <<e[2], NoChunk>> \in bucket'[i]
      BY <1>2, InstallEffect
<1>6. Hashes(batch[m]) \subseteq Durable'
      BY <1>2, <1>3, <1>5 DEF Durable
<1>7. \A b \in bases[m] : SafeInFull(b)'
  <2> SUFFICES ASSUME NEW b \in bases[m] PROVE SafeInFull(b)'
      OBVIOUS
  <2>1. CASE <<b, NoChunk>> \in batch[m]
        BY <1>2, <1>3, <1>5, <2>1 DEF SafeInFull
  <2>2. CASE SafeInFull(b)
        BY <1>5, <2>2, KeptSafe
  <2> QED
      BY <1>3, <2>1, <2>2 DEF IInv, BasesInFull
<1>8. \A k \in Machine \ {m} :
          /\ packs[k] = NoPacks /\ ~Up(k) /\ ~Busy(k) /\ owed[k] = {} /\ batch[k] = {} /\ pending[k] = {}
      BY <1>3, OthersDown DEF IInv, Shape
<1>9. \A k \in Machine \ {m} : ~Up(k)' /\ ~Busy(k)' /\ ~Busy(m)' /\ Up(m)'
      BY <1>4, <1>8 DEF Up, Busy
<1>10. /\ \A k \in Machine \ {m} : /\ index'[k] = index[k] /\ owed'[k] = owed[k]
                                   /\ bases'[k] = bases[k]
       /\ DOMAIN index'[m] \subseteq Durable' \cup lost'
       /\ owed'[m] \subseteq DOMAIN index'[m]
       /\ bases'[m] \subseteq bases[m]
       /\ promised' \subseteq Durable' \cup lost'
  <2>1. DOMAIN index[m] \subseteq Durable' \cup lost'
        BY <1>2, <1>3, <1>5, <1>6, BusyCovers
  <2>2. promised \subseteq Durable' \cup lost' /\ owed[m] \subseteq DOMAIN index[m]
        BY <1>2, <1>5, KeptSafe DEF IInv, PromisedDurable, Shape
  <2>3. CASE item[m] = NoChunk /\ FlushReturns(m) /\ UNCHANGED index
    <3>1. /\ owed'[m] = {} /\ bases'[m] = {} /\ promised' = promised \cup owed[m]
          /\ \A k \in Machine \ {m} : owed'[k] = owed[k] /\ bases'[k] = bases[k]
          BY <2>3 DEF FlushReturns, IInv, TypeInv, TypeOK
    <3> QED
        BY <2>1, <2>2, <2>3, <3>1
  <2>4. CASE item[m] # NoChunk /\ Indexed(m, item[m]) /\ UNCHANGED <<bases, own, promised>>
    <3>1. item[m] \in Chunk /\ item[m] \in Hashes(batch[m])
          BY <1>3, <2>4 DEF IInv, Shape, TypeInv, TypeOK
    <3>2. /\ DOMAIN index'[m] = DOMAIN index[m] \cup {item[m]}
          /\ \A k \in Machine \ {m} : index'[k] = index[k]
          /\ owed' = [owed EXCEPT ![m] = owed[m] \cup {item[m]}]
          BY <2>4, <3>1, IndexedType DEF IInv
    <3>3. /\ owed'[m] = owed[m] \cup {item[m]}
          /\ \A k \in Machine \ {m} : owed'[k] = owed[k]
          BY <3>2 DEF IInv, TypeInv, TypeOK
    <3> QED
        BY <1>6, <2>1, <2>2, <2>4, <3>1, <3>2, <3>3
  <2> QED
      BY <2>3, <2>4 DEF Install
<1>11. OneUp'
       BY <1>9 DEF OneUp
<1>12. Shape'
  <2>1. \A k \in Machine : pc'[k] # "install"
        BY <1>4, <1>8 DEF Busy
  <2>2. \A k \in Machine : ~Busy(k)' /\ batch'[k] = {}
        BY <1>4, <1>8 DEF Busy
  <2>3. \A k \in Machine : ~Up(k)' => packs'[k] = NoPacks /\ owed'[k] = {}
        BY <1>4, <1>8, <1>10 DEF Up
  <2>4. \A k \in Machine : owed'[k] \subseteq DOMAIN index'[k]
        BY <1>8, <1>10
  <2> QED
      BY <2>1, <2>2, <2>3, <2>4 DEF Shape
<1>13. Behind' /\ PacksInBucket'
  <2>1. Limit(m)' = nextId[m]
        BY <1>2, <1>4 DEF Limit
  <2> QED
      BY <1>4, <1>5, <1>8, <1>9, <2>1 DEF Behind, PacksInBucket, NoPacks
<1>14. Covered' /\ PromisedDurable'
  <2>1. \A k \in Machine \ {m} : DOMAIN index'[k] \subseteq Durable' \cup lost'
    <3>1. \A k \in Machine \ {m} :
              DOMAIN index[k] \subseteq Hashes(pending[k]) \cup Hashes(batch[k]) \cup Durable \cup lost
          BY DEF IInv, Covered
    <3>2. \A k \in Machine \ {m} : Hashes(pending[k]) = {} /\ Hashes(batch[k]) = {}
          BY <1>8 DEF Hashes
    <3> QED
        BY <1>2, <1>5, <1>10, <3>1, <3>2, KeptSafe
  <2> QED
      BY <1>10, <2>1 DEF Covered, PromisedDurable
<1>15. BasesInFull'
  <2>1. /\ HasBases(pending[m])' /\ HasBases(batch[m])'
        /\ \A b \in bases'[m] : <<b, NoChunk>> \in pending'[m] \cup batch'[m] \/ SafeInFull(b)'
        BY <1>4, <1>7, <1>10 DEF HasBases
  <2>2. \A k \in Machine \ {m} :
            /\ HasBases(pending[k])' /\ HasBases(batch[k])'
            /\ \A b \in bases'[k] : <<b, NoChunk>> \in pending'[k] \cup batch'[k] \/ SafeInFull(b)'
        BY <1>4, <1>5, <1>10, KeptSafe DEF IInv, BasesInFull, HasBases
  <2> QED
      BY <1>5, <2>1, <2>2 DEF BasesInFull
<1> QED
    BY <1>1, <1>5, <1>11, <1>12, <1>13, <1>14, <1>15 DEF IInv

LEMMA UnchangedKeeps ==
    ASSUME IInv, TypeInv', UNCHANGED <<bucket, meta, memory, pc, history>>
    PROVE  IInv'
<1>1. UNCHANGED <<bucket, meta, packs, pending, nextId, index, pc, item, batch, batchId, owed, bases,
                  promised, lost>>
      BY DEF memory, history
<1>2. Kept /\ \A id \in PackId : Taken(id)' <=> Taken(id)
      BY KeptIfUnchanged
<1>3. OneUp' /\ Shape' /\ Behind' /\ MetaPointsAtPacks' /\ PacksInBucket'
      BY <1>1, <1>2 DEF IInv, OneUp, Shape, Behind, MetaPointsAtPacks, PacksInBucket, Up, Busy, Limit
<1>4. Covered' /\ PromisedDurable'
      BY <1>1, <1>2, KeptSafe DEF IInv, Covered, PromisedDurable
<1>5. BasesInFull'
      BY <1>1, <1>2, KeptSafe DEF IInv, BasesInFull, HasBases
<1> QED
    BY <1>3, <1>4, <1>5 DEF IInv

-----------------------------------------------------------------------------
(* The invariant.                                                          *)

LEMMA InitIInv ==
    ASSUME Init
    PROVE  IInv
<1>1. \A id \in PackId : bucket[id] = {}
      BY DEF Init, NoPacks
<1>2. Hashes({}) = {} /\ DOMAIN <<>> = {}
      BY DEF Hashes
<1>3. TypeInv
      BY <1>2, CloudBounds DEF Init, TypeInv, TypeOK, Up, NoPacks, PackId
<1>4. OneUp /\ Shape /\ MetaPointsAtPacks /\ PacksInBucket
      BY DEF Init, OneUp, Shape, MetaPointsAtPacks, PacksInBucket, Up, Busy, NoPacks
<1>5. Behind
      BY <1>1 DEF Init, Behind, Up, NoPacks
<1>6. Covered /\ PromisedDurable
      BY <1>2 DEF Init, Covered, PromisedDurable
<1>7. BasesInFull
      BY <1>1 DEF Init, BasesInFull, HasBases
<1> QED
    BY <1>3, <1>4, <1>5, <1>6, <1>7 DEF IInv

LEMMA NextIInv ==
    ASSUME IInv, OneAtATime, ~ReadCanFail, [Next]_vars
    PROVE  IInv'
<1>1. ASSUME NEW m \in Machine, OpenFromMeta(m) \/ OpenFromPacks(m)
      PROVE  IInv'
      BY <1>1, OpenKeeps
<1>2. ASSUME NEW m \in Machine, Backup(m)
      PROVE  IInv'
      BY <1>2, SkipKeeps, PutKeeps, FlushKeeps, UploadKeeps, UploadFailsKeeps, InstallKeeps,
         InstallFailsKeeps DEF Backup
<1>3. ASSUME NEW m \in Machine, CacheStep(m)
      PROVE  IInv'
      BY <1>3, CacheType, UnchangedKeeps DEF IInv
<1>4. ASSUME NEW m \in Machine, StopStep(m)
      PROVE  IInv'
      BY <1>4, StopKeeps
<1>5. CASE UNCHANGED vars
  <2>1. TypeInv'
        BY <1>5 DEF vars, memory, history, IInv, TypeInv, TypeOK, Up
  <2> QED
      BY <1>5, <2>1, UnchangedKeeps DEF vars
<1> QED
    BY <1>1, <1>2, <1>3, <1>4, <1>5 DEF Next

LEMMA Invariance ==
    ASSUME OneAtATime, ~ReadCanFail
    PROVE  Spec => []IInv
<1>1. Init => IInv
      BY InitIInv
<1>2. IInv /\ [Next]_vars => IInv'
      BY NextIInv
<1> QED
    BY <1>1, <1>2, PTL DEF Spec

(* Type correctness: the state stays in its domains, and a process that    *)
(* uploads has a batch and the id of a pack to upload it to.               *)
THEOREM TypeCorrect ==
    ASSUME OneAtATime, ~ReadCanFail
    PROVE  Spec => []TypeOK
<1>1. IInv => TypeOK
      BY DEF IInv, TypeInv
<1> QED
    BY <1>1, Invariance, PTL

(* What _meta.index says of a chunk is so, through failures and crashes at *)
(* any step of a flush (write_meta_index, populate_index).                 *)
THEOREM MetaPointsAtPacksHolds ==
    ASSUME OneAtATime, ~ReadCanFail
    PROVE  Spec => []MetaPointsAtPacks
<1>1. IInv => MetaPointsAtPacks
      BY DEF IInv
<1> QED
    BY <1>1, Invariance, PTL

(* A flush that returned Ok left every chunk of the backup in the bucket,  *)
(* and they stay there, though ids of unlisted packs are used again; but   *)
(* for batches whose writing failed, when the machines take turns and      *)
(* _meta.index can be read if it is there (populate_index).                *)
THEOREM PromisedStoredHolds ==
    ASSUME OneAtATime, ~ReadCanFail
    PROVE  Spec => []PromisedStored
<1>1. ASSUME IInv PROVE PromisedStored
  <2>1. Durable \subseteq InBucket
        BY DEF Durable, InBucket
  <2> QED
      BY <1>1, <2>1 DEF IInv, PromisedDurable, PromisedStored
<1> QED
    BY <1>1, Invariance, PTL

(* The base of every delta in the bucket is in it, in the same pack or an  *)
(* earlier one that is not overwritten (put_delta, flush_write).           *)
THEOREM DeltaBaseStoredHolds ==
    ASSUME OneAtATime, ~ReadCanFail
    PROVE  Spec => []DeltaBaseStored
<1>1. ASSUME IInv PROVE DeltaBaseStored
  <2> SUFFICES ASSUME NEW id \in PackId, NEW e \in bucket[id], e[2] # NoChunk
               PROVE  \E i \in 1 .. id : <<e[2], NoChunk>> \in bucket[i]
      BY DEF DeltaBaseStored
  <2>1. id \in 1 .. id /\ \A i \in PackId : i < id => i \in 1 .. id
        BY CloudBounds DEF PackId
  <2> QED
      BY <1>1, <2>1 DEF IInv, BasesInFull
<1> QED
    BY <1>1, Invariance, PTL

-----------------------------------------------------------------------------
(* The bucket implements the trait.                                        *)

(* No step takes away a chunk that is in a taken pack.                     *)
LEMMA NextKept ==
    ASSUME IInv, OneAtATime, ~ReadCanFail, [Next]_vars
    PROVE  Kept
<1>1. CASE UNCHANGED <<bucket, meta>>
      BY <1>1, KeptIfUnchanged
<1>2. ASSUME NEW m \in Machine, OpenFromMeta(m) \/ OpenFromPacks(m)
      PROVE  UNCHANGED <<bucket, meta>>
      BY <1>2 DEF OpenFromMeta, OpenFromPacks, Opens
<1>3. ASSUME NEW m \in Machine, Backup(m)
      PROVE  Kept
  <2>1. CASE Upload(m) \/ UploadFails(m)
        BY <2>1, WritePack DEF Upload, UploadFails
  <2>2. CASE Install(m) \/ InstallFails(m)
        BY <2>2, InstallEffect DEF Install, InstallFails
  <2>3. CASE Flush(m) \/ \E c \in Chunk :
                Skip(m, c) \/ \E base \in Chunk \cup {NoChunk} : Put(m, c, base)
        BY <1>1, <2>3 DEF Flush, Skip, Put
  <2> QED
      BY <1>3, <2>1, <2>2, <2>3 DEF Backup
<1>4. ASSUME NEW m \in Machine, CacheStep(m)
      PROVE  UNCHANGED <<bucket, meta>>
      BY <1>4 DEF CacheStep, CachePack, EvictCached
<1>5. ASSUME NEW m \in Machine, StopStep(m)
      PROVE  Kept
  <2>1. /\ UNCHANGED meta
        /\ \/ UNCHANGED bucket
           \/ pc[m] = "upload" /\ bucket' = [bucket EXCEPT ![batchId[m]] = batch[m]]
        BY <1>5, StopType DEF IInv, Stops
  <2> QED
      BY <1>1, <2>1, WritePack
<1>6. CASE UNCHANGED vars
      BY <1>1, <1>6 DEF vars
<1> QED
    BY <1>1, <1>2, <1>3, <1>4, <1>5, <1>6 DEF Next

(* Promises are not withdrawn.                                             *)
LEMMA PromisesKept ==
    ASSUME [Next]_vars
    PROVE  promised \subseteq promised'
<1>1. ASSUME NEW m \in Machine, OpenFromMeta(m) \/ OpenFromPacks(m) \/ CacheStep(m) \/ StopStep(m)
      PROVE  UNCHANGED promised
      BY <1>1 DEF OpenFromMeta, OpenFromPacks, Opens, CacheStep, CachePack, EvictCached, StopStep,
         Stop, StopInRead, StopInUpload, Stops, history
<1>2. ASSUME NEW m \in Machine, Backup(m)
      PROVE  promised \subseteq promised'
      BY <1>2 DEF Backup, Skip, Put, Flush, FlushReturns, Upload, UploadFails, Install, InstallFails,
         history
<1>3. CASE UNCHANGED vars
      BY <1>3 DEF vars, history
<1> QED
    BY <1>1, <1>2, <1>3 DEF Next

LEMMA NothingLost ==
    ASSUME ~WriteCanFail, lost = {}, [Next]_vars
    PROVE  lost' = {}
<1>1. ASSUME NEW m \in Machine, OpenFromMeta(m) \/ OpenFromPacks(m) \/ CacheStep(m) \/ StopStep(m)
      PROVE  UNCHANGED lost
      BY <1>1 DEF OpenFromMeta, OpenFromPacks, Opens, CacheStep, CachePack, EvictCached, StopStep,
         Stop, StopInRead, StopInUpload, Stops, history
<1>2. ASSUME NEW m \in Machine, Backup(m)
      PROVE  UNCHANGED lost
      BY <1>2 DEF Backup, Skip, Put, Flush, Upload, UploadFails, Install, InstallFails, Fails, history
<1>3. CASE UNCHANGED vars
      BY <1>3 DEF vars, history
<1> QED
    BY <1>1, <1>2, <1>3 DEF Next

(* As long as the machines take turns and neither a write nor the read of  *)
(* _meta.index fails, the bucket is what the trait promises, though packs  *)
(* no index lists are overwritten and processes die at any step (put,      *)
(* flush and open of CloudPackStore).                                      *)
THEOREM Implementation ==
    ASSUME OneAtATime, ~ReadCanFail, ~WriteCanFail
    PROVE  Spec => ImplementsContentStore
<1>1. Init => IInv /\ lost = {}
      BY InitIInv DEF Init
<1>2. IInv /\ lost = {} /\ [Next]_vars => (IInv /\ lost = {})'
      BY NextIInv, NothingLost
<1>3. Init => Backend!Init
  <2>1. ASSUME Init PROVE Durable = {} /\ promised = {}
        BY <2>1 DEF Init, Durable, Taken, NoPacks
  <2> QED
      BY <2>1 DEF Backend!Init
<1>4. (IInv /\ lost = {}) /\ (IInv /\ lost = {})' /\ [Next]_vars => [Backend!Next]_<<Durable, promised>>
  <2> SUFFICES ASSUME IInv, IInv', lost' = {}, [Next]_vars
               PROVE  Backend!Next
      OBVIOUS
  <2>1. Durable \subseteq Durable' /\ Durable' \subseteq Chunk
    <3>1. Durable \subseteq Durable'
          BY NextKept, KeptSafe
    <3>2. Durable' \subseteq Chunk
          BY DEF IInv, TypeInv, TypeOK, Durable, Hashes, Entry
    <3> QED
        BY <3>1, <3>2
  <2>2. promised' \in SUBSET Durable' /\ promised' = promised \cup promised'
        BY PromisesKept DEF IInv, PromisedDurable
  <2> QED
      BY <2>1, <2>2 DEF Backend!Next, Backend!Promise, Backend!Grows
<1> QED
    BY <1>1, <1>2, <1>3, <1>4, PTL DEF Spec, ImplementsContentStore, Backend!Spec

-----------------------------------------------------------------------------
(* Entries that rest on one another.                                       *)

LEMMA HashesOf ==
    ASSUME NEW es, NEW fs
    PROVE  /\ es \subseteq fs => Hashes(es) \subseteq Hashes(fs)
           /\ Hashes(es \cup fs) = Hashes(es) \cup Hashes(fs)
           /\ Hashes({}) = {}
BY DEF Hashes

LEMMA RestOnSub ==
    ASSUME NEW es, NEW fs, NEW hs, NEW gs, es \subseteq fs, hs \subseteq gs, RestOn(fs, hs)
    PROVE  RestOn(es, gs)
BY DEF RestOn

LEMMA RestOnMore ==
    ASSUME NEW es, NEW hs, NEW c, NEW base, RestOn(es, hs), base = NoChunk \/ base \in hs
    PROVE  RestOn(es \cup {<<c, base>>}, hs)
BY DEF RestOn

LEMMA AcyclicSub ==
    ASSUME NEW es, NEW fs, es \subseteq fs, Acyclic(fs)
    PROVE  Acyclic(es)
BY DEF Acyclic

(* An entry of a new chunk, over one that is there, closes no circle.      *)
LEMMA AcyclicMore ==
    ASSUME NEW es, NEW hs, NEW c \in Chunk, NEW base, Acyclic(es), RestOn(es, hs),
           c \notin hs, base = NoChunk \/ base \in hs
    PROVE  Acyclic(es \cup {<<c, base>>})
<1> DEFINE fs == es \cup {<<c, base>>}
<1>1. \A e \in fs : e[2] # c
      BY CloudNames DEF RestOn
<1>2. SUFFICES ASSUME NEW S \in SUBSET Chunk, S # {}
               PROVE  \E d \in S : \A e \in fs : e[1] = d => e[2] \notin S
      BY DEF Acyclic
<1>3. CASE S \subseteq {c}
      BY <1>1, <1>2, <1>3
<1>4. CASE ~(S \subseteq {c})
  <2>1. PICK d \in S \ {c} : \A e \in es : e[1] = d => e[2] \notin S \ {c}
        BY <1>4 DEF Acyclic
  <2>2. <<c, base>>[1] = c
        OBVIOUS
  <2> QED
      BY <1>1, <2>1, <2>2
<1> QED
    BY <1>3, <1>4

-----------------------------------------------------------------------------
(* One step after another.                                                 *)

LEMMA SameReads ==
    ASSUME RInv, IInv', CacheInv',
           UNCHANGED <<bucket, meta, packs, pending, index, pc, item, batch, batchId, nextId>>,
           lost \subseteq lost', 
           \A k \in Machine : bases'[k] \subseteq bases[k],
           \A k \in Machine : Up(k) => OwnInv(k)',
           \A k \in Machine : ~Up(k) => own'[k] = {}
    PROVE  RInv'
<1>1. ASSUME NEW k \in Machine
      PROVE  /\ LoadedEntries(k)' = LoadedEntries(k) /\ Located(k)' = Located(k)
             /\ Known(k)' = Known(k) /\ Limit(k)' = Limit(k)
             /\ Up(k)' <=> Up(k)
             /\ Busy(k)' <=> Busy(k)
      BY DEF LoadedEntries, Located, Known, Listed, Limit, Up, Busy
<1>2. Listed' = Listed
      BY DEF Listed
<1>3. ListedInv' /\ DownInv'
      BY <1>1, <1>2 DEF RInv, ListedInv, DownInv
<1>4. ASSUME NEW k \in Machine, Up(k)
      PROVE  UpInv(k)'
  <2>1. UpInv(k)
        BY <1>4 DEF RInv
  <2>2. LoadedWhole(k)' /\ IndexFound(k)' /\ KnownInv(k)'
        BY <1>1, <2>1 DEF UpInv, LoadedWhole, IndexFound, KnownInv
  <2>3. BasesFound(k)'
        BY <1>1, <2>1 DEF UpInv, BasesFound
  <2> QED
      BY <1>4, <2>2, <2>3 DEF UpInv
<1> QED
    BY <1>1, <1>3, <1>4 DEF RInv

(* A cache file of a pack that is still one of those that are named.       *)
LEMMA CacheKept ==
    ASSUME RInv, UNCHANGED <<cache, missed, bucket>>,
           \A k \in Machine : \A id \in PackId : Named(k, id)' => Named(k, id)
    PROVE  CacheInv'
BY DEF RInv, CacheInv

LEMMA SkipReads ==
    ASSUME RInv, IInv', NEW m \in Machine, NEW c \in Chunk, Skip(m, c)
    PROVE  RInv'
<1>1. /\ UNCHANGED <<bucket, meta, packs, pending, index, pc, item, batch, batchId, nextId>>
      /\ UNCHANGED <<cache, missed, lost, bases, own>>
      BY DEF Skip, history
<1>2. CacheInv'
      BY <1>1, CacheKept DEF Named
<1>3. \A k \in Machine : /\ Up(k) => OwnInv(k)'
                         /\ ~Up(k) => own'[k] = {}
      BY <1>1 DEF RInv, UpInv, OwnInv, DownInv
<1> QED
    BY <1>1, <1>2, <1>3, SameReads

LEMMA CacheReads ==
    ASSUME RInv, IInv', NEW m \in Machine, CacheStep(m)
    PROVE  RInv'
<1>1. /\ UNCHANGED <<bucket, meta, packs, pending, index, pc, item, batch, batchId, nextId>>
      /\ UNCHANGED <<lost, bases, own>>
      BY CacheType DEF RInv, IInv, memory, history
<1>2. PICK id \in PackId : CachePack(m, id) \/ EvictCached(m, id)
      BY DEF CacheStep
<1>3. \A k \in Machine : \A i \in PackId : Named(k, i)' <=> Named(k, i)
      BY <1>1 DEF Named
<1>4. cache \in [Machine -> [PackId -> SUBSET (Entry \cup {Torn})]]
      BY DEF RInv, IInv, TypeInv, TypeOK
<1>5. /\ cache'[m][id] \in {{}, {Torn}, bucket[id]}
      /\ cache'[m][id] # {} => m \in Caching /\ bucket[id] # {}
      /\ \A k \in Machine : \A i \in PackId : k # m \/ i # id =>
             cache'[k][i] = cache[k][i] /\ (i \in missed[k] => i \in missed'[k])
  <2>1. TypeInv /\ bucket[id] \in SUBSET (Entry \cup {Torn})
        BY DEF RInv, IInv, TypeInv, TypeOK
  <2>2. CASE CachePack(m, id)
    <3>1. WriteCached(m, id, bucket[id]) /\ cache[m][id] = {} /\ m \in Caching /\ bucket[id] # {}
          BY <2>2 DEF CachePack, Reads
    <3> QED
        BY <2>1, <3>1, WrittenFile
  <2>3. CASE EvictCached(m, id)
        BY <2>1, <2>3, WrittenFile DEF EvictCached
  <2> QED
      BY <1>2, <2>2, <2>3
<1>6. CacheInv'
  <2> SUFFICES ASSUME NEW k \in Machine, NEW i \in PackId, cache'[k][i] # {}
               PROVE  /\ k \in Caching /\ bucket[i] # {}
                      /\ Named(k, i) => cache'[k][i] \in {{Torn}, bucket[i]} \/ i \in missed'[k]
      BY <1>1, <1>3 DEF CacheInv
  <2>1. CASE k = m /\ i = id
        BY <1>5, <2>1
  <2>2. CASE k # m \/ i # id
        BY <1>5, <2>2 DEF RInv, CacheInv
  <2> QED
      BY <2>1, <2>2
<1>7. \A k \in Machine : /\ Up(k) => OwnInv(k)'
                         /\ ~Up(k) => own'[k] = {}
      BY <1>1 DEF RInv, UpInv, OwnInv, DownInv
<1> QED
    BY <1>1, <1>6, <1>7, SameReads

(* A backup whose chunks have all been written returns.                    *)
LEMMA ReturnReads ==
    ASSUME RInv, IInv', NEW m \in Machine, Flush(m), pending[m] = {}, FlushReturns(m),
           UNCHANGED <<nextId, pending, batch, batchId, item, pc>>
    PROVE  RInv'
<1>1. /\ UNCHANGED <<bucket, meta, packs, pending, index, pc, item, batch, batchId, nextId>>
      /\ UNCHANGED <<cache, missed, lost>> /\ pc[m] = "ready"
      BY DEF Flush
<1>2. /\ own'[m] = own[m] \cup owed[m] /\ bases'[m] = {}
      /\ \A k \in Machine \ {m} : own'[k] = own[k] /\ bases'[k] = bases[k]
      BY DEF FlushReturns, RInv, IInv, TypeInv, TypeOK
<1>3. CacheInv'
      BY <1>1, CacheKept DEF Named
<1>4. Up(m) /\ batch[m] = {} /\ owed[m] \subseteq DOMAIN index[m]
      BY <1>1 DEF Up, Busy, RInv, IInv, Shape
<1>5. ASSUME NEW k \in Machine, Up(k) PROVE OwnInv(k)'
      BY <1>1, <1>2, <1>4, <1>5, HashesOf DEF RInv, UpInv, OwnInv
<1>6. \A k \in Machine : ~Up(k) => own'[k] = {}
      BY <1>2, <1>4 DEF RInv, DownInv
<1> QED
    BY <1>1, <1>2, <1>3, <1>5, <1>6, SameReads

-----------------------------------------------------------------------------
(* A chunk that is put.                                                    *)

LEMMA PutFits ==
    ASSUME RInv, NEW m \in Machine, NEW c \in Chunk, NEW base \in Chunk \cup {NoChunk},
           Put(m, c, base)
    PROVE  /\ base = NoChunk \/ base \in bases[m]
           /\ base = NoChunk \/ base \in DOMAIN index[m]
           /\ base = NoChunk \/ base \in Hashes(pending[m]) \cup Hashes(LoadedEntries(m))
           /\ Acyclic(Known(m) \cup {<<c, base>>})
           /\ RestOn(Known(m) \cup {<<c, base>>}, DOMAIN index[m])
           /\ RestOn(pending[m] \cup {<<c, base>>}, Hashes(pending[m]) \cup Hashes(LoadedEntries(m)))
           /\ c \notin own[m] /\ c \notin DOMAIN index[m]
<1>1. pc[m] = "ready" /\ c \notin DOMAIN index[m] /\ (base = NoChunk \/ base \in bases[m])
      BY DEF Put
<1>2. Up(m) /\ ~Busy(m) /\ batch[m] = {} /\ Hashes(batch[m]) = {}
      BY <1>1, HashesOf DEF Up, Busy, RInv, IInv, Shape
<1>3. UpInv(m)
      BY <1>2 DEF RInv
<1>4. /\ bases[m] \subseteq DOMAIN index[m]
      /\ bases[m] \subseteq Hashes(pending[m]) \cup Hashes(LoadedEntries(m))
      /\ RestOn(pending[m], Hashes(pending[m]) \cup Hashes(LoadedEntries(m)))
      BY <1>2, <1>3 DEF UpInv, BasesFound
<1>5. Acyclic(Known(m)) /\ RestOn(Known(m), DOMAIN index[m]) /\ own[m] \subseteq DOMAIN index[m]
      BY <1>3 DEF UpInv, KnownInv, OwnInv
<1> HIDE DEF UpInv
<1> QED
    BY <1>1, <1>4, <1>5, RestOnMore, AcyclicMore

(* A new placeholder: nothing is located where it was not.                 *)
LEMMA IndexedEffect ==
    ASSUME TypeInv, NEW m \in Machine, NEW c \in Chunk, Indexed(m, c), UNCHANGED bucket
    PROVE  /\ DOMAIN index'[m] = DOMAIN index[m] \cup {c} /\ index'[m][c] = NoPack
           /\ \A d \in DOMAIN index[m] \ {c} : index'[m][d] = index[m][d]
           /\ \A k \in Machine \ {m} : index'[k] = index[k]
           /\ Located(m)' = {e \in Located(m) : e[1] # c}
<1> DEFINE f == [d \in DOMAIN index[m] \cup {c} |-> IF d = c THEN NoPack ELSE index[m][d]]
<1>1. index' = [index EXCEPT ![m] = f]
      BY DEF Indexed
<1>2. index'[m] = f /\ \A k \in Machine \ {m} : index'[k] = index[k]
      BY <1>1 DEF TypeInv
<1>3. /\ DOMAIN f = DOMAIN index[m] \cup {c} /\ f[c] = NoPack
      /\ \A d \in DOMAIN index[m] \ {c} : f[d] = index[m][d]
      OBVIOUS
<1>4. NoPack \notin PackId
      BY CloudBounds DEF NoPack, PackId
<1> HIDE DEF f
<1>5. Located(m)' = {e \in Entry : /\ e[1] \in DOMAIN f /\ f[e[1]] \in PackId
                                   /\ e \in bucket[f[e[1]]]}
      BY <1>2 DEF Located
<1>6. Located(m)' = {e \in Located(m) : e[1] # c}
      BY <1>3, <1>4, <1>5 DEF Located
<1> QED
    BY <1>2, <1>3, <1>6

LEMMA PutReads ==
    ASSUME RInv, IInv', NEW m \in Machine, NEW c \in Chunk, NEW base \in Chunk \cup {NoChunk},
           Put(m, c, base), pending' = [pending EXCEPT ![m] = pending[m] \cup {<<c, base>>}],
           Indexed(m, c), UNCHANGED <<nextId, batch, batchId, item, pc>>
    PROVE  RInv'
<1> DEFINE filled == pending[m] \cup {<<c, base>>}
<1>1. /\ pc[m] = "ready" /\ UNCHANGED <<bucket, meta, cache, missed, packs, own, lost>>
      /\ bases'[m] \subseteq bases[m] \cup {c}
      /\ \A k \in Machine \ {m} : bases'[k] = bases[k]
      BY DEF Put, history, RInv, IInv, TypeInv, TypeOK
<1>2. Up(m) /\ ~Busy(m) /\ batch[m] = {} /\ Hashes(batch[m]) = {}
      BY <1>1, HashesOf DEF Up, Busy, RInv, IInv, Shape
<1>3. UpInv(m) /\ TypeInv
      BY <1>2 DEF RInv, IInv
<1>4. /\ pending'[m] = filled /\ \A k \in Machine \ {m} : pending'[k] = pending[k]
      BY <1>3 DEF TypeInv, TypeOK
<1>5. Hashes(filled) = Hashes(pending[m]) \cup {c}
      BY HashesAdd
<1>6. /\ base = NoChunk \/ base \in Hashes(pending[m]) \cup Hashes(LoadedEntries(m))
      /\ Acyclic(Known(m) \cup {<<c, base>>})
      /\ RestOn(Known(m) \cup {<<c, base>>}, DOMAIN index[m])
      /\ RestOn(filled, Hashes(pending[m]) \cup Hashes(LoadedEntries(m)))
      /\ c \notin own[m] /\ c \notin DOMAIN index[m]
      BY PutFits
<1>7. /\ DOMAIN index'[m] = DOMAIN index[m] \cup {c} /\ index'[m][c] = NoPack
      /\ \A d \in DOMAIN index[m] : index'[m][d] = index[m][d]
      /\ \A k \in Machine \ {m} : index'[k] = index[k]
      /\ Located(m)' = Located(m)
  <2>1. /\ DOMAIN index'[m] = DOMAIN index[m] \cup {c} /\ index'[m][c] = NoPack
        /\ \A d \in DOMAIN index[m] \ {c} : index'[m][d] = index[m][d]
        /\ \A k \in Machine \ {m} : index'[k] = index[k]
        /\ Located(m)' = {e \in Located(m) : e[1] # c}
        BY <1>1, <1>3, IndexedEffect
  <2>2. \A e \in Located(m) : e[1] # c
        BY <1>6 DEF Located
  <2> QED
      BY <1>6, <2>1, <2>2
<1> HIDE DEF filled
<1>8. /\ LoadedEntries(m)' = LoadedEntries(m) /\ Listed' = Listed
      /\ Known(m)' = Known(m) \cup {<<c, base>>}
      /\ Limit(m)' = Limit(m) /\ Busy(m)' = FALSE
  <2>1. LoadedEntries(m)' = LoadedEntries(m) /\ Listed' = Listed
        BY <1>1 DEF LoadedEntries, Listed
  <2>2. Known(m)' = Listed \cup Located(m) \cup LoadedEntries(m) \cup filled \cup batch[m]
        BY <1>4, <1>7, <2>1 DEF Known
  <2>3. Known(m)' = Known(m) \cup {<<c, base>>}
        BY <2>2 DEF Known, filled
  <2> QED
      BY <1>2, <2>1, <2>3 DEF Limit, Busy
<1>9. LoadedWhole(m)' /\ OwnInv(m)'
      BY <1>1, <1>2, <1>3, <1>4, <1>5, <1>6, <1>7 DEF UpInv, LoadedWhole, OwnInv
<1>10. IndexFound(m)'
  <2> SUFFICES ASSUME NEW d \in DOMAIN index'[m]
               PROVE  IF index'[m][d] = NoPack
                      THEN d \in Hashes(filled) \cup Hashes(batch[m]) \cup Hashes(LoadedEntries(m)) \cup lost
                      ELSE index'[m][d] < Limit(m) /\ d \in Hashes(bucket[index'[m][d]])
      BY <1>1, <1>4, <1>8 DEF IndexFound
  <2>1. CASE d = c
        BY <1>5, <1>7, <2>1
  <2>2. CASE d # c
        BY <1>3, <1>5, <1>7, <2>2 DEF UpInv, IndexFound
  <2> QED
      BY <2>1, <2>2
<1>11. KnownInv(m)'
  <2>1. RestOn(Known(m) \cup {<<c, base>>}, DOMAIN index'[m])
        BY <1>6, <1>7, RestOnSub
  <2> QED
      BY <1>6, <1>8, <2>1 DEF KnownInv
<1>12. BasesFound(m)'
  <2>1. BasesFound(m) /\ RestOn(Known(m), DOMAIN index[m])
        BY <1>3 DEF UpInv, KnownInv
  <2>2. \A e \in LoadedEntries(m) \cup Located(m) : e[2] \notin Hashes(filled)
    <3>1. \A e \in LoadedEntries(m) \cup Located(m) : e[2] # c
      <4>1. LoadedEntries(m) \cup Located(m) \subseteq Known(m)
            BY DEF Known
      <4> QED
          BY <1>6, <2>1, <4>1, CloudNames DEF RestOn
    <3> QED
        BY <1>5, <2>1, <3>1 DEF BasesFound
  <2>3. RestOn(filled, Hashes(filled) \cup Hashes(LoadedEntries(m)))
        BY <1>5, <1>6, RestOnSub
  <2>4. /\ bases'[m] \subseteq Hashes(filled) \cup Hashes(batch[m]) \cup Hashes(LoadedEntries(m))
        /\ bases'[m] \subseteq DOMAIN index'[m]
        BY <1>1, <1>2, <1>5, <1>7, <2>1 DEF BasesFound
  <2> QED
      BY <1>4, <1>7, <1>8, <2>1, <2>2, <2>3, <2>4 DEF BasesFound
<1>13. ListedInv'
       BY <1>8 DEF RInv, ListedInv
<1>14. \A k \in Machine \ {m} : ~Up(k) /\ ~Up(k)'
       BY <1>2, OthersDown DEF RInv, Up
<1>15. DownInv'
  <2>1. Up(m)'
        BY <1>2 DEF Up
  <2> QED
      BY <1>1, <1>7, <1>14, <2>1 DEF RInv, DownInv
<1>16. CacheInv'
  <2>1. \A k \in Machine : \A id \in PackId : Named(k, id)' => Named(k, id)
    <3> SUFFICES ASSUME NEW k \in Machine, NEW id \in PackId, Named(k, id)' PROVE Named(k, id)
        OBVIOUS
    <3>1. CASE k = m
      <4>1. NoPack \notin PackId
            BY CloudBounds DEF NoPack, PackId
      <4> QED
          BY <1>1, <1>7, <3>1, <4>1 DEF Named
    <3>2. CASE k # m
          BY <1>1, <1>7, <3>2 DEF Named
    <3> QED
        BY <3>1, <3>2
  <2> QED
      BY <1>1, <2>1, CacheKept
<1> QED
    BY <1>9, <1>10, <1>11, <1>12, <1>13, <1>14, <1>15, <1>16 DEF RInv, UpInv

LEMMA DrainReads ==
    ASSUME RInv, IInv', NEW m \in Machine, NEW c, NEW es, pc[m] = "ready", Drain(m, c, es),
           UNCHANGED <<bucket, meta, cache, missed, packs, index, own, lost>>,
           pending[m] \subseteq es, Acyclic(Known(m) \cup es), RestOn(Known(m) \cup es, DOMAIN index[m]),
           RestOn(es, Hashes(es) \cup Hashes(LoadedEntries(m))),
           bases'[m] \subseteq Hashes(es) \cup Hashes(LoadedEntries(m)),
           bases'[m] \subseteq DOMAIN index[m] \cup {c},
           \A k \in Machine \ {m} : bases'[k] = bases[k],
           own[m] \cap Hashes(es) = {}
    PROVE  RInv'
<1>1. /\ pc'[m] = "upload" /\ batch'[m] = es /\ pending'[m] = {} /\ item'[m] = c
      /\ batchId'[m] = nextId[m]
      /\ \A k \in Machine \ {m} :
            pc'[k] = pc[k] /\ batch'[k] = batch[k] /\ pending'[k] = pending[k] /\ batchId'[k] = batchId[k]
      BY DEF Drain, RInv, IInv, TypeInv, TypeOK
<1>2. Up(m) /\ Up(m)' /\ Busy(m)' /\ batch[m] = {} /\ Hashes({}) = {}
      BY <1>1, HashesOf DEF Up, Busy, RInv, IInv, Shape
<1>3. UpInv(m)
      BY <1>2 DEF RInv
<1>4. Hashes(pending[m]) \subseteq Hashes(es)
      BY HashesOf
<1>5. /\ LoadedEntries(m)' = LoadedEntries(m) /\ Located(m)' = Located(m) /\ Listed' = Listed
      /\ Limit(m)' = Limit(m)
      BY <1>1 DEF LoadedEntries, Located, Listed, Limit
<1>6. Known(m)' \subseteq Known(m) \cup es
      BY <1>1, <1>5 DEF Known
<1>7. LoadedWhole(m)' /\ OwnInv(m)'
      BY <1>1, <1>2, <1>3 DEF UpInv, LoadedWhole, OwnInv
<1>8. IndexFound(m)'
  <2>1. Hashes(pending[m]) \cup Hashes(batch[m]) \subseteq Hashes(es)
        BY <1>2, <1>4
  <2>2. \A d \in DOMAIN index[m] :
            IF index[m][d] = NoPack
            THEN d \in Hashes(es) \cup Hashes(LoadedEntries(m)) \cup lost
            ELSE index[m][d] < Limit(m) /\ d \in Hashes(bucket[index[m][d]])
        BY <1>3, <2>1 DEF UpInv, IndexFound
  <2> QED
      BY <1>1, <1>5, <2>2 DEF IndexFound
<1>9. KnownInv(m)'
      BY <1>6, AcyclicSub, RestOnSub DEF KnownInv
<1>10. BasesFound(m)'
  <2>1. BasesFound(m)
        BY <1>3 DEF UpInv
  <2>2. RestOn({}, Hashes({}) \cup Hashes(LoadedEntries(m)))
        BY DEF RestOn
  <2> QED
      BY <1>1, <1>2, <1>5, <2>1, <2>2 DEF BasesFound
<1>11. ListedInv'
       BY <1>5 DEF RInv, ListedInv
<1>12. \A k \in Machine \ {m} : ~Up(k) /\ ~Up(k)'
       BY <1>1, <1>2, OthersDown DEF RInv, Up
<1>13. DownInv'
       BY <1>2, <1>12 DEF RInv, DownInv
<1>14. CacheInv'
  <2>1. \A k \in Machine : \A id \in PackId : Named(k, id)' => Named(k, id)
        BY <1>1, <1>12 DEF Named, Up
  <2> QED
      BY <2>1, CacheKept
<1> QED
    BY <1>7, <1>8, <1>9, <1>10, <1>11, <1>12, <1>13, <1>14 DEF RInv, UpInv

LEMMA PutKeepsReads ==
    ASSUME RInv, IInv', NEW m \in Machine, NEW c \in Chunk, NEW base \in Chunk \cup {NoChunk},
           Put(m, c, base)
    PROVE  RInv'
<1> DEFINE filled == pending[m] \cup {<<c, base>>}
<1>1. CASE /\ pending' = [pending EXCEPT ![m] = filled] /\ Indexed(m, c)
           /\ UNCHANGED <<nextId, batch, batchId, item, pc>>
      BY <1>1, PutReads
<1>2. CASE Drain(m, c, filled) /\ UNCHANGED <<index, owed>>
  <2>1. /\ pc[m] = "ready" /\ UNCHANGED <<bucket, meta, cache, missed, packs, index, own, lost>>
        /\ bases'[m] \subseteq bases[m] \cup {c}
        /\ \A k \in Machine \ {m} : bases'[k] = bases[k]
        BY <1>2 DEF Put, history, RInv, IInv, TypeInv, TypeOK
  <2>2. Up(m) /\ ~Busy(m) /\ Hashes(batch[m]) = {}
        BY <2>1, HashesOf DEF Up, Busy, RInv, IInv, Shape
  <2>3. BasesFound(m) /\ OwnInv(m)
        BY <2>2 DEF RInv, UpInv
  <2>4. Hashes(filled) = Hashes(pending[m]) \cup {c}
        BY HashesAdd
  <2>5. /\ Acyclic(Known(m) \cup filled) /\ RestOn(Known(m) \cup filled, DOMAIN index[m])
        /\ RestOn(filled, Hashes(pending[m]) \cup Hashes(LoadedEntries(m)))
        /\ c \notin own[m]
    <3>1. Known(m) \cup filled = Known(m) \cup {<<c, base>>}
          BY DEF Known
    <3> QED
        BY <3>1, PutFits
  <2>6. pending[m] \subseteq filled
        OBVIOUS
  <2> HIDE DEF filled
  <2>7. RestOn(filled, Hashes(filled) \cup Hashes(LoadedEntries(m)))
        BY <2>4, <2>5, RestOnSub
  <2>8. /\ bases'[m] \subseteq Hashes(filled) \cup Hashes(LoadedEntries(m))
        /\ bases'[m] \subseteq DOMAIN index[m] \cup {c}
        BY <2>1, <2>2, <2>3, <2>4 DEF BasesFound
  <2>9. own[m] \cap Hashes(filled) = {}
        BY <2>3, <2>4, <2>5 DEF OwnInv
  <2> QED
      BY <1>2, <2>1, <2>5, <2>6, <2>7, <2>8, <2>9, DrainReads
<1> QED
    BY <1>1, <1>2 DEF Put

LEMMA FlushKeepsReads ==
    ASSUME RInv, IInv', NEW m \in Machine, Flush(m)
    PROVE  RInv'
<1>1. CASE pending[m] = {} /\ FlushReturns(m) /\ UNCHANGED <<nextId, pending, batch, batchId, item, pc>>
      BY <1>1, ReturnReads
<1>2. CASE /\ pending[m] # {} /\ Drain(m, NoChunk, pending[m])
           /\ UNCHANGED <<owed, bases, own, promised>>
  <2>1. pc[m] = "ready" /\ UNCHANGED <<bucket, meta, cache, missed, packs, index, own, lost, bases>>
        BY <1>2 DEF Flush
  <2>2. Up(m) /\ ~Busy(m) /\ Hashes(batch[m]) = {}
        BY <2>1, HashesOf DEF Up, Busy, RInv, IInv, Shape
  <2>3. BasesFound(m) /\ OwnInv(m) /\ KnownInv(m)
        BY <2>2 DEF RInv, UpInv
  <2>4. Known(m) \cup pending[m] = Known(m)
        BY DEF Known
  <2>5. /\ bases[m] \subseteq Hashes(pending[m]) \cup Hashes(LoadedEntries(m))
        /\ bases[m] \subseteq DOMAIN index[m]
        /\ RestOn(pending[m], Hashes(pending[m]) \cup Hashes(LoadedEntries(m)))
        /\ own[m] \cap Hashes(pending[m]) = {}
        BY <2>2, <2>3 DEF BasesFound, OwnInv
  <2> QED
      BY <1>2, <2>1, <2>3, <2>4, <2>5, DrainReads DEF KnownInv
<1> QED
    BY <1>1, <1>2 DEF Flush

-----------------------------------------------------------------------------
(* A pack that is written, whatever becomes of the process that does.      *)

LEMMA WrittenListed ==
    ASSUME RInv, NEW m \in Machine, pc[m] = "upload", UNCHANGED meta,
           bucket' \in {bucket, [bucket EXCEPT ![batchId[m]] = batch[m]]}
    PROVE  /\ batchId[m] \in PackId /\ Limit(m) = batchId[m] /\ nextId[m] = batchId[m] + 1
           /\ Up(m) /\ Busy(m) /\ UpInv(m) /\ pending[m] = {} /\ batch[m] # {}
           /\ \A id \in PackId : \/ bucket'[id] = bucket[id]
                                 \/ id = batchId[m] /\ bucket'[id] = batch[m]
           /\ \A id \in PackId : id < batchId[m] => bucket'[id] = bucket[id]
           /\ \A id \in PackId : (packs[m][id] # {} \/ \E l \in meta : l[2] = id) => id < batchId[m]
           /\ meta = {} => bucket[batchId[m]] = {}
           /\ Listed' \subseteq Listed \cup batch[m]
           /\ ListedInv'
<1>1. /\ Busy(m) /\ Up(m) /\ batchId[m] \in PackId /\ nextId[m] = batchId[m] + 1 /\ Limit(m) = batchId[m]
      /\ batch[m] \in SUBSET Entry /\ pending[m] = {} /\ batch[m] # {}
      BY BatchType DEF Busy, Up, Limit, RInv, IInv, Shape, TypeInv, TypeOK
<1>2. \A id \in PackId : \/ bucket'[id] = bucket[id]
                         \/ id = batchId[m] /\ bucket'[id] = batch[m]
  <2>1. bucket \in [PackId -> SUBSET Entry]
        BY DEF RInv, IInv, TypeInv, TypeOK
  <2>2. CASE bucket' = bucket
        BY <2>2
  <2>3. CASE bucket' = [bucket EXCEPT ![batchId[m]] = batch[m]]
        BY <1>1, <2>1, <2>3
  <2> QED
      BY <2>2, <2>3
<1>3. UpInv(m)
      BY <1>1 DEF RInv
<1>4. \A id \in PackId : (Taken(id) \/ packs[m][id] # {}) => id < batchId[m]
      BY <1>1 DEF RInv, IInv, Behind
<1>5. \A id \in PackId : id < batchId[m] => bucket'[id] = bucket[id]
      BY <1>1, <1>2 DEF PackId
<1>6. \A id \in PackId : (\E l \in meta : l[2] = id) => id < batchId[m]
  <2> SUFFICES ASSUME NEW id \in PackId, NEW l \in meta, l[2] = id PROVE id < batchId[m]
      OBVIOUS
  <2>1. bucket[id] # {}
        BY HashesOf DEF RInv, IInv, MetaPointsAtPacks
  <2>2. Taken(id)
        BY <2>1 DEF Taken, PackId
  <2> QED
      BY <1>4, <2>2
<1>7. meta = {} => bucket[batchId[m]] = {}
  <2> SUFFICES ASSUME meta = {}, bucket[batchId[m]] # {} PROVE FALSE
      OBVIOUS
  <2>1. Taken(batchId[m])
        BY DEF Taken
  <2> QED
      BY <1>1, <1>4, <2>1 DEF PackId
<1>8. Listed' \subseteq Listed \cup batch[m]
      BY <1>2 DEF Listed
<1>9. Acyclic(Listed')
  <2>1. Listed' \subseteq Known(m)
        BY <1>8 DEF Known
  <2> QED
      BY <1>3, <2>1, AcyclicSub DEF UpInv, KnownInv
<1>10. RestOn(Listed', Hashes(Listed'))
  <2>1. RestOn(Listed, Hashes(Listed))
        BY DEF RInv, ListedInv
  <2>2. CASE meta # {}
    <3>1. \A e : \A id \in PackId : <<e[1], id>> \in meta => bucket'[id] = bucket[id]
      <4> SUFFICES ASSUME NEW e, NEW id \in PackId, <<e[1], id>> \in meta
                   PROVE  bucket'[id] = bucket[id]
          OBVIOUS
      <4>1. <<e[1], id>>[2] = id
            OBVIOUS
      <4> QED
          BY <1>5, <1>6, <4>1
    <3>2. Listed' = Listed
          BY <2>2, <3>1 DEF Listed
    <3> QED
        BY <2>1, <3>2
  <2>3. CASE meta = {}
    <3>1. \A id \in PackId : bucket[id] \subseteq bucket'[id]
          BY <1>2, <1>7, <2>3
    <3>2. Listed \subseteq Listed'
          BY <2>3, <3>1 DEF Listed
    <3>3. CASE Listed' = Listed
          BY <2>1, <3>3
    <3>4. CASE Listed' # Listed
      <4>1. bucket'[batchId[m]] = batch[m]
        <5> SUFFICES ASSUME bucket'[batchId[m]] # batch[m] PROVE Listed' = Listed
            BY <3>4
        <5>1. \A id \in PackId : bucket'[id] = bucket[id]
              BY <1>2
        <5> QED
            BY <5>1 DEF Listed
      <4>2. batch[m] \subseteq Listed'
            BY <1>1, <2>3, <4>1 DEF Listed
      <4>3. LoadedEntries(m) \subseteq Listed
        <5>1. \A id \in PackId : packs[m][id] \subseteq bucket[id]
              BY DEF RInv, IInv, PacksInBucket
        <5> QED
            BY <2>3, <5>1 DEF LoadedEntries, Listed
      <4>4. Hashes(batch[m]) \cup Hashes(LoadedEntries(m)) \subseteq Hashes(Listed')
            BY <3>2, <4>2, <4>3 DEF Hashes
      <4>5. Hashes(Listed) \subseteq Hashes(Listed')
            BY <3>2, HashesOf
      <4>6. RestOn(batch[m], Hashes(Listed')) /\ RestOn(Listed, Hashes(Listed'))
        <5>1. RestOn(batch[m], Hashes(batch[m]) \cup Hashes(LoadedEntries(m)))
              BY <1>3 DEF UpInv, BasesFound
        <5> QED
            BY <2>1, <4>4, <4>5, <5>1 DEF RestOn
      <4> QED
          BY <1>8, <4>6 DEF RestOn
    <3> QED
        BY <3>3, <3>4
  <2> QED
      BY <2>2, <2>3
<1> QED
    BY <1>1, <1>2, <1>3, <1>4, <1>5, <1>6, <1>7, <1>8, <1>9, <1>10 DEF ListedInv

(* Its cache file is the pack, or part of it, or could not be written, or  *)
(* is of a pack no one looks for.                                          *)
LEMMA WrittenCache ==
    ASSUME RInv, OneCache, NEW m \in Machine, pc[m] = "upload", UNCHANGED meta,
           bucket' \in {bucket, [bucket EXCEPT ![batchId[m]] = batch[m]]},
           cache' \in [Machine -> [PackId -> SUBSET (Entry \cup {Torn})]],
           \A k \in Machine : \A id \in PackId : k # m \/ id # batchId[m] =>
               cache'[k][id] = cache[k][id] /\ (id \in missed[k] => id \in missed'[k]),
           \/ UNCHANGED <<packs, index>>
           \/ packs'[m] = NoPacks /\ DOMAIN index'[m] = {},
           batchId'[m] = batchId[m] \/ pc'[m] # "install",
           \/ cache'[m][batchId[m]] = cache[m][batchId[m]] /\ (pc'[m] # "install" \/ m \notin Caching)
           \/ /\ m \in Caching /\ bucket'[batchId[m]] = batch[m]
              /\ \/ cache'[m][batchId[m]] \in {{}, {Torn}, batch[m]}
                 \/ batchId[m] \in missed'[m]
    PROVE  CacheInv'
<1>1. /\ batchId[m] \in PackId /\ Limit(m) = batchId[m] /\ UpInv(m) /\ batch[m] # {}
      /\ \A id \in PackId : \/ bucket'[id] = bucket[id]
                            \/ id = batchId[m] /\ bucket'[id] = batch[m]
      /\ \A id \in PackId : (packs[m][id] # {} \/ \E l \in meta : l[2] = id) => id < batchId[m]
      /\ meta = {} => bucket[batchId[m]] = {}
      BY WrittenListed
<1> SUFFICES ASSUME NEW k \in Machine, NEW id \in PackId, cache'[k][id] # {}
             PROVE  /\ k \in Caching /\ bucket'[id] # {}
                    /\ Named(k, id)' => cache'[k][id] \in {{Torn}, bucket'[id]} \/ id \in missed'[k]
    BY DEF CacheInv
<1>2. k \in Caching /\ k = m
  <2>1. k \in Caching
        BY DEF RInv, CacheInv
  <2> QED
      BY <2>1 DEF OneCache
<1>3. ~(packs'[m] = NoPacks) => UNCHANGED <<packs, index>>
      OBVIOUS
<1>4. Named(m, id)' /\ id # batchId[m] => Named(m, id)
      BY <1>3 DEF Named, NoPacks
<1>5. CASE id # batchId[m]
      BY <1>1, <1>2, <1>4, <1>5 DEF RInv, CacheInv
<1>6. CASE /\ id = batchId[m] /\ bucket'[batchId[m]] = batch[m]
           /\ \/ cache'[m][batchId[m]] \in {{}, {Torn}, batch[m]}
              \/ batchId[m] \in missed'[m]
      BY <1>1, <1>2, <1>6
<1>7. CASE id = batchId[m] /\ cache'[m][id] = cache[m][id] /\ pc'[m] # "install"
  <2>1. bucket[id] # {} /\ bucket'[id] # {} /\ meta # {}
        BY <1>1, <1>2, <1>7 DEF RInv, CacheInv
  <2>2. ~(id < batchId[m])
        BY <1>7 DEF PackId
  <2>3. packs[m][id] = {} /\ ~\E l \in meta : l[2] = id
        BY <1>1, <2>2
  <2>4. \A c \in DOMAIN index[m] : index[m][c] # id
    <3>1. NoPack \notin PackId
          BY CloudBounds DEF NoPack, PackId
    <3> QED
        BY <1>1, <2>2, <3>1 DEF UpInv, IndexFound
  <2>5. packs'[m][id] = {} /\ \A c \in DOMAIN index'[m] : index'[m][c] # id
        BY <1>3, <2>3, <2>4 DEF NoPacks
  <2>6. ~Named(m, id)'
        BY <1>7, <2>1, <2>3, <2>5 DEF Named
  <2> QED
      BY <1>2, <2>1, <2>6
<1> QED
    BY <1>2, <1>5, <1>6, <1>7

LEMMA UploadReads ==
    ASSUME RInv, IInv', OneCache, NEW m \in Machine, Upload(m)
    PROVE  RInv'
<1>1. /\ pc[m] = "upload" /\ pc' = [pc EXCEPT ![m] = "install"]
      /\ bucket' = [bucket EXCEPT ![batchId[m]] = batch[m]]
      /\ UNCHANGED <<meta, packs, pending, nextId, index, item, batch, batchId, bases, own, lost>>
      BY DEF Upload, memory, history
<1>2. /\ batchId[m] \in PackId /\ Limit(m) = batchId[m] /\ nextId[m] = batchId[m] + 1
      /\ Up(m) /\ Busy(m) /\ UpInv(m) /\ pending[m] = {} /\ batch[m] # {}
      /\ \A id \in PackId : id < batchId[m] => bucket'[id] = bucket[id]
      /\ \A id \in PackId : packs[m][id] # {} => id < batchId[m]
      /\ Listed' \subseteq Listed \cup batch[m]
      /\ ListedInv'
      BY <1>1, WrittenListed
<1>3. /\ pc'[m] = "install" /\ Up(m)' /\ Busy(m)' /\ Limit(m)' = batchId[m] + 1
      /\ \A k \in Machine \ {m} : pc'[k] = pc[k]
      BY <1>1, <1>2 DEF Up, Busy, Limit, RInv, IInv, TypeInv, TypeOK
<1>4. /\ \A c \in DOMAIN index[m] : index[m][c] # NoPack =>
             index[m][c] \in PackId /\ index[m][c] < batchId[m]
      BY <1>2 DEF UpInv, IndexFound, RInv, IInv, TypeInv, TypeOK
<1>5. LoadedEntries(m)' = LoadedEntries(m) /\ Located(m)' = Located(m)
  <2>1. \A c \in DOMAIN index[m] : index[m][c] \in PackId => bucket'[index[m][c]] = bucket[index[m][c]]
    <3>1. NoPack \notin PackId
          BY CloudBounds DEF NoPack, PackId
    <3> QED
        BY <1>2, <1>4, <3>1
  <2> QED
      BY <1>1, <2>1 DEF LoadedEntries, Located
<1>6. Known(m)' \subseteq Known(m)
      BY <1>1, <1>2, <1>5 DEF Known
<1>7. LoadedWhole(m)' /\ OwnInv(m)' /\ KnownInv(m)'
  <2>1. LoadedWhole(m)'
        BY <1>1, <1>2 DEF UpInv, LoadedWhole
  <2>2. KnownInv(m)'
        BY <1>1, <1>2, <1>6, AcyclicSub, RestOnSub DEF UpInv, KnownInv
  <2> QED
      BY <1>1, <1>2, <2>1, <2>2 DEF UpInv, OwnInv
<1>8. IndexFound(m)'
  <2>1. \A c \in DOMAIN index[m] :
            IF index[m][c] = NoPack
            THEN c \in Hashes(pending[m]) \cup Hashes(batch[m]) \cup Hashes(LoadedEntries(m)) \cup lost
            ELSE index[m][c] < batchId[m] + 1 /\ c \in Hashes(bucket'[index[m][c]])
    <3>1. \A c \in DOMAIN index[m] : index[m][c] # NoPack => index[m][c] < batchId[m] + 1
          BY <1>2, <1>4 DEF PackId
    <3> QED
        BY <1>2, <1>4, <3>1 DEF UpInv, IndexFound
  <2> QED
      BY <1>1, <1>3, <1>5, <2>1 DEF IndexFound
<1>9. BasesFound(m)'
      BY <1>1, <1>2, <1>3, <1>5 DEF UpInv, BasesFound
<1>10. \A k \in Machine \ {m} : ~Up(k) /\ ~Up(k)'
       BY <1>2, <1>3, OthersDown DEF RInv, Up
<1>11. DownInv'
       BY <1>1, <1>3, <1>10 DEF RInv, DownInv
<1>12. CacheInv'
  <2>1. cache' \in [Machine -> [PackId -> SUBSET (Entry \cup {Torn})]]
        BY DEF IInv, TypeInv, TypeOK
  <2>2. bucket'[batchId[m]] = batch[m]
        BY <1>1, <1>2 DEF RInv, IInv, TypeInv, TypeOK
  <2>3. CASE m \notin Caching
        BY <1>1, <2>1, <2>3, WrittenCache DEF Upload
  <2>4. CASE m \in Caching
    <3>1. /\ TypeInv /\ batch[m] \in SUBSET (Entry \cup {Torn})
          /\ WriteCached(m, batchId[m], batch[m])
          BY <2>4 DEF Upload, RInv, IInv, TypeInv, TypeOK
    <3>2. /\ \A k \in Machine : \A id \in PackId : k # m \/ id # batchId[m] =>
                 cache'[k][id] = cache[k][id] /\ (id \in missed[k] => id \in missed'[k])
          /\ \/ cache'[m][batchId[m]] \in {{}, {Torn}, batch[m]}
             \/ batchId[m] \in missed'[m]
          BY <1>2, <3>1, WrittenFile
    <3> QED
        BY <1>1, <2>1, <2>2, <2>4, <3>2, WrittenCache
  <2> QED
      BY <2>3, <2>4
<1> QED
    BY <1>2, <1>7, <1>8, <1>9, <1>10, <1>11, <1>12 DEF RInv, UpInv

LEMMA UploadFailsReads ==
    ASSUME RInv, IInv', OneCache, NEW m \in Machine, UploadFails(m)
    PROVE  RInv'
<1>1. /\ pc[m] = "upload" /\ Fails(m)
      /\ bucket' \in {bucket, [bucket EXCEPT ![batchId[m]] = batch[m]]}
      /\ UNCHANGED <<meta, cache, missed, packs, pending, nextId, index, batchId, own>>
      BY DEF UploadFails
<1>2. /\ batchId[m] \in PackId /\ Limit(m) = batchId[m] /\ nextId[m] = batchId[m] + 1
      /\ Up(m) /\ Busy(m) /\ UpInv(m) /\ pending[m] = {} /\ batch[m] # {}
      /\ \A id \in PackId : id < batchId[m] => bucket'[id] = bucket[id]
      /\ \A id \in PackId : packs[m][id] # {} => id < batchId[m]
      /\ Listed' \subseteq Listed \cup batch[m]
      /\ ListedInv'
      BY <1>1, WrittenListed
<1>3. /\ pc'[m] = "ready" /\ batch'[m] = {} /\ bases'[m] = {} /\ lost' = lost \cup Hashes(batch[m])
      /\ Up(m)' /\ ~Busy(m)' /\ Limit(m)' = batchId[m] + 1
      /\ \A k \in Machine \ {m} : pc'[k] = pc[k] /\ bases'[k] = bases[k]
      BY <1>1, <1>2 DEF Fails, Up, Busy, Limit, RInv, IInv, TypeInv, TypeOK
<1>4. /\ \A c \in DOMAIN index[m] : index[m][c] # NoPack =>
             index[m][c] \in PackId /\ index[m][c] < batchId[m]
      BY <1>2 DEF UpInv, IndexFound, RInv, IInv, TypeInv, TypeOK
<1>5. LoadedEntries(m)' = LoadedEntries(m) /\ Located(m)' = Located(m)
  <2>1. \A c \in DOMAIN index[m] : index[m][c] \in PackId => bucket'[index[m][c]] = bucket[index[m][c]]
    <3>1. NoPack \notin PackId
          BY CloudBounds DEF NoPack, PackId
    <3> QED
        BY <1>2, <1>4, <3>1
  <2> QED
      BY <1>1, <2>1 DEF LoadedEntries, Located
<1>6. Known(m)' \subseteq Known(m)
      BY <1>1, <1>2, <1>3, <1>5 DEF Known
<1>7. LoadedWhole(m)' /\ OwnInv(m)' /\ KnownInv(m)'
  <2>1. LoadedWhole(m)'
        BY <1>1, <1>2 DEF UpInv, LoadedWhole
  <2>2. KnownInv(m)'
        BY <1>1, <1>2, <1>6, AcyclicSub, RestOnSub DEF UpInv, KnownInv
  <2> QED
      BY <1>1, <1>2, <1>3, <2>1, <2>2, HashesOf DEF UpInv, OwnInv
<1>8. IndexFound(m)'
  <2>1. \A c \in DOMAIN index[m] :
            IF index[m][c] = NoPack
            THEN c \in Hashes(LoadedEntries(m)) \cup lost'
            ELSE index[m][c] < batchId[m] + 1 /\ c \in Hashes(bucket'[index[m][c]])
    <3>1. \A c \in DOMAIN index[m] : index[m][c] # NoPack => index[m][c] < batchId[m] + 1
          BY <1>2, <1>4 DEF PackId
    <3> QED
        BY <1>2, <1>3, <1>4, <3>1, HashesOf DEF UpInv, IndexFound
  <2> QED
      BY <1>1, <1>3, <1>5, <2>1 DEF IndexFound
<1>9. BasesFound(m)'
  <2>1. BasesFound(m) /\ RestOn({}, Hashes(batch'[m]) \cup Hashes(LoadedEntries(m)))
        BY <1>2 DEF UpInv, RestOn
  <2> QED
      BY <1>1, <1>3, <1>5, <2>1 DEF BasesFound
<1>10. \A k \in Machine \ {m} : ~Up(k) /\ ~Up(k)'
       BY <1>2, <1>3, OthersDown DEF RInv, Up
<1>11. DownInv'
       BY <1>1, <1>3, <1>10 DEF RInv, DownInv
<1>12. CacheInv'
  <2>1. cache' \in [Machine -> [PackId -> SUBSET (Entry \cup {Torn})]]
        BY DEF IInv, TypeInv, TypeOK
  <2> QED
      BY <1>1, <1>3, <2>1, WrittenCache
<1> QED
    BY <1>2, <1>7, <1>8, <1>9, <1>10, <1>11, <1>12 DEF RInv, UpInv

(* A process that ends knows nothing any more.                             *)
LEMMA StopReads ==
    ASSUME RInv, IInv', OneCache, NEW m \in Machine, StopStep(m)
    PROVE  RInv'
<1>1. /\ Stops(m) /\ Up(m)
      /\ \/ UNCHANGED bucket
         \/ pc[m] = "upload" /\ bucket' = [bucket EXCEPT ![batchId[m]] = batch[m]]
      BY StopType DEF RInv, IInv, Stops, Up
<1>2. /\ pc'[m] = "down" /\ packs'[m] = NoPacks /\ DOMAIN index'[m] = {}
      /\ own'[m] = {} /\ bases'[m] = {} /\ UNCHANGED meta
      /\ \A k \in Machine \ {m} : /\ pc'[k] = pc[k] /\ packs'[k] = packs[k] /\ index'[k] = index[k]
                                  /\ own'[k] = own[k] /\ bases'[k] = bases[k]
  <2>1. pc'[m] = "down" /\ packs'[m] = NoPacks /\ index'[m] = <<>> /\ own'[m] = {} /\ bases'[m] = {}
        BY <1>1 DEF Stops, RInv, IInv, TypeInv, TypeOK
  <2>2. DOMAIN <<>> = {}
        OBVIOUS
  <2>3. \A k \in Machine \ {m} : /\ pc'[k] = pc[k] /\ packs'[k] = packs[k] /\ index'[k] = index[k]
                                 /\ own'[k] = own[k] /\ bases'[k] = bases[k]
        BY <1>1 DEF Stops, RInv, IInv, TypeInv, TypeOK
  <2> QED
      BY <1>1, <2>1, <2>2, <2>3 DEF Stops
<1>3. \A k \in Machine : ~Up(k)'
      BY <1>1, <1>2, OthersDown DEF RInv, Up
<1>4. DownInv'
  <2>1. \A k \in Machine \ {m} : ~Up(k)
        BY <1>1, OthersDown DEF RInv
  <2> QED
      BY <1>2, <2>1 DEF RInv, DownInv
<1>5. ListedInv'
  <2>1. CASE UNCHANGED bucket
    <3>1. Listed' = Listed
          BY <1>2, <2>1 DEF Listed
    <3> QED
        BY <3>1 DEF RInv, ListedInv
  <2>2. CASE pc[m] = "upload" /\ bucket' = [bucket EXCEPT ![batchId[m]] = batch[m]]
        BY <1>2, <2>2, WrittenListed
  <2> QED
      BY <1>1, <2>1, <2>2
<1>6. cache' \in [Machine -> [PackId -> SUBSET (Entry \cup {Torn})]]
      /\ cache \in [Machine -> [PackId -> SUBSET (Entry \cup {Torn})]]
      BY DEF RInv, IInv, TypeInv, TypeOK
<1>7. \A k \in Machine : \A id \in PackId : Named(k, id)' => Named(k, id)
      BY <1>2, <1>3 DEF Named, NoPacks, Up
<1>8. CASE Stop(m)
  <2>1. CacheInv'
        BY <1>7, <1>8, CacheKept DEF Stop
  <2> QED
      BY <1>3, <1>4, <1>5, <2>1 DEF RInv
<1>9. CASE \E id \in PackId : StopInRead(m, id)
  <2>1. PICK id \in PackId : StopInRead(m, id)
        BY <1>9
  <2>2. /\ m \in Caching /\ bucket[id] # {} /\ UNCHANGED bucket
        /\ CacheHolds(m, id, {Torn})
        BY <2>1 DEF StopInRead, Reads
  <2>3. cache'[m][id] = {Torn}
        /\ \A k \in Machine : \A i \in PackId : k # m \/ i # id =>
               cache'[k][i] = cache[k][i] /\ (i \in missed[k] => i \in missed'[k])
        BY <2>2, WrittenFile DEF RInv, IInv
  <2>4. CacheInv'
    <3> SUFFICES ASSUME NEW k \in Machine, NEW i \in PackId, cache'[k][i] # {}
                 PROVE  /\ k \in Caching /\ bucket'[i] # {}
                        /\ Named(k, i)' => cache'[k][i] \in {{Torn}, bucket'[i]} \/ i \in missed'[k]
        BY DEF CacheInv
    <3>1. CASE k = m /\ i = id
          BY <2>2, <2>3, <3>1
    <3>2. CASE k # m \/ i # id
          BY <1>7, <2>2, <2>3, <3>2 DEF RInv, CacheInv
    <3> QED
        BY <3>1, <3>2
  <2> QED
      BY <1>3, <1>4, <1>5, <2>4 DEF RInv
<1>10. CASE StopInUpload(m)
  <2>1. /\ pc[m] = "upload" /\ m \in Caching /\ bucket' = [bucket EXCEPT ![batchId[m]] = batch[m]]
        /\ CacheHolds(m, batchId[m], {Torn}) \/ UNCHANGED <<cache, missed>>
        BY <1>10 DEF StopInUpload
  <2>2. batchId[m] \in PackId /\ bucket'[batchId[m]] = batch[m]
    <3>1. batchId[m] \in PackId
          BY <1>2, <2>1, WrittenListed
    <3> QED
        BY <2>1, <3>1 DEF RInv, IInv, TypeInv, TypeOK
  <2>3. ASSUME CacheHolds(m, batchId[m], {Torn}) PROVE CacheInv'
    <3>1. cache'[m][batchId[m]] = {Torn}
          /\ \A k \in Machine : \A i \in PackId : k # m \/ i # batchId[m] =>
                 cache'[k][i] = cache[k][i] /\ (i \in missed[k] => i \in missed'[k])
          BY <2>2, <2>3, WrittenFile DEF RInv, IInv
    <3>2. /\ bucket' \in {bucket, [bucket EXCEPT ![batchId[m]] = batch[m]]}
          /\ packs'[m] = NoPacks /\ DOMAIN index'[m] = {} /\ pc'[m] # "install" /\ UNCHANGED meta
          /\ cache' \in [Machine -> [PackId -> SUBSET (Entry \cup {Torn})]]
          BY <1>2, <1>6, <2>1
    <3> QED
        BY <2>1, <2>2, <3>1, <3>2, WrittenCache
  <2>4. ASSUME UNCHANGED <<cache, missed>> PROVE CacheInv'
    <3>1. /\ bucket' \in {bucket, [bucket EXCEPT ![batchId[m]] = batch[m]]}
          /\ packs'[m] = NoPacks /\ DOMAIN index'[m] = {} /\ pc'[m] # "install" /\ UNCHANGED meta
          /\ cache' \in [Machine -> [PackId -> SUBSET (Entry \cup {Torn})]]
          BY <1>2, <1>6, <2>1
    <3>2. /\ cache'[m][batchId[m]] = cache[m][batchId[m]]
          /\ \A k \in Machine : \A i \in PackId : k # m \/ i # batchId[m] =>
                 cache'[k][i] = cache[k][i] /\ (i \in missed[k] => i \in missed'[k])
          BY <2>4
    <3> QED
        BY <2>1, <3>1, <3>2, WrittenCache
  <2>5. CacheInv'
        BY <2>1, <2>3, <2>4
  <2> QED
      BY <1>3, <1>4, <1>5, <2>5 DEF RInv
<1> QED
    BY <1>8, <1>9, <1>10 DEF StopStep

-----------------------------------------------------------------------------
(* A pack that is installed.                                               *)

LEMMA LoadedListed ==
    ASSUME RInv, NEW m \in Machine, pc[m] = "install", UNCHANGED bucket,
           packs' = [packs EXCEPT ![m] = Loaded(m)], meta' \in {meta, MetaOf(Loaded(m))}
    PROVE  /\ Up(m) /\ Busy(m) /\ UpInv(m) /\ pending[m] = {} /\ Limit(m) = nextId[m]
           /\ LoadedEntries(m)' = LoadedEntries(m) \cup batch[m]
           /\ Hashes(LoadedEntries(m)') = Hashes(LoadedEntries(m)) \cup Hashes(batch[m])
           /\ LoadedWhole(m)'
           /\ Listed' \subseteq Listed \cup LoadedEntries(m)'
           /\ ListedInv'
           /\ \A id \in PackId : packs'[m][id] # {} => packs[m][id] # {} \/ id = batchId[m]
           /\ \A k \in Machine \ {m} : packs'[k] = packs[k]
           /\ meta' # {} => \A l \in meta' : l \in meta \/ (l[2] \in PackId /\ packs'[m][l[2]] # {})
           /\ meta' = {} => meta = {}
<1>1. /\ Up(m) /\ Busy(m) /\ pending[m] = {} /\ Limit(m) = nextId[m] /\ batchId[m] \in PackId
      /\ batch[m] \in SUBSET Entry /\ bucket[batchId[m]] = batch[m] /\ batch[m] # {}
      BY BatchType DEF Up, Busy, Limit, RInv, IInv, Shape
<1>2. UpInv(m)
      BY <1>1 DEF RInv
<1>3. /\ packs'[m] = Loaded(m) /\ \A k \in Machine \ {m} : packs'[k] = packs[k]
      /\ \A id \in PackId : Loaded(m)[id] = IF id = batchId[m] THEN batch[m] ELSE packs[m][id]
      BY DEF Loaded, RInv, IInv, TypeInv, TypeOK
<1>4. \A id \in PackId : packs[m][id] \in {{}, bucket[id]}
      BY <1>2 DEF UpInv, LoadedWhole
<1>5. LoadedWhole(m)'
      BY <1>1, <1>3, <1>4 DEF LoadedWhole
<1>6. LoadedEntries(m)' = LoadedEntries(m) \cup batch[m]
  <2>1. LoadedEntries(m)' = {e \in Entry : \E id \in PackId : e \in Loaded(m)[id]}
        BY <1>3 DEF LoadedEntries
  <2>2. \A e \in Entry : e \in batch[m] => \E id \in PackId : e \in Loaded(m)[id]
        BY <1>1, <1>3
  <2>3. \A e \in Entry : (\E id \in PackId : e \in packs[m][id]) => \E id \in PackId : e \in Loaded(m)[id]
        BY <1>1, <1>3, <1>4
  <2>4. \A e \in Entry : (\E id \in PackId : e \in Loaded(m)[id]) =>
            e \in batch[m] \/ \E id \in PackId : e \in packs[m][id]
        BY <1>3
  <2> QED
      BY <1>1, <2>1, <2>2, <2>3, <2>4 DEF LoadedEntries
<1>7. \A l \in MetaOf(Loaded(m)) : /\ l[2] \in PackId /\ packs'[m][l[2]] # {}
                                   /\ l[1] \in Hashes(Loaded(m)[l[2]])
  <2> SUFFICES ASSUME NEW l \in MetaOf(Loaded(m))
               PROVE  l[2] \in PackId /\ packs'[m][l[2]] # {} /\ l[1] \in Hashes(Loaded(m)[l[2]])
      OBVIOUS
  <2>1. PICK id \in PackId : \E c \in Hashes(Loaded(m)[id]) : l = <<c, id>>
        BY DEF MetaOf, Contents
  <2>2. l[2] = id /\ l[1] \in Hashes(Loaded(m)[id])
        BY <2>1
  <2> QED
      BY <1>3, <2>2, HashesOf
<1>8. MetaOf(Loaded(m)) # {}
  <2>1. PICK e \in batch[m] : TRUE
        BY <1>1
  <2>2. <<e[1], batchId[m]>> \in MetaOf(Loaded(m))
        BY <1>1, <1>3, InContents DEF MetaOf
  <2> QED
      BY <2>2
<1>9. CASE meta' = meta
  <2>1. Listed' = Listed
        BY <1>9 DEF Listed
  <2>2. ListedInv'
        BY <2>1 DEF RInv, ListedInv
  <2>3. Hashes(LoadedEntries(m)') = Hashes(LoadedEntries(m)) \cup Hashes(batch[m])
        BY <1>6, HashesOf
  <2> QED
      BY <1>1, <1>2, <1>3, <1>5, <1>6, <1>9, <2>1, <2>2, <2>3
<1>10. CASE meta' = MetaOf(Loaded(m))
  <2>1. Listed' = LoadedEntries(m)'
    <3>1. ASSUME NEW e \in Entry, NEW id \in PackId
          PROVE  (e \in bucket[id] /\ <<e[1], id>> \in MetaOf(Loaded(m))) <=> e \in Loaded(m)[id]
      <4>1. e \in Loaded(m)[id] => e \in bucket[id] /\ <<e[1], id>> \in MetaOf(Loaded(m))
            BY <1>1, <1>3, <1>4, InContents DEF MetaOf
      <4>2. <<e[1], id>> \in MetaOf(Loaded(m)) => Loaded(m)[id] # {}
            BY <1>3, <1>7
      <4>3. Loaded(m)[id] \in {{}, bucket[id]}
            BY <1>1, <1>3, <1>4
      <4> QED
          BY <4>1, <4>2, <4>3
    <3>2. Listed' = {e \in Entry : \E id \in PackId :
                        e \in bucket[id] /\ <<e[1], id>> \in MetaOf(Loaded(m))}
          BY <1>8, <1>10 DEF Listed
    <3>3. LoadedEntries(m)' = {e \in Entry : \E id \in PackId : e \in Loaded(m)[id]}
          BY <1>3 DEF LoadedEntries
    <3> QED
        BY <3>1, <3>2, <3>3
  <2>2. LoadedEntries(m)' \subseteq Known(m)
        BY <1>6 DEF Known
  <2>3. Hashes(LoadedEntries(m)') = Hashes(LoadedEntries(m)) \cup Hashes(batch[m])
        BY <1>6, HashesOf
  <2>4. RestOn(LoadedEntries(m)', Hashes(LoadedEntries(m)'))
        BY <1>2, <1>6, <2>3 DEF UpInv, BasesFound, RestOn
  <2>5. ListedInv'
        BY <1>2, <2>1, <2>2, <2>4, AcyclicSub DEF ListedInv, UpInv, KnownInv
  <2> QED
      BY <1>1, <1>2, <1>3, <1>5, <1>6, <1>7, <1>8, <1>10, <2>1, <2>3, <2>5
<1> QED
    BY <1>9, <1>10

LEMMA InstalledReads ==
    ASSUME RInv, IInv', OneCache, NEW m \in Machine, pc[m] = "install",
           UNCHANGED <<bucket, cache, missed, pending, nextId>>,
           packs' = [packs EXCEPT ![m] = Loaded(m)], meta' \in {meta, MetaOf(Loaded(m))},
           pc'[m] = "ready", batch'[m] = {}, lost \subseteq lost',
           \A k \in Machine \ {m} : /\ pc'[k] = pc[k] /\ index'[k] = index[k]
                                    /\ own'[k] = own[k] /\ bases'[k] = bases[k],
           DOMAIN index[m] \subseteq DOMAIN index'[m],
           \A c \in DOMAIN index'[m] :
               \/ index'[m][c] = NoPack /\ c \in Hashes(batch[m])
               \/ c \in DOMAIN index[m] /\ index'[m][c] = index[m][c],
           bases'[m] \subseteq bases[m] \cap DOMAIN index'[m], own'[m] \subseteq DOMAIN index'[m]
    PROVE  RInv'
<1>1. /\ Up(m) /\ Busy(m) /\ UpInv(m) /\ pending[m] = {} /\ Limit(m) = nextId[m]
      /\ LoadedEntries(m)' = LoadedEntries(m) \cup batch[m]
      /\ Hashes(LoadedEntries(m)') = Hashes(LoadedEntries(m)) \cup Hashes(batch[m])
      /\ LoadedWhole(m)'
      /\ Listed' \subseteq Listed \cup LoadedEntries(m)'
      /\ ListedInv'
      /\ \A id \in PackId : packs'[m][id] # {} => packs[m][id] # {} \/ id = batchId[m]
      /\ \A k \in Machine \ {m} : packs'[k] = packs[k]
      /\ meta' # {} => \A l \in meta' : l \in meta \/ (l[2] \in PackId /\ packs'[m][l[2]] # {})
      /\ meta' = {} => meta = {}
      BY LoadedListed
<1>2. Up(m)' /\ ~Busy(m)' /\ Limit(m)' = Limit(m) /\ Hashes({}) = {}
      BY <1>1, HashesOf DEF Up, Busy, Limit
<1>3. NoPack \notin PackId
      BY CloudBounds DEF NoPack, PackId
<1>4. /\ Located(m)' \subseteq Located(m)
      /\ \A e \in Located(m) : e \in Located(m)' \/ e[1] \in Hashes(batch[m])
      BY <1>3 DEF Located
<1>5. Hashes(Located(m)) \subseteq Hashes(Located(m)') \cup Hashes(batch[m])
      BY <1>4 DEF Hashes
<1>6. Known(m)' \subseteq Known(m)
      BY <1>1, <1>4 DEF Known
<1>7. KnownInv(m)' /\ OwnInv(m)'
  <2>1. KnownInv(m)'
        BY <1>1, <1>6, AcyclicSub, RestOnSub DEF UpInv, KnownInv
  <2> QED
      BY <1>1, <1>2, <2>1 DEF OwnInv
<1>8. IndexFound(m)'
  <2> SUFFICES ASSUME NEW c \in DOMAIN index'[m]
               PROVE  IF index'[m][c] = NoPack
                      THEN c \in Hashes(LoadedEntries(m)') \cup lost'
                      ELSE index'[m][c] < Limit(m) /\ c \in Hashes(bucket[index'[m][c]])
      BY <1>2 DEF IndexFound
  <2>1. CASE index'[m][c] = NoPack /\ c \in Hashes(batch[m])
        BY <1>1, <2>1
  <2>2. CASE c \in DOMAIN index[m] /\ index'[m][c] = index[m][c]
    <3>1. IF index[m][c] = NoPack
          THEN c \in Hashes(pending[m]) \cup Hashes(batch[m]) \cup Hashes(LoadedEntries(m)) \cup lost
          ELSE index[m][c] < Limit(m) /\ c \in Hashes(bucket[index[m][c]])
          BY <1>1, <2>2 DEF UpInv, IndexFound
    <3>2. Hashes(pending[m]) = {}
          BY <1>1, <1>2
    <3> QED
        BY <1>1, <2>2, <3>1, <3>2
  <2> QED
      BY <2>1, <2>2
<1>9. BasesFound(m)'
  <2>1. BasesFound(m)
        BY <1>1 DEF UpInv
  <2>2. RestOn(LoadedEntries(m)', Hashes(LoadedEntries(m)'))
        BY <1>1, <2>1 DEF BasesFound, RestOn
  <2>3. RestOn(Located(m)', Hashes(Located(m)') \cup Hashes(LoadedEntries(m)'))
    <3>1. Hashes(Located(m)) \cup Hashes(LoadedEntries(m)) \subseteq
              Hashes(Located(m)') \cup Hashes(LoadedEntries(m)')
          BY <1>1, <1>5
    <3>2. RestOn(Located(m), Hashes(Located(m)) \cup Hashes(LoadedEntries(m)))
          BY <2>1 DEF BasesFound
    <3> QED
        BY <1>4, <3>1, <3>2 DEF RestOn
  <2>4. RestOn({}, Hashes({}) \cup Hashes(LoadedEntries(m)'))
        BY DEF RestOn
  <2>5. bases'[m] \subseteq Hashes(LoadedEntries(m)')
        BY <1>1, <1>2, <2>1 DEF BasesFound
  <2> QED
      BY <1>1, <1>2, <2>2, <2>3, <2>4, <2>5 DEF BasesFound
<1>10. \A k \in Machine \ {m} : ~Up(k) /\ ~Up(k)'
       BY <1>1, OthersDown DEF RInv, Up
<1>11. DownInv'
       BY <1>2, <1>10 DEF RInv, DownInv
<1>12. CacheInv'
  <2>1. ASSUME NEW id \in PackId, Named(m, id)' PROVE Named(m, id)
    <3>1. meta' # {} /\ (\E l \in meta' : l[2] = id) =>
              (\E l \in meta : l[2] = id) \/ packs'[m][id] # {}
          BY <1>1
    <3>2. packs'[m][id] # {} => Named(m, id)
          BY <1>1 DEF Named
    <3>3. (\E c \in DOMAIN index'[m] : index'[m][c] = id) => \E c \in DOMAIN index[m] : index[m][c] = id
          BY <1>3
    <3>4. meta' = {} => Named(m, id)
          BY <1>1 DEF Named
    <3>5. (\E l \in meta : l[2] = id) \/ (\E c \in DOMAIN index[m] : index[m][c] = id) => Named(m, id)
          BY DEF Named
    <3>6. \/ meta' = {} \/ \E l \in meta' : l[2] = id
          \/ packs'[m][id] # {} \/ \E c \in DOMAIN index'[m] : index'[m][c] = id
          BY <2>1 DEF Named
    <3> QED
        BY <3>1, <3>2, <3>3, <3>4, <3>5, <3>6
  <2>2. ASSUME NEW k \in Machine, NEW id \in PackId, cache'[k][id] # {}
        PROVE  /\ k \in Caching /\ bucket'[id] # {}
               /\ Named(k, id)' => cache'[k][id] \in {{Torn}, bucket'[id]} \/ id \in missed'[k]
    <3>1. k \in Caching /\ bucket[id] # {}
          BY <2>2 DEF RInv, CacheInv
    <3>2. k = m
          BY <3>1 DEF OneCache
    <3> QED
        BY <2>1, <2>2, <3>1, <3>2 DEF RInv, CacheInv
  <2> QED
      BY <2>2 DEF CacheInv
<1> QED
    BY <1>1, <1>7, <1>8, <1>9, <1>10, <1>11, <1>12 DEF RInv, UpInv

LEMMA InstallReads ==
    ASSUME RInv, IInv', OneCache, NEW m \in Machine, Install(m)
    PROVE  RInv'
<1>1. /\ pc[m] = "install" /\ packs' = [packs EXCEPT ![m] = Loaded(m)] /\ meta' = MetaOf(Loaded(m))
      /\ UNCHANGED <<bucket, cache, missed, pending, nextId, lost>>
      /\ pc'[m] = "ready" /\ batch'[m] = {} /\ \A k \in Machine \ {m} : pc'[k] = pc[k]
      BY DEF Install, RInv, IInv, TypeInv, TypeOK
<1>2. /\ Up(m) /\ Busy(m) /\ pending[m] = {} /\ owed[m] \subseteq DOMAIN index[m]
      BY <1>1 DEF Up, Busy, RInv, IInv, Shape
<1>3. /\ bases[m] \subseteq DOMAIN index[m] \cup {item[m]} /\ own[m] \subseteq DOMAIN index[m]
      BY <1>2 DEF RInv, UpInv, BasesFound, OwnInv
<1>4. CASE item[m] = NoChunk /\ FlushReturns(m) /\ UNCHANGED index
  <2>1. /\ own'[m] = own[m] \cup owed[m] /\ bases'[m] = {}
        /\ \A k \in Machine \ {m} : own'[k] = own[k] /\ bases'[k] = bases[k]
        BY <1>4 DEF FlushReturns, RInv, IInv, TypeInv, TypeOK
  <2>2. own'[m] \subseteq DOMAIN index'[m] /\ bases'[m] \subseteq bases[m] \cap DOMAIN index'[m]
        BY <1>2, <1>3, <1>4, <2>1
  <2> QED
      BY <1>1, <1>4, <2>1, <2>2, InstalledReads
<1>5. CASE item[m] # NoChunk /\ Indexed(m, item[m]) /\ UNCHANGED <<bases, own, promised>>
  <2>1. item[m] \in Chunk /\ item[m] \in Hashes(batch[m]) /\ TypeInv
        BY <1>2, <1>5 DEF RInv, IInv, Shape, TypeInv, TypeOK
  <2>2. /\ DOMAIN index'[m] = DOMAIN index[m] \cup {item[m]} /\ index'[m][item[m]] = NoPack
        /\ \A d \in DOMAIN index[m] \ {item[m]} : index'[m][d] = index[m][d]
        /\ \A k \in Machine \ {m} : index'[k] = index[k]
        BY <1>1, <1>5, <2>1, IndexedEffect
  <2>3. own'[m] \subseteq DOMAIN index'[m] /\ bases'[m] \subseteq bases[m] \cap DOMAIN index'[m]
        BY <1>3, <1>5, <2>2
  <2> QED
      BY <1>1, <1>5, <2>1, <2>2, <2>3, InstalledReads
<1> QED
    BY <1>4, <1>5 DEF Install

LEMMA InstallFailsReads ==
    ASSUME RInv, IInv', OneCache, NEW m \in Machine, InstallFails(m)
    PROVE  RInv'
<1>1. /\ pc[m] = "install" /\ packs' = [packs EXCEPT ![m] = Loaded(m)]
      /\ meta' \in {meta, MetaOf(Loaded(m))}
      /\ UNCHANGED <<bucket, cache, missed, pending, nextId, index, own>> /\ lost \subseteq lost'
      /\ pc'[m] = "ready" /\ batch'[m] = {} /\ bases'[m] = {}
      /\ \A k \in Machine \ {m} : pc'[k] = pc[k] /\ bases'[k] = bases[k]
      BY DEF InstallFails, Fails, RInv, IInv, TypeInv, TypeOK
<1>2. Up(m)
      BY <1>1 DEF Up
<1>3. own[m] \subseteq DOMAIN index[m]
      BY <1>2 DEF RInv, UpInv, OwnInv
<1> QED
    BY <1>1, <1>3, InstalledReads

-----------------------------------------------------------------------------
(* A process that begins, from the listed packs.                           *)

LEMMA OpenReads ==
    ASSUME RInv, IInv', OneAtATime, ~ReadCanFail, NEW m \in Machine,
           OpenFromMeta(m) \/ OpenFromPacks(m)
    PROVE  RInv'
<1>1. PICK located, loaded :
          /\ Opens(m, located, loaded)
          /\ \/ meta # {} /\ located = meta /\ loaded = NoPacks
             \/ meta = {} /\ located = Contents(bucket) /\ loaded = bucket
      BY OpenType DEF RInv, IInv
<1>2. /\ UNCHANGED <<bucket, meta, cache, missed, pending, item, batch, batchId, bases, own, lost>>
      /\ packs' = [packs EXCEPT ![m] = loaded] /\ pc' = [pc EXCEPT ![m] = "ready"]
      /\ \A k \in Machine : ~Up(k)
      BY <1>1 DEF Opens, history, Up
<1>3. /\ pc'[m] = "ready" /\ packs'[m] = loaded /\ Up(m)' /\ ~Busy(m)'
      /\ pending[m] = {} /\ batch[m] = {} /\ own[m] = {} /\ bases[m] = {} /\ Hashes({}) = {}
      /\ \A k \in Machine \ {m} : /\ pc'[k] = pc[k] /\ packs'[k] = packs[k] /\ ~Up(k)'
  <2>1. pc'[m] = "ready" /\ packs'[m] = loaded
        /\ \A k \in Machine \ {m} : /\ pc'[k] = pc[k] /\ packs'[k] = packs[k]
        BY <1>2 DEF RInv, IInv, TypeInv, TypeOK
  <2>2. ~Busy(m) /\ ~Up(m)
        BY <1>2 DEF Busy, Up
  <2> QED
      BY <1>2, <2>1, <2>2, HashesOf DEF Up, Busy, RInv, DownInv, IInv, TypeInv, Shape
<1>4. /\ \A c \in DOMAIN index'[m] : <<c, index'[m][c]>> \in located
      /\ DOMAIN index'[m] = {l[1] : l \in located}
      /\ \A k \in Machine \ {m} : index'[k] = index[k]
      BY <1>1 DEF Opens, RInv, IInv, TypeInv
<1>5. \A l \in located : l[2] < nextId'[m] /\ nextId'[m] = Limit(m)'
  <2>1. PICK n \in 0 .. MaxPack + 1 :
            /\ NextAfter(n, {l[2] : l \in located})
            /\ nextId' = [nextId EXCEPT ![m] = n]
        BY <1>1 DEF Opens
  <2> QED
      BY <1>3, <2>1 DEF NextAfter, Limit, RInv, IInv, TypeInv, TypeOK
<1>6. \A c : \A id : <<c, id>> \in located => id \in PackId /\ c \in Hashes(bucket[id])
  <2> SUFFICES ASSUME NEW c, NEW id, <<c, id>> \in located
               PROVE  id \in PackId /\ c \in Hashes(bucket[id])
      OBVIOUS
  <2>1. CASE located = meta
        BY <2>1 DEF RInv, IInv, MetaPointsAtPacks, TypeInv, TypeOK
  <2>2. CASE located = Contents(bucket)
    <3>1. PICK i \in PackId : \E d \in Hashes(bucket[i]) : <<c, id>> = <<d, i>>
          BY <2>2 DEF Contents
    <3> QED
        BY <3>1
  <2> QED
      BY <1>1, <2>1, <2>2
<1>7. \A id \in PackId : \A e \in bucket[id] : e \in Entry
      BY DEF RInv, IInv, TypeInv, TypeOK
<1>8. \A e \in Listed : \E id \in PackId : e \in bucket[id] /\ <<e[1], id>> \in located
      BY <1>1, InContents DEF Listed
<1>9. \A id \in PackId : \A e \in bucket[id] : <<e[1], id>> \in located => e \in Listed
      BY <1>1, <1>7 DEF Listed
<1>10. DOMAIN index'[m] = Hashes(Listed)
  <2>1. \A c \in Hashes(Listed) : \E id : <<c, id>> \in located
        BY <1>8 DEF Hashes
  <2>2. \A c \in Hashes(Listed) : c \in DOMAIN index'[m]
    <3> SUFFICES ASSUME NEW c \in Hashes(Listed) PROVE c \in DOMAIN index'[m]
        OBVIOUS
    <3>1. PICK id : <<c, id>> \in located
          BY <2>1
    <3>2. <<c, id>>[1] = c
          OBVIOUS
    <3> QED
        BY <1>4, <3>1, <3>2
  <2>3. \A c \in DOMAIN index'[m] : c \in Hashes(Listed)
    <3> SUFFICES ASSUME NEW c \in DOMAIN index'[m] PROVE c \in Hashes(Listed)
        OBVIOUS
    <3>1. <<c, index'[m][c]>> \in located
          BY <1>4
    <3>2. PICK e \in bucket[index'[m][c]] : e[1] = c
          BY <1>6, <3>1 DEF Hashes
    <3>3. e \in Listed
          BY <1>6, <1>9, <3>1, <3>2
    <3> QED
        BY <3>2, <3>3 DEF Hashes
  <2> QED
      BY <2>2, <2>3
<1>11. Located(m)' \subseteq Listed /\ Hashes(Listed) \subseteq Hashes(Located(m)')
  <2>1. Located(m)' \subseteq Listed
        BY <1>2, <1>4, <1>9 DEF Located
  <2>2. \A c \in DOMAIN index'[m] : c \in Hashes(Located(m)')
    <3> SUFFICES ASSUME NEW c \in DOMAIN index'[m] PROVE c \in Hashes(Located(m)')
        OBVIOUS
    <3>1. index'[m][c] \in PackId /\ c \in Hashes(bucket[index'[m][c]])
          BY <1>4, <1>6
    <3>2. PICK e \in bucket[index'[m][c]] : e[1] = c
          BY <3>1 DEF Hashes
    <3>3. e \in Located(m)'
          BY <1>2, <1>7, <3>1, <3>2 DEF Located
    <3> QED
        BY <3>2, <3>3 DEF Hashes
  <2> QED
      BY <1>10, <2>1, <2>2
<1>12. LoadedEntries(m)' = {} \/ LoadedEntries(m)' = Listed
  <2>1. CASE loaded = NoPacks
        BY <1>3, <2>1 DEF LoadedEntries, NoPacks
  <2>2. CASE loaded = bucket /\ meta = {}
        BY <1>3, <2>2 DEF LoadedEntries, Listed
  <2> QED
      BY <1>1, <2>1, <2>2
<1>13. Listed' = Listed /\ ListedInv'
  <2>1. Listed' = Listed
        BY <1>2 DEF Listed
  <2> QED
      BY <2>1 DEF RInv, ListedInv
<1>14. Known(m)' \subseteq Listed
       BY <1>2, <1>3, <1>11, <1>12, <1>13 DEF Known
<1>15. RestOn(Listed, Hashes(Listed)) /\ Acyclic(Listed)
       BY DEF RInv, ListedInv
<1>16. LoadedWhole(m)'
       BY <1>1, <1>2, <1>3 DEF LoadedWhole, NoPacks
<1>17. IndexFound(m)'
  <2>1. NoPack \notin PackId
        BY CloudBounds DEF NoPack, PackId
  <2>2. \A c \in DOMAIN index'[m] : /\ index'[m][c] # NoPack /\ index'[m][c] < Limit(m)'
                                    /\ c \in Hashes(bucket[index'[m][c]])
    <3> SUFFICES ASSUME NEW c \in DOMAIN index'[m]
                 PROVE  /\ index'[m][c] # NoPack /\ index'[m][c] < Limit(m)'
                        /\ c \in Hashes(bucket[index'[m][c]])
        OBVIOUS
    <3>1. <<c, index'[m][c]>> \in located
          BY <1>4
    <3>2. <<c, index'[m][c]>>[2] = index'[m][c]
          OBVIOUS
    <3> QED
        BY <1>5, <1>6, <2>1, <3>1, <3>2
  <2> QED
      BY <1>2, <2>2 DEF IndexFound
<1>18. BasesFound(m)'
  <2>1. RestOn(LoadedEntries(m)', Hashes(LoadedEntries(m)'))
        BY <1>12, <1>15 DEF RestOn
  <2>2. RestOn(Located(m)', Hashes(Located(m)') \cup Hashes(LoadedEntries(m)'))
        BY <1>11, <1>15 DEF RestOn
  <2>3. RestOn({}, Hashes({}) \cup Hashes(LoadedEntries(m)'))
        BY DEF RestOn
  <2> QED
      BY <1>2, <1>3, <2>1, <2>2, <2>3 DEF BasesFound
<1>19. KnownInv(m)' /\ OwnInv(m)'
       BY <1>2, <1>3, <1>10, <1>14, <1>15, AcyclicSub, RestOnSub DEF KnownInv, OwnInv
<1>20. DownInv'
       BY <1>2, <1>3, <1>4 DEF RInv, DownInv
<1>21. CacheInv'
  <2>1. \A id \in PackId : Named(m, id)' => Named(m, id)
    <3> SUFFICES ASSUME NEW id \in PackId, Named(m, id)', meta # {} PROVE \E l \in meta : l[2] = id
        BY DEF Named
    <3>1. located = meta /\ packs'[m][id] = {} /\ pc'[m] # "install"
          BY <1>1, <1>3 DEF NoPacks
    <3>2. \A c \in DOMAIN index'[m] : index'[m][c] = id => \E l \in meta : l[2] = id
      <4> SUFFICES ASSUME NEW c \in DOMAIN index'[m], index'[m][c] = id PROVE \E l \in meta : l[2] = id
          OBVIOUS
      <4>1. <<c, id>> \in meta
            BY <1>4, <3>1
      <4>2. <<c, id>>[2] = id
            OBVIOUS
      <4> QED
          BY <4>1, <4>2
    <3> QED
        BY <1>2, <3>1, <3>2 DEF Named
  <2>2. \A k \in Machine \ {m} : \A id \in PackId : Named(k, id)' => Named(k, id)
        BY <1>2, <1>3, <1>4 DEF Named
  <2>3. \A k \in Machine : \A id \in PackId : Named(k, id)' => Named(k, id)
        BY <2>1, <2>2
  <2> QED
      BY <1>2, <2>3, CacheKept
<1> QED
    BY <1>3, <1>13, <1>16, <1>17, <1>18, <1>19, <1>20, <1>21 DEF RInv, UpInv

-----------------------------------------------------------------------------
(* The invariant of reads, and what it says of them.                       *)

LEMMA InitRInv ==
    ASSUME Init
    PROVE  RInv
<1>1. IInv
      BY InitIInv
<1>2. DOMAIN <<>> = {}
      OBVIOUS
<1>3. Listed = {}
      BY DEF Init, Listed, NoPacks
<1>4. ListedInv
      BY <1>3 DEF ListedInv, RestOn, Acyclic
<1>5. DownInv
      BY <1>2 DEF Init, DownInv
<1>6. CacheInv
      BY DEF Init, CacheInv, NoPacks
<1>7. \A m \in Machine : ~Up(m)
      BY DEF Init, Up
<1> QED
    BY <1>1, <1>4, <1>5, <1>6, <1>7 DEF RInv

LEMMA NextRInv ==
    ASSUME RInv, OneAtATime, ~ReadCanFail, OneCache, [Next]_vars
    PROVE  RInv'
<1>1. IInv'
      BY NextIInv DEF RInv
<1>2. ASSUME NEW m \in Machine, OpenFromMeta(m) \/ OpenFromPacks(m)
      PROVE  RInv'
      BY <1>1, <1>2, OpenReads
<1>3. ASSUME NEW m \in Machine, Backup(m)
      PROVE  RInv'
      BY <1>1, <1>3, SkipReads, PutKeepsReads, FlushKeepsReads, UploadReads, UploadFailsReads,
         InstallReads, InstallFailsReads DEF Backup
<1>4. ASSUME NEW m \in Machine, CacheStep(m)
      PROVE  RInv'
      BY <1>1, <1>4, CacheReads
<1>5. ASSUME NEW m \in Machine, StopStep(m)
      PROVE  RInv'
      BY <1>1, <1>5, StopReads
<1>6. CASE UNCHANGED vars
  <2>1. /\ UNCHANGED <<bucket, meta, packs, pending, index, pc, item, batch, batchId, nextId>>
        /\ UNCHANGED <<cache, missed, lost, bases, own>>
        BY <1>6 DEF vars, memory, history
  <2>2. CacheInv'
        BY <2>1, CacheKept DEF Named
  <2>3. \A k \in Machine : /\ Up(k) => OwnInv(k)'
                           /\ ~Up(k) => own'[k] = {}
        BY <2>1 DEF RInv, UpInv, OwnInv, DownInv
  <2> QED
      BY <1>1, <2>1, <2>2, <2>3, SameReads
<1> QED
    BY <1>2, <1>3, <1>4, <1>5, <1>6 DEF Next

(* With cache files that are the packs, reads find what was located and    *)
(* loaded.                                                                 *)
LEMMA FoundEntries ==
    ASSUME RInv, NEW m \in Machine, pc[m] = "ready", ~TornCache(m), missed[m] = {}
    PROVE  Found(m) = Located(m) \cup LoadedEntries(m)
<1>1. UpInv(m)
      BY DEF RInv, Up
<1>2. TypeOK
      BY DEF RInv, IInv, TypeInv
<1>3. ASSUME NEW id \in PackId, Named(m, id)
      PROVE  PackRead(m, id) = bucket[id]
      BY <1>3 DEF RInv, CacheInv, TornCache, PackRead
<1>4. \A id \in PackId : packs[m][id] \in {{}, bucket[id]}
      BY <1>1 DEF UpInv, LoadedWhole
<1> DEFINE loaded == UNION {packs[m][id] : id \in {i \in PackId : PackRead(m, i) # {}}}
           located == UNION {{e \in PackRead(m, id) :
                e # Torn /\ e[1] \in DOMAIN index[m] /\ index[m][e[1]] = id} : id \in PackId}
<1>5. ASSUME NEW id \in PackId, packs[m][id] # {}
      PROVE  PackRead(m, id) # {}
  <2>1. Named(m, id)
        BY <1>5 DEF Named
  <2> QED
      BY <1>3, <1>4, <1>5, <2>1
<1>6. loaded = LoadedEntries(m)
  <2>1. \A id \in PackId : \A e \in packs[m][id] : e \in Entry
        BY <1>2 DEF TypeOK
  <2>2. \A e \in loaded : e \in LoadedEntries(m)
        BY <2>1 DEF LoadedEntries
  <2>3. \A e \in LoadedEntries(m) : e \in loaded
        BY <1>5 DEF LoadedEntries
  <2> QED
      BY <2>2, <2>3
<1>7. \A id \in PackId : \A e \in bucket[id] : e \in Entry /\ e # Torn
      BY <1>2, CloudNames DEF TypeOK
<1>8. ASSUME NEW id \in PackId, NEW c \in DOMAIN index[m], index[m][c] = id
      PROVE  PackRead(m, id) = bucket[id]
  <2>1. Named(m, id)
        BY <1>8 DEF Named
  <2> QED
      BY <1>3, <2>1
<1>9. located = Located(m)
  <2>1. \A e \in located : e \in Located(m)
    <3> SUFFICES ASSUME NEW e \in located PROVE e \in Located(m)
        OBVIOUS
    <3>1. PICK id \in PackId : /\ e \in PackRead(m, id)
                               /\ e[1] \in DOMAIN index[m] /\ index[m][e[1]] = id
          OBVIOUS
    <3> QED
        BY <1>7, <1>8, <3>1 DEF Located
  <2>2. \A e \in Located(m) : e \in located
    <3> SUFFICES ASSUME NEW e \in Located(m) PROVE e \in located
        OBVIOUS
    <3>1. PICK id \in PackId : /\ e \in bucket[id]
                               /\ e[1] \in DOMAIN index[m] /\ index[m][e[1]] = id
          BY DEF Located
    <3>2. e \in PackRead(m, id) /\ e # Torn
          BY <1>7, <1>8, <3>1
    <3> QED
        BY <3>1, <3>2
  <2> QED
      BY <2>1, <2>2
<1>10. Found(m) = located \cup loaded
       BY DEF Found
<1> HIDE DEF located, loaded
<1> QED
    BY <1>6, <1>9, <1>10

(* All that is located or loaded, and not to be written, can be read: the  *)
(* chunks that could not would rest on one another.                        *)
LEMMA FoundReadable ==
    ASSUME RInv, NEW m \in Machine, pc[m] = "ready", ~TornCache(m), missed[m] = {},
           NEW c \in Hashes(Located(m) \cup LoadedEntries(m)) \ Hashes(pending[m])
    PROVE  c \in Readable(m)
<1> DEFINE found == {e \in Found(m) : e[1] \notin Hashes(pending[m])}
           Closed(R) == /\ InFull(pending[m]) \cup InFull(found) \subseteq R
                        /\ \A e \in found : e[2] \in R => e[1] \in R
<1>1. Found(m) = Located(m) \cup LoadedEntries(m)
      BY FoundEntries
<1>2. UpInv(m)
      BY DEF RInv, Up
<1>3. \A e \in Found(m) : e[1] \in Chunk /\ e[2] \in Chunk \cup {NoChunk}
  <2>1. Located(m) \subseteq Entry /\ LoadedEntries(m) \subseteq Entry
        BY DEF Located, LoadedEntries
  <2> QED
      BY <1>1, <2>1 DEF Entry
<1>4. c \in Hashes(found)
      BY <1>1 DEF Hashes
<1>5. \A e \in found : e[2] # NoChunk => e[2] \in Hashes(found)
  <2> SUFFICES ASSUME NEW e \in found, e[2] # NoChunk PROVE e[2] \in Hashes(found)
      OBVIOUS
  <2>1. BasesFound(m)
        BY <1>2 DEF UpInv
  <2>2. e[2] \in Hashes(Located(m)) \cup Hashes(LoadedEntries(m)) /\ e[2] \notin Hashes(pending[m])
        BY <1>1, <2>1 DEF BasesFound, RestOn
  <2> QED
      BY <1>1, <2>2 DEF Hashes
<1>6. Hashes(found) \subseteq Chunk
      BY <1>3 DEF Hashes
<1>7. found \subseteq Known(m)
      BY <1>1 DEF Known
<1>8. \A e \in found : e[2] = NoChunk => e[1] \in InFull(found)
      BY DEF InFull
<1>9. \A d \in Hashes(found) : \E e \in found : e[1] = d
      BY DEF Hashes
<1> HIDE DEF found
<1>10. ASSUME NEW R \in SUBSET Chunk, Closed(R) PROVE c \in R
  <2> DEFINE S == Hashes(found) \ R
  <2> SUFFICES ASSUME S # {} PROVE FALSE
      BY <1>4
  <2>1. S \in SUBSET Chunk
        BY <1>6
  <2>2. PICK d \in S : \A e \in Known(m) : e[1] = d => e[2] \notin S
        BY <1>2, <2>1 DEF UpInv, KnownInv, Acyclic
  <2>3. PICK e \in found : e[1] = d
        BY <1>9
  <2>4. e[2] \notin S
        BY <1>7, <2>2, <2>3
  <2>5. CASE e[2] = NoChunk
        BY <1>8, <1>10, <2>3, <2>5
  <2>6. CASE e[2] # NoChunk
        BY <1>5, <1>10, <2>3, <2>4, <2>6
  <2> QED
      BY <2>5, <2>6
<1>11. c \in Chunk
       BY <1>4, <1>6
<1>12. Readable(m) = {d \in Chunk : \A R \in SUBSET Chunk : Closed(R) => d \in R}
       BY DEF Readable, found
<1> HIDE DEF Closed
<1> QED
    BY <1>10, <1>11, <1>12

(* A process that takes its turn, through failed writes and restarts,      *)
(* reads every chunk of its backups that returned Ok, from the packs or    *)
(* the cache (get, get_from_pack, read_pack_cached), provided that         *)
(* _meta.index can be read, that no other machine writes packs it may have *)
(* cached, and that no file in its cache is cut off or could not be        *)
(* written anew.                                                           *)
THEOREM ReadYourWritesHolds ==
    ASSUME OneAtATime, ~ReadCanFail, Caching = {} \/ \A m, n \in Machine : m = n
    PROVE  Spec => []ReadYourWrites
<1>1. Init => RInv
      BY InitRInv
<1>2. OneCache
      BY DEF OneCache
<1>3. RInv /\ [Next]_vars => RInv'
      BY <1>2, NextRInv
<1>4. ASSUME RInv PROVE ReadYourWrites
  <2> SUFFICES ASSUME NEW m \in Machine, pc[m] = "ready", ~TornCache(m), missed[m] = {}, NEW c \in own[m] \ lost
               PROVE  c \in Readable(m)
      BY DEF ReadYourWrites
  <2>1. UpInv(m) /\ Hashes(batch[m]) = {}
    <3>1. batch[m] = {}
          BY <1>4 DEF RInv, IInv, Shape, Busy
    <3> QED
        BY <1>4, <3>1, HashesOf DEF RInv, Up
  <2>2. c \in DOMAIN index[m] \ Hashes(pending[m])
        BY <2>1 DEF UpInv, OwnInv
  <2>3. c \in Hashes(Located(m) \cup LoadedEntries(m))
    <3>1. CASE index[m][c] = NoPack
      <4>1. c \in Hashes(LoadedEntries(m))
            BY <2>1, <2>2, <3>1 DEF UpInv, IndexFound
      <4> QED
          BY <4>1, HashesOf
    <3>2. CASE index[m][c] # NoPack
      <4>1. index[m][c] \in PackId /\ c \in Hashes(bucket[index[m][c]])
            BY <1>4, <2>1, <2>2, <3>2 DEF UpInv, IndexFound, RInv, IInv, TypeInv, TypeOK
      <4>2. PICK e \in bucket[index[m][c]] : e[1] = c
            BY <4>1 DEF Hashes
      <4>3. e \in Located(m)
            BY <1>4, <2>2, <4>1, <4>2 DEF Located, RInv, IInv, TypeInv, TypeOK
      <4> QED
          BY <4>2, <4>3 DEF Hashes
    <3> QED
        BY <3>1, <3>2
  <2> QED
      BY <1>4, <2>2, <2>3, FoundReadable
<1> QED
    BY <1>1, <1>3, <1>4, PTL DEF Spec

=============================================================================
