----------------------------- MODULE PipelineProofs -----------------------------
(***************************************************************************)
(* Theorems about Pipeline: any number of calls at the same time, any      *)
(* files, and a channel of any capacity.                                   *)
(***************************************************************************)
EXTENDS Pipeline, FiniteSetTheorems, TLAPS

S == INSTANCE SequenceTheorems

Count == [dedup : Nat, stored : Nat, deltas : Nat, fallbacks : Nat]

TypeInv ==
    /\ index \subseteq Chunk /\ pending \subseteq Chunk
    /\ durable \subseteq Chunk /\ lost \subseteq Chunk
    /\ batch \in [Backups -> SUBSET Chunk]
    /\ main \in [Backups -> {"idle", "chunk", "send", "join", "ok", "err"}]
    /\ file \in [Backups -> Files \cup {<<>>}]
    /\ hashes \in [Backups -> Seq(Chunk)]
    /\ similar \in [Backups -> SUBSET Chunk]
    /\ toSend \in [Backups -> Seq(Message)]
    /\ sending \in [Backups -> BOOLEAN]
    /\ queue \in [Backups -> Seq(Message)]
    /\ \A b \in Backups : Len(queue[b]) <= Capacity
    /\ writer \in [Backups -> {"none", "receive", "encode", "put", "putDelta",
                               "write", "insert", "flush", "ok", "err"}]
    /\ handling \in [Backups -> Seq(Message)]
    /\ near \in [Backups -> Nat]
    /\ counts \in [Backups -> Count]

(* The messages the writer has yet to receive.                             *)
Ahead(b) == queue[b] \o toSend[b]

(* The writer has had the last message and flushes the store, or has.      *)
Ending(b) ==
    \/ writer[b] \in {"flush", "ok"}
    \/ writer[b] = "write" /\ handling[b] = <<>>

(* Where the two threads of a call can be at the same time, and what is in *)
(* the channel then.                                                       *)
Shape ==
    \A b \in Backups :
        /\ sending[b] <=> main[b] \in {"chunk", "send"}
        /\ toSend[b] # <<>> <=> main[b] = "send"
        /\ Len(toSend[b]) <= 1
        /\ main[b] = "idle" <=> writer[b] = "none"
        /\ Ending(b) => ~sending[b] /\ queue[b] = <<>>
        /\ main[b] = "ok" => writer[b] = "ok"
        /\ writer[b] \in {"encode", "put", "putDelta", "insert"} => handling[b] # <<>>
        /\ writer[b] \in {"none", "receive", "flush", "ok", "err"} => handling[b] = <<>>
        /\ Len(handling[b]) <= 1
        /\ writer[b] \in {"none", "err"} => queue[b] = <<>>
        /\ writer[b] # "write" => batch[b] = {}

(* What the call has hashed is the beginning of its file.                  *)
ProgressOf(b) ==
    /\ \A i \in 1 .. Len(hashes[b]) : hashes[b][i] = file[b][i]
    /\ Len(hashes[b]) <= Len(file[b])
    /\ main[b] \in {"join", "ok"} => Len(hashes[b]) = Len(file[b])
    /\ similar[b] \subseteq ToSet(hashes[b])
    /\ main[b] = "idle" => file[b] = <<>> /\ near[b] = 0 /\ counts[b] = NoCounts

Progress == \A b \in Backups : ProgressOf(b)

NearIn(s) == {i \in 1 .. Len(s) : s[i].kind = "StoreNearDuplicate"}

(* Every message is counted once, or waits to be, while the writer has not *)
(* failed.                                                                 *)
AccountsOf(b) ==
    writer[b] # "err" =>
        /\ counts[b].dedup + counts[b].stored + Len(handling[b]) + Len(Ahead(b))
              = Len(hashes[b])
        /\ counts[b].deltas + counts[b].fallbacks + Cardinality(NearIn(Ahead(b)))
              + (IF writer[b] = "encode" THEN 1 ELSE 0) = near[b]

Accounts == \A b \in Backups : AccountsOf(b)

(* The chunks accepted once the writer has stored what it handles, and     *)
(* once it has also stored the first n messages after that.                *)
Held(b)     == Accepted \cup {handling[b][k].hash : k \in 1 .. Len(handling[b])}
After(b, n) == Held(b) \cup {Ahead(b)[k].hash : k \in 1 .. n}

(* While the writer has not failed: the base of a delta goes before it, a  *)
(* chunk that is skipped was accepted, no chunk of a file is forgotten, and *)
(* none is left in the buffer by a writer that has flushed.                *)
ChannelOf(b) ==
    /\ \A i \in 1 .. Len(Ahead(b)) :
          LET m == Ahead(b)[i] IN
          /\ m.kind = "Skip" => m.hash \in Accepted
          /\ m.kind = "StoreNearDuplicate" => m.similar_to \in After(b, i - 1)
    /\ ToSet(hashes[b]) \subseteq After(b, Len(Ahead(b)))

WriterOf(b) ==
    /\ writer[b] = "insert" => Msg(b).hash \in Accepted
    /\ writer[b] = "write" /\ handling[b] # <<>> => Msg(b).hash \in Accepted
    /\ writer[b] = "encode" => Msg(b).similar_to \in Accepted
    /\ writer[b] # "flush" /\ Ending(b) => ToSet(hashes[b]) \subseteq Settled

Content ==
    /\ index \subseteq Accepted
    /\ \A b \in Backups : writer[b] # "err" => ChannelOf(b) /\ WriterOf(b)

Inv == TypeInv /\ Shape /\ Progress /\ Accounts

-----------------------------------------------------------------------------
(* Sequences and counts.                                                   *)

LEMMA Single ==
    ASSUME NEW W, NEW m \in W
    PROVE  <<m>> \in Seq(W) /\ Len(<<m>>) = 1 /\ <<m>>[1] = m /\ <<m>> # <<>>
  OBVIOUS

LEMMA Empty ==
    ASSUME NEW W
    PROVE  <<>> \in Seq(W) /\ Len(<<>>) = 0
  OBVIOUS

LEMMA Lens ==
    ASSUME NEW W, NEW s \in Seq(W)
    PROVE  /\ Len(s) \in Nat /\ (s = <<>> <=> Len(s) = 0)
           /\ DOMAIN s = 1 .. Len(s) /\ \A i \in 1 .. Len(s) : s[i] \in W
  BY S!LenProperties, S!EmptySeq, S!ElementOfSeq

LEMMA Joined ==
    ASSUME NEW W, NEW s \in Seq(W), NEW t \in Seq(W)
    PROVE  /\ s \o t \in Seq(W) /\ Len(s \o t) = Len(s) + Len(t)
           /\ \A i \in 1 .. Len(s) : (s \o t)[i] = s[i]
           /\ \A i \in 1 .. Len(t) : (s \o t)[Len(s) + i] = t[i]
           /\ s \o <<>> = s /\ <<>> \o s = s
<1>1. s \o <<>> = s /\ <<>> \o s = s
  BY S!ConcatEmptySeq
<1>2. /\ s \o t \in Seq(W) /\ Len(s \o t) = Len(s) + Len(t)
      /\ \A i \in 1 .. Len(s) + Len(t) :
            (s \o t)[i] = IF i <= Len(s) THEN s[i] ELSE t[i - Len(s)]
  BY S!ConcatProperties
<1> QED
  BY <1>1, <1>2, Lens

LEMMA Rest ==
    ASSUME NEW W, NEW s \in Seq(W), s # <<>>
    PROVE  /\ Head(s) \in W /\ Head(s) = s[1] /\ Tail(s) \in Seq(W)
           /\ Len(s) \in Nat \ {0} /\ Len(Tail(s)) = Len(s) - 1
           /\ \A i \in 1 .. Len(s) - 1 : Tail(s)[i] = s[i + 1]
<1>1. Head(s) = s[1]
  OBVIOUS
<1> QED
  BY <1>1, Lens, S!HeadTailProperties

LEMMA TailJoined ==
    ASSUME NEW W, NEW s \in Seq(W), NEW t \in Seq(W), s # <<>>
    PROVE  s \o t # <<>> /\ Tail(s) \o t = Tail(s \o t) /\ (s \o t)[1] = s[1]
<1>1. /\ s \o t \in Seq(W) /\ Len(s \o t) = Len(s) + Len(t)
      /\ Len(s) \in Nat \ {0} /\ Len(t) \in Nat
  BY Joined, Rest, Lens
<1>2. s \o t # <<>>
  BY <1>1, Lens
<1>3. (s \o t)[1] = s[1]
  BY <1>1, Joined
<1>4. /\ Tail(s \o t) \in Seq(W) /\ Tail(s) \o t \in Seq(W)
      /\ Len(Tail(s \o t)) = Len(s) + Len(t) - 1
      /\ Len(Tail(s)) = Len(s) - 1
      /\ Len(Tail(s) \o t) = Len(s) - 1 + Len(t)
  BY <1>1, <1>2, Rest, Joined
<1>5. ASSUME NEW i \in 1 .. Len(s) + Len(t) - 1
      PROVE  (Tail(s) \o t)[i] = Tail(s \o t)[i]
  <2>1. Tail(s \o t)[i] = (s \o t)[i + 1]
    BY <1>1, <1>2, Rest
  <2>2. (s \o t)[i + 1] = IF i + 1 <= Len(s) THEN s[i + 1] ELSE t[i + 1 - Len(s)]
    BY <1>1, S!ConcatProperties
  <2>3. (Tail(s) \o t)[i] =
            IF i <= Len(s) - 1 THEN Tail(s)[i] ELSE t[i - (Len(s) - 1)]
    BY <1>1, <1>4, Rest, S!ConcatProperties
  <2>4. CASE i <= Len(s) - 1
    BY <2>1, <2>2, <2>3, <2>4, <1>1, Rest
  <2>5. CASE ~(i <= Len(s) - 1)
    BY <2>1, <2>2, <2>3, <2>5, <1>1
  <2> QED
    BY <2>4, <2>5
<1> QED
  BY <1>1, <1>2, <1>3, <1>4, <1>5, S!SeqEqual

LEMMA NearFinite ==
    ASSUME NEW s \in Seq(Message)
    PROVE  /\ IsFiniteSet(NearIn(s)) /\ Cardinality(NearIn(s)) \in Nat
           /\ s = <<>> => Cardinality(NearIn(s)) = 0
<1>1. IsFiniteSet(1 .. Len(s))
  BY Lens, FS_Interval
<1>2. IsFiniteSet(NearIn(s))
  BY <1>1, FS_Subset DEF NearIn
<1>3. s = <<>> => NearIn(s) = {}
  BY Lens DEF NearIn
<1> QED
  BY <1>2, <1>3, FS_CardinalityType, FS_EmptySet

LEMMA NearLast ==
    ASSUME NEW s \in Seq(Message), NEW m \in Message
    PROVE  Cardinality(NearIn(s \o <<m>>)) = Cardinality(NearIn(s))
              + (IF m.kind = "StoreNearDuplicate" THEN 1 ELSE 0)
<1>1. Len(s) \in Nat /\ Len(s \o <<m>>) = Len(s) + 1
  BY Lens, Joined, Single
<1>2. /\ \A i \in 1 .. Len(s) : (s \o <<m>>)[i] = s[i]
      /\ (s \o <<m>>)[Len(s) + 1] = m
  BY <1>1, Lens, Joined, Single
<1>3. CASE m.kind = "StoreNearDuplicate"
  <2>1. NearIn(s \o <<m>>) = NearIn(s) \cup {Len(s) + 1} /\ Len(s) + 1 \notin NearIn(s)
    BY <1>1, <1>2, <1>3 DEF NearIn
  <2> QED
    BY <1>3, <2>1, NearFinite, FS_AddElement
<1>4. CASE m.kind # "StoreNearDuplicate"
  <2>1. NearIn(s \o <<m>>) = NearIn(s)
    BY <1>1, <1>2, <1>4 DEF NearIn
  <2> QED
    BY <1>4, <2>1, NearFinite
<1> QED
  BY <1>3, <1>4

LEMMA NearRest ==
    ASSUME NEW s \in Seq(Message), s # <<>>
    PROVE  Cardinality(NearIn(s)) = Cardinality(NearIn(Tail(s)))
              + (IF s[1].kind = "StoreNearDuplicate" THEN 1 ELSE 0)
<1>1. /\ Len(s) \in Nat \ {0} /\ Len(Tail(s)) = Len(s) - 1 /\ Tail(s) \in Seq(Message)
      /\ \A i \in 1 .. Len(s) - 1 : Tail(s)[i] = s[i + 1]
  BY Rest
<1> DEFINE A == NearIn(Tail(s))
           B == NearIn(s) \ {1}
           f == [i \in A |-> i + 1]
<1>2. \A i \in A : i \in Int /\ i + 1 \in B
  BY <1>1 DEF NearIn
<1>3. \A j \in B : j - 1 \in A /\ (j - 1) + 1 = j
  BY <1>1 DEF NearIn
<1>4. f \in Bijection(A, B)
  <2>1. f \in [A -> B]
    BY <1>2
  <2>2. \A i, j \in A : f[i] = f[j] => i = j
    BY <1>2
  <2>3. \A j \in B : \E i \in A : f[i] = j
    BY <1>3
  <2> QED
    BY <2>1, <2>2, <2>3 DEF Bijection, Injection, Surjection, IsInjective
<1>5. IsFiniteSet(A) /\ ExistsBijection(A, B)
  BY <1>1, <1>4, NearFinite DEF ExistsBijection
<1>6. Cardinality(B) = Cardinality(A)
  BY <1>5, FS_Bijection, Zenon
<1>7. Cardinality(B) = IF 1 \in NearIn(s) THEN Cardinality(NearIn(s)) - 1
                                          ELSE Cardinality(NearIn(s))
  BY NearFinite, FS_RemoveElement
<1>8. 1 \in NearIn(s) <=> s[1].kind = "StoreNearDuplicate"
  BY <1>1 DEF NearIn
<1> HIDE DEF B
<1>9. Cardinality(NearIn(s)) \in Nat
  BY NearFinite
<1> QED
  BY <1>6, <1>7, <1>8, <1>9

-----------------------------------------------------------------------------
(* The parts of the state of one call.                                     *)

Step(b) ==
    \/ \E f \in Files : Begin(b, f)
    \/ MainStep(b) \/ WriterStep(b) \/ Forget(b)

LEMMA FileIs ==
    ASSUME TypeInv, NEW b \in Backups
    PROVE  file[b] \in Seq(Chunk) /\ Len(file[b]) \in Nat /\ Len(hashes[b]) \in Nat
<1>1. file[b] \in Seq(Chunk)
  BY FilesAssumption, Empty DEF TypeInv
<1> QED
  BY <1>1, Lens DEF TypeInv

LEMMA MessageIs ==
    ASSUME NEW c \in Chunk, NEW d \in Chunk
    PROVE  Store(c) \in Message /\ StoreNearDup(c, d) \in Message /\ SkipMessage(c) \in Message
  BY DEF Store, StoreNearDup, SkipMessage, Message

LEMMA MsgIs ==
    ASSUME TypeInv, Shape, NEW b \in Backups,
           writer[b] \in {"encode", "put", "putDelta", "insert"} \/ handling[b] # <<>>
    PROVE  /\ Msg(b) \in Message /\ Msg(b).hash \in Chunk /\ Len(handling[b]) = 1
           /\ handling[b] = <<Msg(b)>>
<1>1. handling[b] \in Seq(Message) /\ handling[b] # <<>> /\ Len(handling[b]) <= 1
  BY DEF TypeInv, Shape
<1>2. Len(handling[b]) = 1 /\ Msg(b) \in Message
  <2>1. /\ Len(handling[b]) \in Nat /\ Len(handling[b]) # 0
        /\ \A i \in 1 .. Len(handling[b]) : handling[b][i] \in Message
    BY <1>1, Lens
  <2>2. \A n \in Nat : n # 0 /\ n <= 1 => n = 1 /\ 1 \in 1 .. n
    OBVIOUS
  <2>3. Len(handling[b]) = 1 /\ 1 \in 1 .. Len(handling[b])
    BY <1>1, <2>1, <2>2, Zenon
  <2> QED
    BY <2>1, <2>3, Zenon DEF Msg
<1>3. handling[b] = <<Msg(b)>>
  BY <1>1, <1>2, Single, S!SeqEqual DEF Msg
<1> QED
  BY <1>2, <1>3 DEF Message

LEMMA CountUp ==
    ASSUME counts \in [Backups -> Count], NEW b \in Backups
    PROVE  /\ [counts EXCEPT ![b].dedup = @ + 1] \in [Backups -> Count]
           /\ [counts EXCEPT ![b].stored = @ + 1] \in [Backups -> Count]
           /\ [counts EXCEPT ![b].deltas = @ + 1] \in [Backups -> Count]
           /\ [counts EXCEPT ![b].fallbacks = @ + 1] \in [Backups -> Count]
  BY DEF Count

LEMMA NextIs ==
    ASSUME TypeInv, NEW b \in Backups, NextChunk(b)
    PROVE  \E c \in Chunk, m \in Message :
              /\ c = file[b][Len(hashes[b]) + 1] /\ toSend'[b] = <<m>> /\ m.hash = c
              /\ hashes' = [hashes EXCEPT ![b] = Append(@, c)]
              /\ toSend' = [toSend EXCEPT ![b] = <<m>>]
              /\ m.kind = "Skip" => c \in index
              /\ m.kind = "StoreNearDuplicate" => m.similar_to \in similar[b]
              /\ m.kind = "StoreNearDuplicate" => near' = [near EXCEPT ![b] = @ + 1]
              /\ m.kind # "StoreNearDuplicate" => near' = near
              /\ similar' \in {similar, [similar EXCEPT ![b] = @ \cup {c}]}
<1> DEFINE c == file[b][Len(hashes[b]) + 1]
<1>1. c \in Chunk
  BY FileIs, Lens DEF NextChunk
<1>2. PICK m \in Message :
          /\ toSend' = [toSend EXCEPT ![b] = <<m>>] /\ m.hash = c
          /\ m.kind = "Skip" => c \in index
          /\ m.kind = "StoreNearDuplicate" => m.similar_to \in similar[b]
          /\ m.kind = "StoreNearDuplicate" => near' = [near EXCEPT ![b] = @ + 1]
          /\ m.kind # "StoreNearDuplicate" => near' = near
          /\ similar' \in {similar, [similar EXCEPT ![b] = @ \cup {c}]}
  <2>1. near \in [Backups -> Nat]
    BY DEF TypeInv
  <2>2. ASSUME c \in index, toSend' = [toSend EXCEPT ![b] = <<SkipMessage(c)>>],
               UNCHANGED <<similar, near>>
        PROVE  \E m \in Message :
          /\ toSend' = [toSend EXCEPT ![b] = <<m>>] /\ m.hash = c
          /\ m.kind = "Skip" => c \in index
          /\ m.kind = "StoreNearDuplicate" => m.similar_to \in similar[b]
          /\ m.kind = "StoreNearDuplicate" => near' = [near EXCEPT ![b] = @ + 1]
          /\ m.kind # "StoreNearDuplicate" => near' = near
          /\ similar' \in {similar, [similar EXCEPT ![b] = @ \cup {c}]}
    <3>1. SkipMessage(c) \in Message
      BY <1>1, MessageIs
    <3> QED
      BY <2>1, <2>2, <3>1 DEF SkipMessage
  <2>3. ASSUME toSend' = [toSend EXCEPT ![b] = <<Store(c)>>],
               similar' = [similar EXCEPT ![b] = @ \cup {c}], UNCHANGED near
        PROVE  \E m \in Message :
          /\ toSend' = [toSend EXCEPT ![b] = <<m>>] /\ m.hash = c
          /\ m.kind = "Skip" => c \in index
          /\ m.kind = "StoreNearDuplicate" => m.similar_to \in similar[b]
          /\ m.kind = "StoreNearDuplicate" => near' = [near EXCEPT ![b] = @ + 1]
          /\ m.kind # "StoreNearDuplicate" => near' = near
          /\ similar' \in {similar, [similar EXCEPT ![b] = @ \cup {c}]}
    <3>1. Store(c) \in Message
      BY <1>1, MessageIs
    <3> QED
      BY <2>1, <2>3, <3>1 DEF Store
  <2>4. ASSUME NEW d \in Candidates(b, c),
               toSend' = [toSend EXCEPT ![b] = <<StoreNearDup(c, d)>>],
               near' = [near EXCEPT ![b] = @ + 1], UNCHANGED similar
        PROVE  \E m \in Message :
          /\ toSend' = [toSend EXCEPT ![b] = <<m>>] /\ m.hash = c
          /\ m.kind = "Skip" => c \in index
          /\ m.kind = "StoreNearDuplicate" => m.similar_to \in similar[b]
          /\ m.kind = "StoreNearDuplicate" => near' = [near EXCEPT ![b] = @ + 1]
          /\ m.kind # "StoreNearDuplicate" => near' = near
          /\ similar' \in {similar, [similar EXCEPT ![b] = @ \cup {c}]}
    <3>1. StoreNearDup(c, d) \in Message /\ d \in similar[b]
      BY <1>1, MessageIs DEF Candidates, TypeInv
    <3> QED
      BY <2>1, <2>4, <3>1 DEF StoreNearDup
  <2> QED
    BY <2>2, <2>3, <2>4 DEF NextChunk
<1>3. toSend'[b] = <<m>>
  BY <1>2 DEF TypeInv
<1>4. hashes' = [hashes EXCEPT ![b] = Append(@, c)]
  BY DEF NextChunk, Hashed
<1> QED
  BY <1>1, <1>2, <1>3, <1>4

LEMMA InitInv == Init => Inv
<1> SUFFICES ASSUME Init PROVE Inv
  OBVIOUS
<1>1. TypeInv
  BY Empty, CapacityAssumption DEF Init, TypeInv, Count, NoCounts
<1>2. Shape
  BY Empty DEF Init, Shape
<1>3. Progress
  BY Empty DEF Init, Progress, ProgressOf, ToSet
<1>4. Accounts
  <2>1. <<>> \in Seq(Message) /\ Len(<<>>) = 0 /\ <<>> \o <<>> = <<>>
    BY Empty, Joined
  <2>2. Cardinality(NearIn(<<>>)) = 0
    BY <2>1, NearFinite
  <2>3. ASSUME NEW b \in Backups
        PROVE  /\ Ahead(b) = <<>> /\ handling[b] = <<>> /\ hashes[b] = <<>> /\ near[b] = 0
               /\ counts[b] = NoCounts /\ writer[b] = "none"
    BY <2>1 DEF Init, Ahead
  <2> QED
    BY <2>1, <2>2, <2>3 DEF Accounts, AccountsOf, NoCounts
<1> QED
  BY <1>1, <1>2, <1>3, <1>4 DEF Inv

-----------------------------------------------------------------------------
(* Steps keep the types.                                                   *)

LEMMA StepType == ASSUME Inv, NEW b \in Backups, Step(b) PROVE TypeInv'
<1> USE DEF Inv
<1>b. ASSUME NEW f \in Files, Begin(b, f)  PROVE TypeInv'
  BY <1>b DEF TypeInv, Begin, store_vars
<1>1. ASSUME NextChunk(b)  PROVE TypeInv'
  <2>1. PICK c \in Chunk, m \in Message :
          /\ hashes' = [hashes EXCEPT ![b] = Append(@, c)]
          /\ toSend' = [toSend EXCEPT ![b] = <<m>>]
          /\ m.kind = "StoreNearDuplicate" => near' = [near EXCEPT ![b] = @ + 1]
          /\ m.kind # "StoreNearDuplicate" => near' = near
          /\ similar' \in {similar, [similar EXCEPT ![b] = @ \cup {c}]}
    BY <1>1, NextIs
  <2>2. hashes' \in [Backups -> Seq(Chunk)]
    BY <2>1, S!AppendProperties DEF TypeInv
  <2>3. toSend' \in [Backups -> Seq(Message)]
    BY <2>1, Single DEF TypeInv
  <2>4. near' \in [Backups -> Nat]
    <3>1. near' = near \/ near' = [near EXCEPT ![b] = @ + 1]
      BY <2>1, Zenon
    <3>2. near \in [Backups -> Nat]
      BY DEF TypeInv
    <3> QED
      BY <3>1, <3>2
  <2>5. similar' \in [Backups -> SUBSET Chunk]
    <3>1. similar' = similar \/ similar' = [similar EXCEPT ![b] = @ \cup {c}]
      BY <2>1, Zenon
    <3>2. similar \in [Backups -> SUBSET Chunk]
      BY DEF TypeInv
    <3> QED
      BY <3>1, <3>2
  <2> QED
    BY <1>1, <2>2, <2>3, <2>4, <2>5 DEF TypeInv, NextChunk, store_vars, writer_vars
<1>2. ASSUME Send(b)  PROVE TypeInv'
  <2>1. toSend' \in [Backups -> Seq(Message)]
    BY <1>2, Empty DEF TypeInv, Send
  <2>2. CASE Alive(b)
    <3>1. queue' = [queue EXCEPT ![b] = @ \o toSend[b]] /\ Len(queue[b]) < Capacity
      BY <1>2, <2>2 DEF Send
    <3>2. queue[b] \o toSend[b] \in Seq(Message)
      BY Joined DEF TypeInv
    <3>3. Len(queue[b] \o toSend[b]) <= Capacity
      <4>1. Len(queue[b]) \in Nat /\ Len(toSend[b]) \in Nat /\ Len(toSend[b]) <= 1
        BY Lens DEF TypeInv, Shape
      <4>2. Len(queue[b] \o toSend[b]) = Len(queue[b]) + Len(toSend[b])
        BY Joined DEF TypeInv
      <4>3. \A p, q \in Nat : p < Capacity /\ q <= 1 => p + q <= Capacity
        BY CapacityAssumption
      <4> QED
        BY <3>1, <4>1, <4>2, <4>3, Zenon
    <3> QED
      BY <1>2, <2>1, <2>2, <3>1, <3>2, <3>3 DEF TypeInv, Send, store_vars, writer_vars
  <2>3. CASE ~Alive(b)
    BY <1>2, <2>1, <2>3 DEF TypeInv, Send, store_vars, writer_vars
  <2> QED
    BY <2>2, <2>3
<1>3. ASSUME ReadFails(b)  PROVE TypeInv'
  BY <1>3 DEF TypeInv, ReadFails, store_vars, main_vars, writer_vars
<1>4. ASSUME EndOfFile(b)  PROVE TypeInv'
  BY <1>4 DEF TypeInv, EndOfFile, store_vars, main_vars, writer_vars
<1>5. ASSUME Join(b)  PROVE TypeInv'
  BY <1>5 DEF TypeInv, Join, store_vars, main_vars, writer_vars
<1>6. ASSUME Receive(b)  PROVE TypeInv'
  <2>1. queue[b] \in Seq(Message) /\ queue[b] # <<>>
    BY <1>6 DEF TypeInv, Receive
  <2>2. queue' \in [Backups -> Seq(Message)] /\ Len(queue'[b]) <= Capacity
    BY <1>6, <2>1, Rest, CapacityAssumption DEF TypeInv, Receive
  <2>3. \A d \in Backups \ {b} : queue'[d] = queue[d]
    BY <1>6 DEF TypeInv, Receive
  <2>4. handling' \in [Backups -> Seq(Message)]
    <3>1. handling' = handling \/ handling' = [handling EXCEPT ![b] = <<Head(queue[b])>>]
      BY <1>6 DEF Receive
    <3>2. <<Head(queue[b])>> \in Seq(Message)
      BY <2>1, Rest, Single
    <3> QED
      BY <3>1, <3>2 DEF TypeInv
  <2>5. counts' \in [Backups -> Count]
    <3>1. counts' = counts \/ counts' = [counts EXCEPT ![b].dedup = @ + 1]
      BY <1>6 DEF Receive
    <3> QED
      BY <3>1, CountUp DEF TypeInv
  <2>6. writer' \in [Backups -> {"none", "receive", "encode", "put", "putDelta",
                               "write", "insert", "flush", "ok", "err"}]
    BY <1>6 DEF TypeInv, Receive
  <2>7. UNCHANGED <<store_vars, main, file, hashes, similar, toSend, sending, near>>
    BY <1>6 DEF Receive, store_vars, main_vars
  <2>8. \A d \in Backups : Len(queue'[d]) <= Capacity
    BY <2>2, <2>3 DEF TypeInv
  <2> QED
    BY <2>2, <2>4, <2>5, <2>6, <2>7, <2>8 DEF TypeInv, store_vars
<1>7. ASSUME Encode(b)  PROVE TypeInv'
  <2>1. \/ counts' = [counts EXCEPT ![b].deltas = @ + 1]
        \/ counts' = [counts EXCEPT ![b].fallbacks = @ + 1]
    BY <1>7 DEF Encode
  <2>2. counts' \in [Backups -> Count]
    <3>1. counts \in [Backups -> Count]
      BY DEF TypeInv
    <3> QED
      BY <2>1, <3>1, CountUp
  <2>3. writer' = [writer EXCEPT ![b] = "putDelta"] \/ writer' = [writer EXCEPT ![b] = "put"]
    BY <1>7 DEF Encode
  <2>4. writer' \in [Backups -> {"none", "receive", "encode", "put", "putDelta",
                               "write", "insert", "flush", "ok", "err"}]
    BY <2>3 DEF TypeInv
  <2>5. /\ UNCHANGED <<store_vars, main, file, hashes, similar, toSend, sending, near>>
        /\ UNCHANGED <<queue, handling>>
    BY <1>7 DEF Encode, store_vars, main_vars
  <2> QED
    BY <2>2, <2>4, <2>5 DEF TypeInv, store_vars
<1>8. ASSUME Put(b)  PROVE TypeInv'
  <2>1. Msg(b).hash \in Chunk
    BY <1>8, MsgIs DEF Put
  <2>2. /\ UNCHANGED <<index, durable, lost, main, file, hashes, similar, toSend, sending, near>>
        /\ UNCHANGED <<queue, handling, counts>>
    BY <1>8 DEF Put, main_vars
  <2>3. CASE UNCHANGED <<pending, batch>> /\ writer' = [writer EXCEPT ![b] = "insert"]
    BY <2>2, <2>3 DEF TypeInv
  <2>4. CASE /\ pending' = pending \cup {Msg(b).hash} /\ UNCHANGED batch
             /\ writer' = [writer EXCEPT ![b] = "insert"]
    BY <2>1, <2>2, <2>4 DEF TypeInv
  <2>5. CASE Drains(b, pending \cup {Msg(b).hash})
    BY <2>1, <2>2, <2>5 DEF TypeInv, Drains
  <2> QED
    BY <1>8, <2>3, <2>4, <2>5 DEF Put
<1>9. ASSUME Insert(b)  PROVE TypeInv'
  <2>1. counts' = [counts EXCEPT ![b].stored = @ + 1]
    BY <1>9 DEF Insert
  <2>2. counts' \in [Backups -> Count]
    BY <2>1, CountUp DEF TypeInv
  <2> QED
    BY <1>9, <2>2, MsgIs, Empty DEF TypeInv, Insert, main_vars
<1>10. ASSUME Finish(b)  PROVE TypeInv'
  BY <1>10 DEF TypeInv, Finish, store_vars, main_vars, writer_vars
<1>11. ASSUME Flush(b)  PROVE TypeInv'
  BY <1>11 DEF TypeInv, Flush, Drains, main_vars
<1>w. ASSUME Write(b)  PROVE TypeInv'
  BY <1>w DEF TypeInv, Write, main_vars
<1>12. ASSUME StoreFails(b)  PROVE TypeInv'
  BY <1>12, Empty, CapacityAssumption DEF TypeInv, StoreFails, main_vars
<1>13. ASSUME Forget(b)  PROVE TypeInv'
  BY <1>13, Empty DEF TypeInv, Forget, Count, NoCounts, store_vars
<1> QED
  BY <1>b, <1>1, <1>2, <1>3, <1>4, <1>5, <1>6, <1>7, <1>8, <1>9, <1>10, <1>11, <1>w, <1>12, <1>13
     DEF Step, MainStep, WriterStep

-----------------------------------------------------------------------------
(* Steps keep the shape.                                                   *)

LEMMA StepShape == ASSUME Inv, NEW b \in Backups, Step(b) PROVE Shape'
<1> USE DEF Inv
<1>b. ASSUME NEW f \in Files, Begin(b, f)  PROVE Shape'
  BY <1>b DEF TypeInv, Shape, Ending, Begin, store_vars, main_vars, writer_vars
<1>1. ASSUME NextChunk(b)  PROVE Shape'
  <2>1. PICK m \in Message : toSend' = [toSend EXCEPT ![b] = <<m>>]
    BY <1>1, NextIs
  <2> QED
    BY <1>1, <2>1, Single DEF TypeInv, Shape, Ending, NextChunk, store_vars, main_vars, writer_vars
<1>2. ASSUME Send(b)  PROVE Shape'
  BY <1>2, Empty DEF TypeInv, Shape, Ending, Send, Alive, store_vars, main_vars, writer_vars
<1>3. ASSUME ReadFails(b)  PROVE Shape'
  BY <1>3 DEF TypeInv, Shape, Ending, ReadFails, store_vars, main_vars, writer_vars
<1>4. ASSUME EndOfFile(b)  PROVE Shape'
  BY <1>4 DEF TypeInv, Shape, Ending, EndOfFile, store_vars, main_vars, writer_vars
<1>5. ASSUME Join(b)  PROVE Shape'
  BY <1>5 DEF TypeInv, Shape, Ending, Join, store_vars, main_vars, writer_vars
<1>6. ASSUME Receive(b)  PROVE Shape'
  <2>1. queue[b] \in Seq(Message) /\ queue[b] # <<>> /\ Head(queue[b]) \in Message
    BY <1>6, Rest DEF TypeInv, Receive
  <2>2. CASE Head(queue[b]).kind = "Skip"
    BY <1>6, <2>2 DEF TypeInv, Shape, Ending, Receive, store_vars, main_vars
  <2>3. CASE Head(queue[b]).kind # "Skip"
    <3>1. <<Head(queue[b])>> # <<>> /\ Len(<<Head(queue[b])>>) = 1
      BY <2>1, Single
    <3>2. /\ writer[b] = "receive"
          /\ handling' = [handling EXCEPT ![b] = <<Head(queue[b])>>]
          /\ \E w \in {"put", "encode"} : writer' = [writer EXCEPT ![b] = w]
          /\ UNCHANGED <<main_vars, store_vars>>
          /\ queue' = [queue EXCEPT ![b] = Tail(@)]
      BY <1>6, <2>3 DEF Receive
    <3>3. handling'[b] # <<>> /\ Len(handling'[b]) = 1
      BY <3>1, <3>2 DEF TypeInv
    <3>4. \A d \in Backups \ {b} : /\ handling'[d] = handling[d] /\ writer'[d] = writer[d]
                                   /\ queue'[d] = queue[d]
      BY <3>2 DEF TypeInv
    <3>5. writer'[b] \in {"put", "encode"}
      BY <3>2 DEF TypeInv
    <3> QED
      BY <3>2, <3>3, <3>4, <3>5 DEF Shape, Ending, main_vars, store_vars
  <2> QED
    BY <2>2, <2>3
<1>7. ASSUME Encode(b)  PROVE Shape'
  <2>1. /\ writer[b] = "encode" /\ handling[b] # <<>> /\ batch[b] = {}
        /\ \E w \in {"put", "putDelta"} : writer' = [writer EXCEPT ![b] = w]
        /\ UNCHANGED <<batch, main, toSend, sending, queue, handling>>
    BY <1>7 DEF Encode, Shape, store_vars, main_vars
  <2> QED
    BY <2>1 DEF TypeInv, Shape, Ending
<1>8. ASSUME Put(b)  PROVE Shape'
  <2>1. /\ writer[b] \in {"put", "putDelta"} /\ handling[b] # <<>>
        /\ UNCHANGED <<main, toSend, sending, queue, handling>>
    BY <1>8 DEF Put, Shape, main_vars
  <2>2. CASE UNCHANGED batch /\ writer' = [writer EXCEPT ![b] = "insert"]
    BY <2>1, <2>2 DEF TypeInv, Shape, Ending
  <2>3. CASE Drains(b, pending \cup {Msg(b).hash})
    BY <2>1, <2>3 DEF TypeInv, Shape, Ending, Drains
  <2> QED
    BY <1>8, <2>2, <2>3 DEF Put
<1>9. ASSUME Insert(b)  PROVE Shape'
  BY <1>9, Empty DEF TypeInv, Shape, Ending, Insert, store_vars, main_vars, writer_vars
<1>10. ASSUME Finish(b)  PROVE Shape'
  BY <1>10 DEF TypeInv, Shape, Ending, Finish, store_vars, main_vars, writer_vars
<1>11. ASSUME Flush(b)  PROVE Shape'
  <2>1. /\ writer[b] = "flush" /\ handling[b] = <<>> /\ ~sending[b] /\ queue[b] = <<>>
        /\ UNCHANGED <<main, toSend, sending, queue, handling>>
    BY <1>11 DEF Flush, Shape, Ending, main_vars
  <2>2. CASE UNCHANGED batch /\ writer' = [writer EXCEPT ![b] = "ok"]
    BY <2>1, <2>2 DEF TypeInv, Shape, Ending
  <2>3. CASE Drains(b, pending)
    BY <2>1, <2>3 DEF TypeInv, Shape, Ending, Drains
  <2> QED
    BY <1>11, <2>2, <2>3 DEF Flush
<1>w. ASSUME Write(b)  PROVE Shape'
  BY <1>w DEF TypeInv, Shape, Ending, Write, store_vars, main_vars, writer_vars
<1>12. ASSUME StoreFails(b)  PROVE Shape'
  BY <1>12, Empty DEF TypeInv, Shape, Ending, StoreFails, store_vars, main_vars, writer_vars
<1>13. ASSUME Forget(b)  PROVE Shape'
  BY <1>13 DEF TypeInv, Shape, Ending, Forget, Alive, Returned, store_vars
<1> QED
  BY <1>b, <1>1, <1>2, <1>3, <1>4, <1>5, <1>6, <1>7, <1>8, <1>9, <1>10, <1>11, <1>w, <1>12, <1>13
     DEF Step, MainStep, WriterStep

-----------------------------------------------------------------------------
(* What a step of one call leaves to the others.                           *)

Untouched(d) ==
    /\ main'[d] = main[d] /\ file'[d] = file[d] /\ hashes'[d] = hashes[d]
    /\ similar'[d] = similar[d] /\ toSend'[d] = toSend[d] /\ queue'[d] = queue[d]
    /\ writer'[d] = writer[d] /\ handling'[d] = handling[d] /\ near'[d] = near[d]
    /\ counts'[d] = counts[d] /\ batch'[d] = batch[d]

LEMMA StepOthers ==
    ASSUME Inv, NEW b \in Backups, Step(b)
    PROVE  \A d \in Backups \ {b} : Untouched(d)
<1> USE DEF Inv
<1>b. ASSUME NEW f \in Files, Begin(b, f)  PROVE \A d \in Backups \ {b} : Untouched(d)
  BY <1>b DEF TypeInv, Untouched, Begin, store_vars
<1>1. ASSUME NextChunk(b)  PROVE \A d \in Backups \ {b} : Untouched(d)
  <2>1. PICK c \in Chunk, m \in Message :
          /\ hashes' = [hashes EXCEPT ![b] = Append(@, c)]
          /\ toSend' = [toSend EXCEPT ![b] = <<m>>]
          /\ m.kind = "StoreNearDuplicate" => near' = [near EXCEPT ![b] = @ + 1]
          /\ m.kind # "StoreNearDuplicate" => near' = near
          /\ similar' \in {similar, [similar EXCEPT ![b] = @ \cup {c}]}
    BY <1>1, NextIs
  <2> QED
    BY <1>1, <2>1 DEF TypeInv, Untouched, NextChunk, store_vars, writer_vars
<1>2. ASSUME Send(b)  PROVE \A d \in Backups \ {b} : Untouched(d)
  BY <1>2 DEF TypeInv, Untouched, Send, store_vars, main_vars, writer_vars
<1>3. ASSUME ReadFails(b)  PROVE \A d \in Backups \ {b} : Untouched(d)
  BY <1>3 DEF TypeInv, Untouched, ReadFails, store_vars, main_vars, writer_vars
<1>4. ASSUME EndOfFile(b)  PROVE \A d \in Backups \ {b} : Untouched(d)
  BY <1>4 DEF TypeInv, Untouched, EndOfFile, store_vars, main_vars, writer_vars
<1>5. ASSUME Join(b)  PROVE \A d \in Backups \ {b} : Untouched(d)
  BY <1>5 DEF TypeInv, Untouched, Join, store_vars, main_vars, writer_vars
<1>6. ASSUME Receive(b)  PROVE \A d \in Backups \ {b} : Untouched(d)
  BY <1>6 DEF TypeInv, Untouched, Receive, store_vars, main_vars, writer_vars
<1>7. ASSUME Encode(b)  PROVE \A d \in Backups \ {b} : Untouched(d)
  BY <1>7 DEF TypeInv, Untouched, Encode, store_vars, main_vars, writer_vars
<1>8. ASSUME Put(b)  PROVE \A d \in Backups \ {b} : Untouched(d)
  BY <1>8 DEF TypeInv, Untouched, Put, Drains, store_vars, main_vars, writer_vars
<1>9. ASSUME Insert(b)  PROVE \A d \in Backups \ {b} : Untouched(d)
  BY <1>9 DEF TypeInv, Untouched, Insert, store_vars, main_vars, writer_vars
<1>10. ASSUME Finish(b)  PROVE \A d \in Backups \ {b} : Untouched(d)
  BY <1>10 DEF TypeInv, Untouched, Finish, store_vars, main_vars, writer_vars
<1>11. ASSUME Flush(b)  PROVE \A d \in Backups \ {b} : Untouched(d)
  BY <1>11 DEF TypeInv, Untouched, Flush, Drains, store_vars, main_vars, writer_vars
<1>w. ASSUME Write(b)  PROVE \A d \in Backups \ {b} : Untouched(d)
  BY <1>w DEF TypeInv, Untouched, Write, store_vars, main_vars, writer_vars
<1>12. ASSUME StoreFails(b)  PROVE \A d \in Backups \ {b} : Untouched(d)
  BY <1>12 DEF TypeInv, Untouched, StoreFails, store_vars, main_vars, writer_vars
<1>13. ASSUME Forget(b)  PROVE \A d \in Backups \ {b} : Untouched(d)
  BY <1>13 DEF TypeInv, Untouched, Forget, store_vars, main_vars, writer_vars
<1> QED
  BY <1>b, <1>1, <1>2, <1>3, <1>4, <1>5, <1>6, <1>7, <1>8, <1>9, <1>10, <1>11, <1>w, <1>12, <1>13
     DEF Step, MainStep, WriterStep

LEMMA AheadIs ==
    ASSUME TypeInv, NEW b \in Backups
    PROVE  /\ Ahead(b) \in Seq(Message) /\ Len(Ahead(b)) \in Nat
           /\ Len(Ahead(b)) = Len(queue[b]) + Len(toSend[b])
           /\ toSend[b] = <<>> => Ahead(b) = queue[b]
           /\ Len(handling[b]) \in Nat
  BY Joined, Lens DEF TypeInv, Ahead

(* The message the main thread has made comes last.                        *)
LEMMA NextAhead ==
    ASSUME Inv, NEW b \in Backups, NextChunk(b), NEW m \in Message,
           toSend' = [toSend EXCEPT ![b] = <<m>>]
    PROVE  Ahead(b)' = Ahead(b) \o <<m>>
<1>1. toSend[b] = <<>> /\ toSend'[b] = <<m>> /\ queue'[b] = queue[b]
  BY DEF NextChunk, Inv, Shape, TypeInv
<1> QED
  BY <1>1, AheadIs DEF Ahead, Inv

LEMMA SendAhead ==
    ASSUME Inv, NEW b \in Backups, Send(b), Alive(b)
    PROVE  Ahead(b)' = Ahead(b)
<1>1. toSend'[b] = <<>> /\ queue'[b] = Ahead(b)
  BY DEF Send, Inv, TypeInv, Ahead
<1>2. Ahead(b) \o <<>> = Ahead(b)
  BY AheadIs, Joined, Empty DEF Inv
<1> QED
  BY <1>1, <1>2 DEF Ahead

(* The writer takes the first.                                             *)
LEMMA ReceiveAhead ==
    ASSUME Inv, NEW b \in Backups, Receive(b)
    PROVE  /\ Ahead(b)' = Tail(Ahead(b)) /\ Ahead(b) # <<>>
           /\ Ahead(b)[1] = Head(queue[b]) /\ Head(queue[b]) \in Message
<1>1. queue[b] \in Seq(Message) /\ queue[b] # <<>> /\ toSend[b] \in Seq(Message)
  BY DEF Receive, Inv, TypeInv
<1>2. queue'[b] = Tail(queue[b]) /\ toSend'[b] = toSend[b]
  BY DEF Receive, Inv, TypeInv, main_vars
<1>3. Head(queue[b]) = queue[b][1] /\ Head(queue[b]) \in Message
  BY <1>1, Rest
<1> QED
  BY <1>1, <1>2, <1>3, TailJoined DEF Ahead

-----------------------------------------------------------------------------
(* Steps keep the progress and the accounts.                               *)

LEMMA Appended ==
    ASSUME NEW W, NEW q \in Seq(W), NEW e \in W
    PROVE  /\ Append(q, e) \in Seq(W) /\ Len(Append(q, e)) = Len(q) + 1 /\ Len(q) \in Nat
           /\ \A i \in 1 .. Len(q) : Append(q, e)[i] = q[i]
           /\ Append(q, e)[Len(q) + 1] = e
           /\ ToSet(Append(q, e)) = ToSet(q) \cup {e}
<1>1. /\ Append(q, e) \in Seq(W) /\ Len(Append(q, e)) = Len(q) + 1 /\ Len(q) \in Nat
      /\ \A i \in 1 .. Len(q) : Append(q, e)[i] = q[i]
      /\ Append(q, e)[Len(q) + 1] = e
  BY S!AppendProperties, Lens
<1>2. DOMAIN q = 1 .. Len(q) /\ DOMAIN Append(q, e) = 1 .. Len(q) + 1
  BY <1>1, Lens
<1>3. ToSet(Append(q, e)) = ToSet(q) \cup {e}
  BY <1>1, <1>2 DEF ToSet
<1> QED
  BY <1>1, <1>3

LEMMA StepProgress == ASSUME Inv, NEW b \in Backups, Step(b) PROVE Progress'
<1> USE DEF Inv
<1>0. /\ ProgressOf(b) /\ \A d \in Backups \ {b} : ProgressOf(d) /\ Untouched(d)
      /\ Len(hashes[b]) \in Nat /\ Len(file[b]) \in Nat
  BY StepOthers, FileIs DEF Progress
<1>o. \A d \in Backups \ {b} : ProgressOf(d)'
  BY <1>0 DEF ProgressOf, Untouched
<1>b. ASSUME NEW f \in Files, Begin(b, f)  PROVE ProgressOf(b)'
  <2>1. file[b] = <<>> /\ Len(hashes[b]) = 0 /\ hashes'[b] = hashes[b] /\ main'[b] = "chunk"
    BY <1>b, <1>0, Empty DEF ProgressOf, Begin, TypeInv
  <2>2. similar[b] \subseteq ToSet(hashes[b]) /\ similar'[b] = similar[b]
    BY <1>b, <1>0 DEF ProgressOf, Begin, TypeInv
  <2>3. file'[b] \in Seq(Chunk)
    BY <1>b, FilesAssumption DEF Begin, TypeInv
  <2> QED
    BY <2>1, <2>2, <2>3, Lens DEF ProgressOf
<1>1. ASSUME NextChunk(b)  PROVE ProgressOf(b)'
  <2>1. PICK c \in Chunk, m \in Message :
          /\ c = file[b][Len(hashes[b]) + 1]
          /\ hashes' = [hashes EXCEPT ![b] = Append(@, c)]
          /\ similar' \in {similar, [similar EXCEPT ![b] = @ \cup {c}]}
    BY <1>1, NextIs
  <2>2. hashes'[b] = Append(hashes[b], c) /\ similar'[b] \subseteq similar[b] \cup {c}
    BY <2>1 DEF TypeInv
  <2>3. file'[b] = file[b] /\ main'[b] = "send" /\ Len(hashes[b]) < Len(file[b])
    BY <1>1 DEF TypeInv, NextChunk
  <2>4. hashes[b] \in Seq(Chunk)
    BY DEF TypeInv
  <2>5. /\ Len(hashes'[b]) = Len(hashes[b]) + 1
        /\ \A i \in 1 .. Len(hashes[b]) : hashes'[b][i] = hashes[b][i]
        /\ hashes'[b][Len(hashes[b]) + 1] = c
        /\ ToSet(hashes'[b]) = ToSet(hashes[b]) \cup {c}
    BY <2>2, <2>4, Appended
  <2>6. \A i \in 1 .. Len(hashes'[b]) : hashes'[b][i] = file[b][i]
    BY <1>0, <2>1, <2>5 DEF ProgressOf
  <2> QED
    BY <1>0, <2>2, <2>3, <2>5, <2>6 DEF ProgressOf
<1>2. ASSUME Send(b)  PROVE ProgressOf(b)'
  BY <1>2, <1>0 DEF ProgressOf, TypeInv, Send, store_vars, main_vars, writer_vars
<1>3. ASSUME ReadFails(b)  PROVE ProgressOf(b)'
  BY <1>3, <1>0 DEF ProgressOf, TypeInv, ReadFails, store_vars, main_vars, writer_vars
<1>4. ASSUME EndOfFile(b)  PROVE ProgressOf(b)'
  BY <1>4, <1>0 DEF ProgressOf, TypeInv, EndOfFile, store_vars, main_vars, writer_vars
<1>5. ASSUME Join(b)  PROVE ProgressOf(b)'
  <2>1. main'[b] \in {"ok", "err"} /\ main[b] = "join"
    BY <1>5 DEF Join, TypeInv
  <2> QED
    BY <1>5, <1>0, <2>1 DEF ProgressOf, TypeInv, Join, store_vars, writer_vars
<1>6. ASSUME Receive(b)  PROVE ProgressOf(b)'
  <2>1. main[b] # "idle"
    BY <1>6 DEF Receive, Shape
  <2> QED
    BY <1>6, <1>0, <2>1 DEF ProgressOf, TypeInv, Receive, store_vars, main_vars
<1>7. ASSUME Encode(b)  PROVE ProgressOf(b)'
  <2>1. main[b] # "idle"
    BY <1>7 DEF Encode, Shape
  <2> QED
    BY <1>7, <1>0, <2>1 DEF ProgressOf, TypeInv, Encode, store_vars, main_vars
<1>8. ASSUME Put(b)  PROVE ProgressOf(b)'
  BY <1>8, <1>0 DEF ProgressOf, TypeInv, Put, Drains, store_vars, main_vars, writer_vars
<1>9. ASSUME Insert(b)  PROVE ProgressOf(b)'
  <2>1. main[b] # "idle"
    BY <1>9 DEF Insert, Shape
  <2> QED
    BY <1>9, <1>0, <2>1 DEF ProgressOf, TypeInv, Insert, store_vars, main_vars
<1>10. ASSUME Finish(b)  PROVE ProgressOf(b)'
  BY <1>10, <1>0 DEF ProgressOf, TypeInv, Finish, store_vars, main_vars, writer_vars
<1>11. ASSUME Flush(b)  PROVE ProgressOf(b)'
  BY <1>11, <1>0 DEF ProgressOf, TypeInv, Flush, Drains, store_vars, main_vars, writer_vars
<1>w. ASSUME Write(b)  PROVE ProgressOf(b)'
  BY <1>w, <1>0 DEF ProgressOf, TypeInv, Write, store_vars, main_vars, writer_vars
<1>12. ASSUME StoreFails(b)  PROVE ProgressOf(b)'
  BY <1>12, <1>0 DEF ProgressOf, TypeInv, StoreFails, store_vars, main_vars, writer_vars
<1>13. ASSUME Forget(b)  PROVE ProgressOf(b)'
  BY <1>13, Empty DEF ProgressOf, TypeInv, Forget, ToSet
<1>14. ProgressOf(b)'
  BY <1>b, <1>1, <1>2, <1>3, <1>4, <1>5, <1>6, <1>7, <1>8, <1>9, <1>10, <1>11, <1>w, <1>12, <1>13
     DEF Step, MainStep, WriterStep
<1> QED
  BY <1>14, <1>o DEF Progress

LEMMA StepAccounts == ASSUME Inv, NEW b \in Backups, Step(b) PROVE Accounts'
<1> USE DEF Inv
<1>0. /\ AccountsOf(b) /\ Ahead(b) \in Seq(Message) /\ Len(Ahead(b)) \in Nat
      /\ Cardinality(NearIn(Ahead(b))) \in Nat
      /\ Len(hashes[b]) \in Nat /\ Len(handling[b]) \in Nat
      /\ near[b] \in Nat /\ counts[b] \in Count
  BY AheadIs, NearFinite, FileIs DEF Accounts, TypeInv
<1>c. /\ counts[b].dedup \in Nat /\ counts[b].stored \in Nat
      /\ counts[b].deltas \in Nat /\ counts[b].fallbacks \in Nat
  BY <1>0 DEF Count
<1>n. Cardinality(NearIn(Ahead(b))) \in Nat /\ near[b] \in Nat
  BY <1>0
<1>o. \A d \in Backups \ {b} : AccountsOf(d)'
  <2>1. \A d \in Backups \ {b} : AccountsOf(d) /\ Untouched(d) /\ Ahead(d)' = Ahead(d)
    BY StepOthers DEF Accounts, Untouched, Ahead
  <2> QED
    BY <2>1 DEF AccountsOf, Untouched
<1>s. ASSUME Ahead(b)' = Ahead(b), UNCHANGED <<hashes[b], handling[b], near[b], counts[b]>>,
             writer[b] # "err", writer[b] # "encode", writer'[b] # "encode"
      PROVE  AccountsOf(b)'
  BY <1>0, <1>s DEF AccountsOf
<1>b. ASSUME NEW f \in Files, Begin(b, f)  PROVE AccountsOf(b)'
  <2>1. /\ Ahead(b)' = Ahead(b) /\ UNCHANGED <<hashes[b], handling[b], near[b], counts[b]>>
        /\ writer[b] = "none" /\ writer'[b] = "receive"
    BY <1>b DEF Begin, Ahead, TypeInv, Shape, store_vars
  <2> QED
    BY <1>s, <2>1
<1>1. ASSUME NextChunk(b)  PROVE AccountsOf(b)'
  <2>1. PICK c \in Chunk, m \in Message :
          /\ hashes' = [hashes EXCEPT ![b] = Append(@, c)]
          /\ toSend' = [toSend EXCEPT ![b] = <<m>>]
          /\ m.kind = "StoreNearDuplicate" => near' = [near EXCEPT ![b] = @ + 1]
          /\ m.kind # "StoreNearDuplicate" => near' = near
    BY <1>1, NextIs
  <2>2. Ahead(b)' = Ahead(b) \o <<m>>
    BY <1>1, <2>1, NextAhead
  <2>3. Len(Ahead(b)') = Len(Ahead(b)) + 1
    BY <1>0, <2>2, Joined, Single
  <2>4. Cardinality(NearIn(Ahead(b)')) = Cardinality(NearIn(Ahead(b)))
              + (IF m.kind = "StoreNearDuplicate" THEN 1 ELSE 0)
    BY <1>0, <2>2, NearLast
  <2>5. near'[b] = near[b] + (IF m.kind = "StoreNearDuplicate" THEN 1 ELSE 0)
    <3>1. near \in [Backups -> Nat]
      BY DEF TypeInv
    <3>2. CASE m.kind = "StoreNearDuplicate"
      <4>1. near' = [near EXCEPT ![b] = @ + 1]
        BY <2>1, <3>2
      <4> QED
        BY <3>1, <3>2, <4>1
    <3>3. CASE m.kind # "StoreNearDuplicate"
      <4>1. near' = near
        BY <2>1, <3>3
      <4> QED
        BY <3>1, <3>3, <4>1
    <3> QED
      BY <3>2, <3>3
  <2>6. Len(hashes'[b]) = Len(hashes[b]) + 1
    <3>1. hashes'[b] = Append(hashes[b], c) /\ hashes[b] \in Seq(Chunk)
      BY <2>1 DEF TypeInv
    <3> QED
      BY <3>1, Appended
  <2>7. UNCHANGED <<handling[b], counts[b], writer[b]>>
    BY <1>1 DEF NextChunk, writer_vars
  <2>8. CASE writer[b] = "err"
    BY <2>7, <2>8 DEF AccountsOf
  <2>9. CASE writer[b] # "err"
    <3>1. /\ counts[b].dedup + counts[b].stored + Len(handling[b]) + Len(Ahead(b))
                = Len(hashes[b])
          /\ counts[b].deltas + counts[b].fallbacks + Cardinality(NearIn(Ahead(b)))
                + (IF writer[b] = "encode" THEN 1 ELSE 0) = near[b]
      BY <1>0, <2>9 DEF AccountsOf
    <3>2. counts[b].dedup + counts[b].stored + Len(handling[b]) + Len(Ahead(b)')
                = Len(hashes'[b])
      <4> DEFINE p == counts[b].dedup  q == counts[b].stored  u == Len(handling[b])
                 v == Len(Ahead(b))    z == Len(hashes[b])
      <4>0. /\ p \in Nat /\ q \in Nat /\ u \in Nat /\ v \in Nat /\ z \in Nat
            /\ p + q + u + v = z
        BY <1>0, <1>c, <3>1, Zenon
      <4> HIDE DEF p, q, u, v, z
      <4>1. p + q + u + (v + 1) = z + 1
        BY <4>0
      <4> QED
        BY <4>1, <2>3, <2>6, Zenon DEF p, q, u, v, z
    <3>3. counts[b].deltas + counts[b].fallbacks + Cardinality(NearIn(Ahead(b)'))
                + (IF writer[b] = "encode" THEN 1 ELSE 0) = near'[b]
      <4>1. counts[b].deltas + counts[b].fallbacks + Cardinality(NearIn(Ahead(b)))
                + (IF writer[b] = "encode" THEN 1 ELSE 0) = near[b]
        BY <3>1
      <4> QED
        BY <1>n, <1>c, <2>4, <2>5, <4>1
    <3> QED
      BY <2>7, <3>2, <3>3 DEF AccountsOf
  <2> QED
    BY <2>8, <2>9
<1>2. ASSUME Send(b)  PROVE AccountsOf(b)'
  <2>1. UNCHANGED <<hashes[b], handling[b], near[b], counts[b], writer[b]>>
    BY <1>2 DEF Send, store_vars, writer_vars
  <2>2. CASE Alive(b)
    BY <1>0, <2>1, <2>2, <1>2, SendAhead DEF AccountsOf
  <2>3. CASE ~Alive(b)
    <3>1. writer[b] = "err"
      BY <1>2, <2>3 DEF Send, Alive, TypeInv, Shape, Ending
    <3> QED
      BY <2>1, <3>1 DEF AccountsOf
  <2> QED
    BY <2>2, <2>3
<1>3. ASSUME ReadFails(b)  PROVE AccountsOf(b)'
  <2>1. Ahead(b)' = Ahead(b) /\ UNCHANGED <<hashes[b], handling[b], near[b], counts[b], writer[b]>>
    BY <1>3 DEF ReadFails, Ahead, TypeInv, store_vars, main_vars, writer_vars
  <2> QED
    BY <1>0, <2>1 DEF AccountsOf
<1>4. ASSUME EndOfFile(b)  PROVE AccountsOf(b)'
  <2>1. Ahead(b)' = Ahead(b) /\ UNCHANGED <<hashes[b], handling[b], near[b], counts[b], writer[b]>>
    BY <1>4 DEF EndOfFile, Ahead, TypeInv, store_vars, main_vars, writer_vars
  <2> QED
    BY <1>0, <2>1 DEF AccountsOf
<1>5. ASSUME Join(b)  PROVE AccountsOf(b)'
  <2>1. Ahead(b)' = Ahead(b) /\ UNCHANGED <<hashes[b], handling[b], near[b], counts[b], writer[b]>>
    BY <1>5 DEF Join, Ahead, TypeInv, store_vars, main_vars, writer_vars
  <2> QED
    BY <1>0, <2>1 DEF AccountsOf
<1>6. ASSUME Receive(b)  PROVE AccountsOf(b)'
  <2>1. /\ Ahead(b)' = Tail(Ahead(b)) /\ Ahead(b) # <<>> /\ Ahead(b)[1] = Head(queue[b])
        /\ Head(queue[b]) \in Message
    BY <1>6, ReceiveAhead
  <2>2. Len(Ahead(b)) # 0 /\ Len(Ahead(b)') = Len(Ahead(b)) - 1
    BY <1>0, <2>1, Rest, Lens
  <2>3. /\ Cardinality(NearIn(Ahead(b))) = Cardinality(NearIn(Ahead(b)'))
              + (IF Head(queue[b]).kind = "StoreNearDuplicate" THEN 1 ELSE 0)
        /\ Cardinality(NearIn(Ahead(b)')) \in Nat
    BY <1>0, <2>1, NearRest, NearFinite, Rest
  <2>4. /\ writer[b] = "receive" /\ handling[b] = <<>> /\ Len(handling[b]) = 0
        /\ hashes'[b] = hashes[b] /\ near'[b] = near[b]
    BY <1>6, Empty DEF Receive, Shape, main_vars
  <2>a. counts[b].dedup + counts[b].stored + Len(Ahead(b)) = Len(hashes[b])
    BY <1>0, <1>c, <2>4 DEF AccountsOf
  <2>c. /\ counts[b].deltas + counts[b].fallbacks + Cardinality(NearIn(Ahead(b))) = near[b]
        /\ near'[b] = near[b]
    BY <1>n, <1>c, <1>0, <2>4 DEF AccountsOf
  <2>5. CASE Head(queue[b]).kind = "Skip"
    <3>1. handling'[b] = <<>> /\ writer'[b] = "receive"
      BY <1>6, <2>4, <2>5 DEF Receive
    <3>2. counts'[b] = [counts[b] EXCEPT !.dedup = @ + 1]
      BY <1>6, <2>5 DEF Receive, TypeInv
    <3>3. /\ counts'[b].dedup = counts[b].dedup + 1 /\ counts'[b].stored = counts[b].stored
          /\ counts'[b].deltas = counts[b].deltas /\ counts'[b].fallbacks = counts[b].fallbacks
      BY <1>0, <3>2 DEF Count
    <3>4. Len(handling'[b]) = 0
      BY <2>4, <3>1
    <3>5. counts'[b].dedup + counts'[b].stored + Len(handling'[b]) + Len(Ahead(b)') = Len(hashes'[b])
      <4> DEFINE p == counts[b].dedup  q == counts[b].stored  u == Len(handling[b])
                 v == Len(Ahead(b))    z == Len(hashes[b])
      <4>0. /\ p \in Nat /\ q \in Nat /\ u \in Nat /\ v \in Nat /\ z \in Nat
            /\ v # 0 /\ p + q + v = z
        BY <1>0, <1>c, <2>a, <2>2, Zenon
      <4> HIDE DEF p, q, u, v, z
      <4>1. (p + 1) + q + 0 + (v - 1) = z
        BY <4>0
      <4> QED
        BY <4>1, <2>2, <2>4, <3>3, <3>4, Zenon DEF p, q, u, v, z
    <3>6. counts'[b].deltas + counts'[b].fallbacks + Cardinality(NearIn(Ahead(b)')) + 0 = near'[b]
      BY <1>n, <1>c, <2>c, <2>3, <2>5, <3>3
    <3> QED
      BY <3>1, <3>5, <3>6 DEF AccountsOf
  <2>6. CASE Head(queue[b]).kind # "Skip"
    <3>1. /\ handling'[b] = <<Head(queue[b])>> /\ counts'[b] = counts[b]
          /\ writer'[b] = IF Head(queue[b]).kind = "Store" THEN "put" ELSE "encode"
      BY <1>6, <2>6 DEF Receive, TypeInv
    <3>2. Len(handling'[b]) = 1
      BY <2>1, <3>1, Single
    <3>3. Head(queue[b]).kind \in {"Store", "StoreNearDuplicate"}
      BY <2>1, <2>6 DEF Message
    <3>4. counts'[b].dedup + counts'[b].stored + Len(handling'[b]) + Len(Ahead(b)') = Len(hashes'[b])
      <4> DEFINE p == counts[b].dedup  q == counts[b].stored  u == Len(handling[b])
                 v == Len(Ahead(b))    z == Len(hashes[b])
      <4>0. /\ p \in Nat /\ q \in Nat /\ u \in Nat /\ v \in Nat /\ z \in Nat
            /\ v # 0 /\ p + q + v = z
        BY <1>0, <1>c, <2>a, <2>2, Zenon
      <4> HIDE DEF p, q, u, v, z
      <4>1. p + q + 1 + (v - 1) = z
        BY <4>0
      <4> QED
        BY <4>1, <2>2, <2>4, <3>1, <3>2, Zenon DEF p, q, u, v, z
    <3>5. counts'[b].deltas + counts'[b].fallbacks + Cardinality(NearIn(Ahead(b)'))
             + (IF writer'[b] = "encode" THEN 1 ELSE 0) = near'[b]
      <4>1. /\ counts'[b] = counts[b]
            /\ writer'[b] = IF Head(queue[b]).kind = "Store" THEN "put" ELSE "encode"
        BY <3>1
      <4> QED
        BY <1>n, <1>c, <2>c, <2>3, <4>1, <3>3
    <3> QED
      BY <3>4, <3>5 DEF AccountsOf
  <2> QED
    BY <2>5, <2>6
<1>7. ASSUME Encode(b)  PROVE AccountsOf(b)'
  <2>1. /\ Ahead(b)' = Ahead(b) /\ UNCHANGED <<hashes[b], handling[b], near[b]>>
        /\ writer[b] = "encode" /\ writer'[b] \in {"put", "putDelta"}
    BY <1>7 DEF Encode, Ahead, TypeInv, store_vars, main_vars
  <2>2. \/ counts'[b] = [counts[b] EXCEPT !.deltas = @ + 1]
        \/ counts'[b] = [counts[b] EXCEPT !.fallbacks = @ + 1]
    BY <1>7 DEF Encode, TypeInv
  <2>3. /\ counts'[b].dedup = counts[b].dedup /\ counts'[b].stored = counts[b].stored
        /\ \/ /\ counts'[b].deltas = counts[b].deltas + 1
              /\ counts'[b].fallbacks = counts[b].fallbacks
           \/ /\ counts'[b].deltas = counts[b].deltas
              /\ counts'[b].fallbacks = counts[b].fallbacks + 1
    BY <1>0, <2>2 DEF Count
  <2>a. counts[b].dedup + counts[b].stored + Len(handling[b]) + Len(Ahead(b)) = Len(hashes[b])
    BY <1>0, <2>1 DEF AccountsOf
  <2>4. counts[b].deltas + counts[b].fallbacks + Cardinality(NearIn(Ahead(b))) + 1 = near[b]
    BY <1>0, <2>1 DEF AccountsOf
  <2>5. counts'[b].deltas + counts'[b].fallbacks + Cardinality(NearIn(Ahead(b))) + 0 = near[b]
    BY <1>n, <1>c, <2>3, <2>4
  <2> QED
    BY <2>1, <2>3, <2>a, <2>5 DEF AccountsOf
<1>8. ASSUME Put(b)  PROVE AccountsOf(b)'
  <2>1. /\ Ahead(b)' = Ahead(b) /\ UNCHANGED <<hashes[b], handling[b], near[b], counts[b]>>
        /\ writer[b] \in {"put", "putDelta"} /\ writer'[b] \in {"insert", "write"}
    BY <1>8 DEF Put, Drains, Ahead, TypeInv, main_vars
  <2> QED
    BY <1>s, <2>1
<1>9. ASSUME Insert(b)  PROVE AccountsOf(b)'
  <2>1. /\ Ahead(b)' = Ahead(b) /\ UNCHANGED <<hashes[b], near[b]>>
        /\ writer[b] = "insert" /\ writer'[b] = "receive" /\ handling'[b] = <<>>
        /\ counts'[b] = [counts[b] EXCEPT !.stored = @ + 1]
    BY <1>9 DEF Insert, Ahead, TypeInv, main_vars
  <2>2. Len(handling[b]) = 1 /\ Len(handling'[b]) = 0
    BY <2>1, MsgIs, Empty
  <2> QED
    BY <1>0, <2>1, <2>2 DEF AccountsOf, Count
<1>10. ASSUME Finish(b)  PROVE AccountsOf(b)'
  <2>1. /\ Ahead(b)' = Ahead(b) /\ UNCHANGED <<hashes[b], handling[b], near[b], counts[b]>>
        /\ writer[b] = "receive" /\ writer'[b] = "flush"
    BY <1>10 DEF Finish, Ahead, TypeInv, store_vars, main_vars
  <2> QED
    BY <1>s, <2>1
<1>11. ASSUME Flush(b)  PROVE AccountsOf(b)'
  <2>1. /\ Ahead(b)' = Ahead(b) /\ UNCHANGED <<hashes[b], handling[b], near[b], counts[b]>>
        /\ writer[b] = "flush" /\ writer'[b] \in {"ok", "write"}
    BY <1>11 DEF Flush, Drains, Ahead, TypeInv, main_vars
  <2> QED
    BY <1>s, <2>1
<1>w. ASSUME Write(b)  PROVE AccountsOf(b)'
  <2>1. /\ Ahead(b)' = Ahead(b) /\ UNCHANGED <<hashes[b], handling[b], near[b], counts[b]>>
        /\ writer[b] = "write" /\ writer'[b] \in {"ok", "insert"}
    BY <1>w DEF Write, Ahead, TypeInv, main_vars
  <2> QED
    BY <1>s, <2>1
<1>12. ASSUME StoreFails(b)  PROVE AccountsOf(b)'
  BY <1>12 DEF StoreFails, TypeInv, AccountsOf
<1>13. ASSUME Forget(b)  PROVE AccountsOf(b)'
  <2>1. /\ queue[b] = <<>> /\ toSend[b] = <<>> /\ handling[b] = <<>>
    BY <1>13 DEF Forget, Returned, Alive, Shape, Ending, TypeInv
  <2>2. /\ queue'[b] = <<>> /\ toSend'[b] = <<>> /\ handling'[b] = <<>>
        /\ hashes'[b] = <<>> /\ near'[b] = 0 /\ counts'[b] = NoCounts /\ writer'[b] = "none"
    BY <1>13, <2>1 DEF Forget, TypeInv
  <2>3. Ahead(b)' = <<>> /\ Len(<<>>) = 0 /\ Cardinality(NearIn(<<>>)) = 0
    BY <2>2, Joined, Empty, NearFinite DEF Ahead
  <2> QED
    BY <2>2, <2>3 DEF AccountsOf, NoCounts
<1>14. AccountsOf(b)'
  BY <1>b, <1>1, <1>2, <1>3, <1>4, <1>5, <1>6, <1>7, <1>8, <1>9, <1>10, <1>11, <1>w, <1>12, <1>13
     DEF Step, MainStep, WriterStep
<1> QED
  BY <1>14, <1>o DEF Accounts

LEMMA StepInv == Inv /\ [Next]_vars => Inv'
<1>1. ASSUME Inv, NEW b \in Backups, Step(b)  PROVE Inv'
  BY <1>1, StepType, StepShape, StepProgress, StepAccounts DEF Inv
<1>2. ASSUME Inv, UNCHANGED vars  PROVE Inv'
  <2>1. \A b \in Backups : Ahead(b)' = Ahead(b)
    BY <1>2 DEF vars, store_vars, main_vars, writer_vars, Ahead
  <2>2. TypeInv' /\ Shape' /\ Progress'
    BY <1>2 DEF Inv, vars, store_vars, main_vars, writer_vars, TypeInv, Shape, Ending, Progress, ProgressOf
  <2>3. Accounts'
    BY <1>2, <2>1 DEF Inv, vars, store_vars, main_vars, writer_vars, Accounts, AccountsOf
  <2> QED
    BY <2>2, <2>3 DEF Inv
<1> QED
  BY <1>1, <1>2 DEF Next, Step

-----------------------------------------------------------------------------
(* What the store was given and what the channel holds.                    *)

Others(b) == UNION {batch[d] : d \in Backups \ {b}}

LEMMA BatchIs ==
    ASSUME batch \in [Backups -> SUBSET Chunk], NEW b \in Backups, NEW X,
           batch' = [batch EXCEPT ![b] = X]
    PROVE  Unwritten = batch[b] \cup Others(b) /\ Unwritten' = X \cup Others(b)
<1>1. batch'[b] = X /\ \A d \in Backups \ {b} : batch'[d] = batch[d]
  OBVIOUS
<1> QED
  BY <1>1 DEF Unwritten, Others

Grows ==
    Accepted \subseteq Accepted' /\ Settled \subseteq Settled'

(* The store does not forget what it was given.                            *)
LEMMA StepGrows ==
    ASSUME Inv, NEW b \in Backups, Step(b)
    PROVE  Grows
<1>1. batch \in [Backups -> SUBSET Chunk]
  BY DEF Inv, TypeInv
<1>2. \/ UNCHANGED <<pending, batch, durable, lost>>
      \/ Put(b) \/ Flush(b) \/ Write(b) \/ StoreFails(b)
  BY DEF Step, MainStep, WriterStep, Begin, NextChunk, Send, ReadFails, EndOfFile, Join,
         Receive, Encode, Insert, Finish, Forget, store_vars
<1>3. CASE UNCHANGED <<pending, batch, durable, lost>>
  BY <1>3 DEF Grows, Accepted, Settled, Unwritten
<1>4. ASSUME NEW X, Drains(b, pending \cup X), UNCHANGED <<durable, lost>>, batch[b] = {}
      PROVE  Grows
  <2>1. batch' = [batch EXCEPT ![b] = pending \cup X]
    BY <1>4 DEF Drains
  <2>2. Unwritten = batch[b] \cup Others(b) /\ Unwritten' = (pending \cup X) \cup Others(b)
    BY <1>1, <2>1, BatchIs
  <2> QED
    BY <1>4, <2>2 DEF Grows, Accepted, Settled
<1>5. ASSUME Put(b) PROVE Grows
  <2>1. batch[b] = {} /\ UNCHANGED <<durable, lost>>
    BY <1>5 DEF Put, Inv, Shape
  <2>2. CASE pending \subseteq pending' /\ UNCHANGED batch
    BY <2>1, <2>2 DEF Grows, Accepted, Settled, Unwritten
  <2>3. CASE Drains(b, pending \cup {Msg(b).hash})
    BY <1>4, <2>1, <2>3
  <2> QED
    BY <1>5, <2>2, <2>3 DEF Put
<1>6. ASSUME Flush(b) PROVE Grows
  <2>1. batch[b] = {} /\ UNCHANGED <<durable, lost>>
    BY <1>6 DEF Flush, Inv, Shape
  <2>2. CASE UNCHANGED <<pending, batch>>
    BY <2>1, <2>2 DEF Grows, Accepted, Settled, Unwritten
  <2>3. CASE Drains(b, pending)
    <3>1. Drains(b, pending \cup {})
      BY <2>3
    <3> QED
      BY <1>4, <2>1, <3>1
  <2> QED
    BY <1>6, <2>2, <2>3 DEF Flush
<1>7. ASSUME Write(b) \/ StoreFails(b) PROVE Grows
  <2>1. Unwritten = batch[b] \cup Others(b) /\ Unwritten' = {} \cup Others(b)
    BY <1>1, <1>7, BatchIs DEF Write, StoreFails
  <2>2. pending' = pending /\ durable \cup lost \cup batch[b] \subseteq durable' \cup lost'
    BY <1>7 DEF Write, StoreFails
  <2> QED
    BY <2>1, <2>2 DEF Grows, Accepted, Settled
<1> QED
  BY <1>2, <1>3, <1>5, <1>6, <1>7

LEMMA InitContent == Init => Content
<1> SUFFICES ASSUME Init PROVE Content
  OBVIOUS
<1>1. ASSUME NEW b \in Backups
      PROVE  Ahead(b) = <<>> /\ ToSet(hashes[b]) = {} /\ writer[b] = "none"
  <2>1. <<>> \o <<>> = <<>>
    BY Joined, Empty
  <2> QED
    BY <2>1 DEF Init, Ahead, ToSet
<1>2. \A b \in Backups : ChannelOf(b)
  BY <1>1, Empty DEF ChannelOf
<1>3. \A b \in Backups : WriterOf(b)
  BY <1>1 DEF WriterOf, Ending
<1> QED
  BY <1>2, <1>3 DEF Init, Content

(* The channel is as it was, and no chunk the writer held is given up.     *)
LEMMA SameChannel ==
    ASSUME NEW b \in Backups, ChannelOf(b), Ahead(b)' = Ahead(b), hashes'[b] = hashes[b],
           Accepted \subseteq Accepted', Held(b) \subseteq Held(b)'
    PROVE  ChannelOf(b)'
  BY DEF ChannelOf, After

(* The writer has taken the first message, and holds its chunk.            *)
LEMMA TakenChannel ==
    ASSUME Inv, NEW b \in Backups, ChannelOf(b), Receive(b),
           Held(b) \cup {Head(queue[b]).hash} \subseteq Held(b)'
    PROVE  ChannelOf(b)'
<1>1. /\ Ahead(b)' = Tail(Ahead(b)) /\ Ahead(b) # <<>> /\ Ahead(b)[1] = Head(queue[b])
      /\ Ahead(b) \in Seq(Message)
  BY ReceiveAhead, AheadIs DEF Inv
<1>2. /\ Len(Ahead(b)) \in Nat \ {0} /\ Len(Ahead(b)') = Len(Ahead(b)) - 1
      /\ \A i \in 1 .. Len(Ahead(b)) - 1 : Ahead(b)'[i] = Ahead(b)[i + 1]
  BY <1>1, Rest
<1>3. Accepted' = Accepted /\ hashes'[b] = hashes[b]
  BY DEF Receive, store_vars, main_vars, Accepted, Settled, Unwritten
<1>4. ASSUME NEW n \in 0 .. Len(Ahead(b)) - 1
      PROVE  After(b, n + 1) \subseteq After(b, n)'
  <2>1. ASSUME NEW k \in 1 .. n + 1
        PROVE  Ahead(b)[k].hash \in After(b, n)'
    <3>1. CASE k = 1
      BY <1>1, <3>1 DEF After
    <3>2. CASE k # 1
      <4>1. k - 1 \in 1 .. n /\ (k - 1) + 1 = k /\ k - 1 \in 1 .. Len(Ahead(b)) - 1
        BY <1>2, <2>1, <3>2
      <4>2. Ahead(b)'[k - 1] = Ahead(b)[k]
        BY <1>2, <4>1
      <4> QED
        BY <4>1, <4>2 DEF After
    <3> QED
      BY <3>1, <3>2
  <2> QED
    BY <2>1 DEF After
<1>5. ASSUME NEW i \in 1 .. Len(Ahead(b)'), NEW m, m = Ahead(b)'[i]
      PROVE  /\ m.kind = "Skip" => m.hash \in Accepted'
             /\ m.kind = "StoreNearDuplicate" => m.similar_to \in After(b, i - 1)'
  <2>1. /\ i + 1 \in 1 .. Len(Ahead(b)) /\ m = Ahead(b)[i + 1]
        /\ (i + 1) - 1 = (i - 1) + 1 /\ i - 1 \in 0 .. Len(Ahead(b)) - 1
    BY <1>2, <1>5
  <2>2. After(b, (i - 1) + 1) \subseteq After(b, i - 1)'
    BY <1>4, <2>1
  <2>3. /\ m.kind = "Skip" => m.hash \in Accepted
        /\ m.kind = "StoreNearDuplicate" => m.similar_to \in After(b, (i + 1) - 1)
    BY <2>1 DEF ChannelOf
  <2> QED
    BY <1>3, <2>1, <2>2, <2>3
<1>6. PICK n \in Nat : n = Len(Ahead(b)') /\ n + 1 = Len(Ahead(b))
  BY <1>2
<1>7. After(b, n + 1) \subseteq After(b, n)'
  BY <1>4, <1>6
<1>8. ToSet(hashes'[b]) \subseteq After(b, n)'
  BY <1>3, <1>6, <1>7 DEF ChannelOf
<1> QED
  BY <1>5, <1>6, <1>8 DEF ChannelOf, After

(* The main thread has made another message.                               *)
LEMMA MoreChannel ==
    ASSUME Inv, Content, NEW b \in Backups, NextChunk(b), writer[b] # "err"
    PROVE  ChannelOf(b)'
<1>1. PICK c \in Chunk, m \in Message :
          /\ m.hash = c
          /\ hashes' = [hashes EXCEPT ![b] = Append(@, c)]
          /\ toSend' = [toSend EXCEPT ![b] = <<m>>]
          /\ m.kind = "Skip" => c \in index
          /\ m.kind = "StoreNearDuplicate" => m.similar_to \in similar[b]
  BY NextIs DEF Inv
<1>2. ChannelOf(b) /\ similar[b] \subseteq ToSet(hashes[b]) /\ index \subseteq Accepted
  BY DEF Content, Inv, Progress, ProgressOf
<1>3. Accepted' = Accepted /\ handling' = handling
  BY DEF NextChunk, store_vars, writer_vars, Accepted, Settled, Unwritten
<1>4. Ahead(b)' = Ahead(b) \o <<m>> /\ Ahead(b) \in Seq(Message) /\ Len(Ahead(b)) \in Nat
  BY <1>1, NextAhead, AheadIs DEF Inv
<1>5. /\ Len(Ahead(b)') = Len(Ahead(b)) + 1
      /\ \A i \in 1 .. Len(Ahead(b)) : Ahead(b)'[i] = Ahead(b)[i]
      /\ Ahead(b)'[Len(Ahead(b)) + 1] = m
  <2>1. <<m>> \in Seq(Message) /\ Len(<<m>>) = 1 /\ <<m>>[1] = m /\ 1 \in 1 .. Len(<<m>>)
    BY Single
  <2> QED
    BY <1>4, <2>1, Joined
<1>6. ASSUME NEW n \in 0 .. Len(Ahead(b))
      PROVE  After(b, n) \subseteq After(b, n)'
  BY <1>3, <1>4, <1>5, <1>6 DEF After, Held
<1>7. ToSet(hashes'[b]) = ToSet(hashes[b]) \cup {c}
  <2>1. hashes'[b] = Append(hashes[b], c) /\ hashes[b] \in Seq(Chunk)
    BY <1>1 DEF Inv, TypeInv
  <2> QED
    BY <2>1, Appended
<1>8. PICK n \in Nat : n = Len(Ahead(b))
  BY <1>4
<1>9. ToSet(hashes[b]) \subseteq After(b, n) /\ After(b, n) \subseteq After(b, n)'
  BY <1>2, <1>6, <1>8 DEF ChannelOf
<1>10. ToSet(hashes'[b]) \subseteq After(b, n + 1)'
  <2>1. After(b, n)' \cup {m.hash} \subseteq After(b, n + 1)'
    BY <1>5, <1>8 DEF After
  <2> QED
    BY <1>1, <1>7, <1>9, <2>1
<1>11. ASSUME NEW i \in 1 .. n + 1, NEW x, x = Ahead(b)'[i]
       PROVE  /\ x.kind = "Skip" => x.hash \in Accepted'
              /\ x.kind = "StoreNearDuplicate" => x.similar_to \in After(b, i - 1)'
  <2>1. CASE i \in 1 .. n
    <3>1. x = Ahead(b)[i] /\ i - 1 \in 0 .. n
      BY <1>5, <1>8, <1>11, <2>1
    <3>2. After(b, i - 1) \subseteq After(b, i - 1)'
      BY <1>6, <1>8, <3>1
    <3>3. /\ x.kind = "Skip" => x.hash \in Accepted
          /\ x.kind = "StoreNearDuplicate" => x.similar_to \in After(b, i - 1)
      BY <1>2, <1>8, <2>1, <3>1 DEF ChannelOf
    <3> QED
      BY <1>3, <3>2, <3>3
  <2>2. CASE i = n + 1
    <3>1. x = m /\ i - 1 = n
      BY <1>5, <1>8, <1>11, <2>2
    <3> QED
      BY <1>1, <1>2, <1>3, <1>9, <3>1
  <2> QED
    BY <2>1, <2>2
<1> QED
  BY <1>5, <1>8, <1>10, <1>11 DEF ChannelOf, After

Kept(b) ==
    /\ index' \subseteq Accepted'
    /\ writer'[b] # "err" => ChannelOf(b)' /\ WriterOf(b)'

LEMMA StepContent ==
    ASSUME Inv, Content, NEW b \in Backups, Step(b)
    PROVE  Content'
<1> USE DEF Inv
<1>0. /\ index \subseteq Accepted /\ Accepted \subseteq Accepted' /\ Settled \subseteq Settled'
      /\ writer[b] # "err" => ChannelOf(b) /\ WriterOf(b)
      /\ handling \in [Backups -> Seq(Message)]
  BY StepGrows DEF Content, Grows, TypeInv
<1>s. ASSUME Ahead(b)' = Ahead(b), UNCHANGED <<hashes[b], handling[b]>>, ChannelOf(b)
      PROVE  ChannelOf(b)'
  <2>1. Held(b) \subseteq Held(b)'
    BY <1>0, <1>s DEF Held
  <2> QED
    BY <1>0, <1>s, <2>1, SameChannel
<1>b. ASSUME NEW f \in Files, Begin(b, f)  PROVE Kept(b)
  <2>1. /\ Ahead(b)' = Ahead(b) /\ UNCHANGED <<hashes[b], handling[b], index>>
        /\ writer[b] = "none" /\ writer'[b] = "receive"
    BY <1>b DEF Begin, Ahead, TypeInv, Shape, store_vars
  <2>2. ChannelOf(b)'
    BY <1>0, <1>s, <2>1
  <2>3. WriterOf(b)'
    BY <2>1 DEF WriterOf, Ending
  <2> QED
    BY <1>0, <2>1, <2>2, <2>3 DEF Kept
<1>1. ASSUME NextChunk(b)  PROVE Kept(b)
  <2>1. /\ UNCHANGED <<index, handling[b], writer[b]>> /\ ~Ending(b)
    BY <1>1 DEF NextChunk, Shape, store_vars, writer_vars
  <2>2. ASSUME writer[b] # "err"  PROVE WriterOf(b)'
    BY <1>0, <2>1, <2>2 DEF WriterOf, Ending, Msg
  <2> QED
    BY <1>1, <1>0, <2>1, <2>2, MoreChannel DEF Kept
<1>2. ASSUME Send(b)  PROVE Kept(b)
  <2>1. UNCHANGED <<hashes[b], handling[b], writer[b], index>>
    BY <1>2 DEF Send, store_vars, writer_vars
  <2>2. CASE Alive(b)
    <3>1. Ahead(b)' = Ahead(b)
      BY <1>2, <2>2, SendAhead
    <3>2. writer[b] # "err" => ChannelOf(b)'
      BY <1>0, <1>s, <2>1, <3>1
    <3>3. writer[b] # "err" => WriterOf(b)'
      BY <1>0, <2>1 DEF WriterOf, Ending, Msg
    <3> QED
      BY <1>0, <2>1, <3>2, <3>3 DEF Kept
  <2>3. CASE ~Alive(b)
    <3>1. writer[b] = "err"
      BY <1>2, <2>3 DEF Send, Alive, TypeInv, Shape, Ending
    <3> QED
      BY <1>0, <2>1, <3>1 DEF Kept
  <2> QED
    BY <2>2, <2>3
<1>3. ASSUME ReadFails(b) \/ EndOfFile(b) \/ Join(b)  PROVE Kept(b)
  <2>1. /\ Ahead(b)' = Ahead(b) /\ UNCHANGED <<hashes[b], handling[b], writer[b], index>>
    BY <1>3 DEF ReadFails, EndOfFile, Join, Ahead, store_vars, main_vars, writer_vars
  <2>2. writer[b] # "err" => ChannelOf(b)'
    BY <1>0, <1>s, <2>1
  <2>3. writer[b] # "err" => WriterOf(b)'
    BY <1>0, <2>1 DEF WriterOf, Ending, Msg
  <2> QED
    BY <1>0, <2>1, <2>2, <2>3 DEF Kept
<1>6. ASSUME Receive(b)  PROVE Kept(b)
  <2>1. /\ writer[b] = "receive" /\ handling[b] = <<>> /\ Len(handling[b]) = 0
        /\ UNCHANGED <<Accepted, index>>
    BY <1>6, Empty DEF Receive, Shape, store_vars, Accepted, Settled, Unwritten
  <2>2. Held(b) = Accepted /\ ChannelOf(b)
    BY <1>0, <2>1 DEF Held
  <2>3. /\ Head(queue[b]) \in Message /\ Ahead(b)[1] = Head(queue[b])
        /\ 1 \in 1 .. Len(Ahead(b))
    BY <1>6, ReceiveAhead, AheadIs, Rest
  <2>4. /\ Head(queue[b]).kind = "Skip" => Head(queue[b]).hash \in Accepted
        /\ Head(queue[b]).kind = "StoreNearDuplicate" => Head(queue[b]).similar_to \in Accepted
    <3>1. After(b, 1 - 1) = Accepted
      BY <2>2 DEF After
    <3> QED
      BY <2>2, <2>3, <3>1 DEF ChannelOf
  <2>5. CASE Head(queue[b]).kind = "Skip"
    <3>1. handling'[b] = <<>> /\ writer'[b] = "receive"
      BY <1>6, <2>1, <2>5 DEF Receive
    <3>2. Held(b)' = Accepted
      BY <2>1, <3>1 DEF Held
    <3>3. ChannelOf(b)'
      BY <1>6, <2>2, <2>4, <2>5, <3>2, TakenChannel
    <3> QED
      BY <1>0, <2>1, <3>1, <3>3 DEF Kept, WriterOf, Ending
  <2>6. CASE Head(queue[b]).kind # "Skip"
    <3>1. /\ handling'[b] = <<Head(queue[b])>>
          /\ writer'[b] = IF Head(queue[b]).kind = "Store" THEN "put" ELSE "encode"
      BY <1>6, <2>6 DEF Receive, TypeInv
    <3>2. Len(handling'[b]) = 1 /\ handling'[b][1] = Head(queue[b])
      BY <2>3, <3>1, Single
    <3>3. Held(b)' = Accepted \cup {Head(queue[b]).hash}
      BY <2>1, <3>2 DEF Held
    <3>4. ChannelOf(b)'
      BY <1>6, <2>2, <3>3, TakenChannel
    <3>5. Head(queue[b]).kind \in {"Store", "StoreNearDuplicate"}
      BY <2>3, <2>6 DEF Message
    <3>6. WriterOf(b)'
      BY <2>1, <2>4, <3>1, <3>2, <3>5 DEF WriterOf, Ending, Msg
    <3> QED
      BY <1>0, <2>1, <3>4, <3>6 DEF Kept
  <2> QED
    BY <2>5, <2>6
<1>7. ASSUME Encode(b)  PROVE Kept(b)
  <2>1. /\ Ahead(b)' = Ahead(b) /\ UNCHANGED <<hashes[b], handling[b], index>>
        /\ writer[b] = "encode" /\ writer'[b] \in {"put", "putDelta"}
    BY <1>7 DEF Encode, Ahead, TypeInv, store_vars, main_vars
  <2>2. ChannelOf(b)'
    BY <1>0, <1>s, <2>1
  <2>3. WriterOf(b)'
    BY <2>1 DEF WriterOf, Ending
  <2> QED
    BY <1>0, <2>1, <2>2, <2>3 DEF Kept
<1>8. ASSUME Put(b)  PROVE Kept(b)
  <2>1. /\ Ahead(b)' = Ahead(b) /\ UNCHANGED <<hashes[b], handling[b], index>>
        /\ writer[b] \in {"put", "putDelta"} /\ writer'[b] \in {"insert", "write"}
        /\ handling[b] # <<>>
    BY <1>8 DEF Put, Drains, Ahead, Shape, TypeInv, main_vars
  <2>2. Msg(b).hash \in Accepted'
    <3>1. CASE Msg(b).hash \in index
      BY <1>0, <3>1
    <3>2. CASE Msg(b).hash \in pending \cup pending'
      BY <1>0, <3>2 DEF Accepted
    <3>3. CASE Drains(b, pending \cup {Msg(b).hash})
      <4>1. batch'[b] = pending \cup {Msg(b).hash}
        BY <3>3 DEF Drains, TypeInv
      <4> QED
        BY <4>1 DEF Accepted, Settled, Unwritten
    <3> QED
      BY <1>8, <3>1, <3>2, <3>3 DEF Put
  <2>3. ChannelOf(b)'
    BY <1>0, <1>s, <2>1
  <2>4. WriterOf(b)'
    BY <2>1, <2>2 DEF WriterOf, Ending, Msg
  <2> QED
    BY <1>0, <2>1, <2>3, <2>4 DEF Kept
<1>9. ASSUME Insert(b)  PROVE Kept(b)
  <2>1. /\ Ahead(b)' = Ahead(b) /\ UNCHANGED <<hashes[b], Accepted>>
        /\ writer[b] = "insert" /\ writer'[b] = "receive" /\ handling'[b] = <<>>
        /\ index' = index \cup {Msg(b).hash}
    BY <1>9 DEF Insert, Ahead, TypeInv, main_vars, Accepted, Settled, Unwritten
  <2>2. Msg(b).hash \in Accepted /\ ChannelOf(b)
    BY <1>0, <2>1 DEF WriterOf
  <2>3. Held(b) \subseteq Held(b)'
    <3>1. Len(handling[b]) = 1 /\ handling[b][1] = Msg(b)
      BY <2>1, MsgIs DEF Msg
    <3>2. Held(b) = Accepted \cup {Msg(b).hash}
      BY <3>1 DEF Held
    <3> QED
      BY <2>1, <2>2, <3>2 DEF Held
  <2>4. ChannelOf(b)'
    BY <1>0, <2>1, <2>2, <2>3, SameChannel
  <2>5. WriterOf(b)'
    BY <2>1 DEF WriterOf, Ending
  <2> QED
    BY <1>0, <2>1, <2>2, <2>4, <2>5 DEF Kept
<1>10. ASSUME Finish(b)  PROVE Kept(b)
  <2>1. /\ Ahead(b)' = Ahead(b) /\ UNCHANGED <<hashes[b], handling[b], index>>
        /\ writer[b] = "receive" /\ writer'[b] = "flush"
    BY <1>10 DEF Finish, Ahead, TypeInv, store_vars, main_vars
  <2>2. ChannelOf(b)'
    BY <1>0, <1>s, <2>1
  <2>3. WriterOf(b)'
    BY <2>1 DEF WriterOf, Ending
  <2> QED
    BY <1>0, <2>1, <2>2, <2>3 DEF Kept
<1>11. ASSUME Flush(b)  PROVE Kept(b)
  <2>1. /\ Ahead(b)' = Ahead(b) /\ UNCHANGED <<hashes[b], handling[b], index>>
        /\ writer[b] = "flush" /\ writer'[b] \in {"ok", "write"} /\ handling[b] = <<>>
        /\ queue[b] = <<>> /\ toSend[b] = <<>>
    BY <1>11 DEF Flush, Drains, Ahead, TypeInv, Shape, Ending, main_vars
  <2>2. ChannelOf(b)' /\ ChannelOf(b)
    BY <1>0, <1>s, <2>1
  <2>3. Ahead(b) = <<>> /\ Len(Ahead(b)) = 0 /\ Len(handling[b]) = 0
    BY <2>1, Joined, Empty DEF Ahead
  <2>4. ToSet(hashes[b]) \subseteq Accepted
    BY <2>2, <2>3 DEF ChannelOf, After, Held
  <2>5. pending' = {}
    BY <1>11 DEF Flush, Drains
  <2>6. ToSet(hashes'[b]) \subseteq Settled'
    BY <1>0, <2>1, <2>4, <2>5 DEF Accepted
  <2>7. WriterOf(b)'
    BY <2>1, <2>6 DEF WriterOf
  <2> QED
    BY <1>0, <2>1, <2>2, <2>7 DEF Kept
<1>w. ASSUME Write(b)  PROVE Kept(b)
  <2>1. /\ Ahead(b)' = Ahead(b) /\ UNCHANGED <<hashes[b], handling[b], index>>
        /\ writer[b] = "write"
        /\ writer'[b] = IF handling[b] = <<>> THEN "ok" ELSE "insert"
    BY <1>w DEF Write, Ahead, TypeInv, main_vars
  <2>2. ChannelOf(b)'
    BY <1>0, <1>s, <2>1
  <2>3. WriterOf(b)'
    BY <1>0, <2>1 DEF WriterOf, Ending, Msg
  <2> QED
    BY <1>0, <2>1, <2>2, <2>3 DEF Kept
<1>12. ASSUME StoreFails(b)  PROVE Kept(b)
  <2>1. index' = index /\ writer'[b] = "err"
    BY <1>12 DEF StoreFails, TypeInv
  <2> QED
    BY <1>0, <2>1 DEF Kept
<1>13. ASSUME Forget(b)  PROVE Kept(b)
  <2>1. /\ queue[b] = <<>> /\ toSend[b] = <<>> /\ index' = index
    BY <1>13 DEF Forget, Returned, Alive, Shape, Ending, TypeInv, store_vars
  <2>2. /\ queue'[b] = <<>> /\ toSend'[b] = <<>> /\ writer'[b] = "none"
        /\ hashes'[b] = <<>>
    BY <1>13, <2>1 DEF Forget, TypeInv
  <2>3. Ahead(b)' = <<>> /\ Len(<<>>) = 0 /\ ToSet(<<>>) = {}
    BY <2>2, Joined, Empty DEF Ahead, ToSet
  <2> QED
    BY <1>0, <2>1, <2>2, <2>3 DEF Kept, ChannelOf, WriterOf, Ending
<1>14. Kept(b)
  BY <1>b, <1>1, <1>2, <1>3, <1>6, <1>7, <1>8, <1>9, <1>10, <1>11, <1>w, <1>12, <1>13
     DEF Step, MainStep, WriterStep
<1>15. ASSUME NEW d \in Backups \ {b}, writer'[d] # "err"
       PROVE  ChannelOf(d)' /\ WriterOf(d)'
  <2>1. Untouched(d) /\ ChannelOf(d) /\ WriterOf(d)
    BY <1>15, StepOthers DEF Content, Untouched
  <2>2. /\ Ahead(d)' = Ahead(d)
        /\ UNCHANGED <<hashes[d], handling[d], writer[d]>>
    BY <2>1 DEF Untouched, Ahead
  <2>3. Held(d) \subseteq Held(d)'
    BY <1>0, <2>2 DEF Held
  <2>4. ChannelOf(d)'
    BY <1>0, <2>1, <2>2, <2>3, SameChannel
  <2>5. WriterOf(d)'
    BY <1>0, <2>1, <2>2 DEF WriterOf, Ending, Msg
  <2> QED
    BY <2>4, <2>5
<1> QED
  BY <1>14, <1>15 DEF Content, Kept

LEMMA ContentInvariance == Spec => [](Inv /\ Content)
<1>1. Init => Inv /\ Content
  BY InitInv, InitContent
<1>2. Inv /\ Content /\ [Next]_vars => (Inv /\ Content)'
  <2>1. ASSUME Inv, Content, NEW b \in Backups, Step(b)  PROVE Content'
    BY <2>1, StepContent
  <2>2. ASSUME Content, UNCHANGED vars  PROVE Content'
    <3>1. /\ index' = index /\ Accepted' = Accepted /\ Settled' = Settled /\ writer' = writer
          /\ \A b \in Backups : hashes'[b] = hashes[b]
      BY <2>2 DEF vars, store_vars, main_vars, writer_vars, Accepted, Settled, Unwritten
    <3>2. \A b \in Backups : /\ Ahead(b)' = Ahead(b) /\ Held(b)' = Held(b)
                            /\ WriterOf(b)' = WriterOf(b)
      BY <2>2, <3>1 DEF vars, main_vars, writer_vars, Ahead, Held, WriterOf, Ending, Msg
    <3>3. \A b \in Backups : ChannelOf(b) => ChannelOf(b)'
      BY <3>1, <3>2, SameChannel
    <3> QED
      BY <2>2, <3>1, <3>2, <3>3 DEF Content
  <2> QED
    BY <2>1, <2>2, StepInv DEF Next, Step
<1> QED
  BY <1>1, <1>2, PTL DEF Spec

(* A store that does not fail loses nothing.                               *)
LEMMA NothingLost ==
    ASSUME ~StoreCanFail
    PROVE  Spec => [](lost = {})
<1>1. Init => lost = {}
  BY DEF Init
<1>2. lost = {} /\ [Next]_vars => (lost = {})'
  BY DEF Next, vars, Begin, MainStep, NextChunk, Send, ReadFails, EndOfFile, Join, WriterStep,
         Receive, Encode, Put, Insert, Finish, Flush, Write, StoreFails, Forget, store_vars
<1> QED
  BY <1>1, <1>2, PTL DEF Spec

-----------------------------------------------------------------------------
(* The theorems.                                                           *)

LEMMA Invariance == Spec => []Inv
  BY InitInv, StepInv, PTL DEF Spec

(* The state of all calls stays in its domains; the channel never holds    *)
(* more than its capacity (the bound of pipeline/mod.rs:105), and a call   *)
(* has hashed a beginning of its file.                                     *)
THEOREM TypeCorrect == Spec => []TypeOK
<1>1. ASSUME Inv PROVE TypeOK
  <2>1. ASSUME NEW b \in Backups PROVE IsPrefix(hashes[b], file[b])
    <3>1. /\ hashes[b] \in Seq(Chunk) /\ file[b] \in Seq(Chunk)
          /\ Len(hashes[b]) \in Nat /\ Len(file[b]) \in Nat
          /\ Len(hashes[b]) <= Len(file[b])
          /\ \A i \in 1 .. Len(hashes[b]) : hashes[b][i] = file[b][i]
      BY <1>1, FileIs DEF Inv, TypeInv, Progress, ProgressOf
    <3>2. ASSUME NEW q \in Seq(Chunk), Len(hashes[b]) <= Len(q)
          PROVE  /\ SubSeq(q, 1, Len(hashes[b])) \in Seq(Chunk)
                 /\ Len(SubSeq(q, 1, Len(hashes[b]))) = Len(hashes[b])
                 /\ \A i \in 1 .. Len(hashes[b]) : SubSeq(q, 1, Len(hashes[b]))[i] = q[i]
      <4>1. /\ 1 \in Int /\ Len(hashes[b]) \in Int
            /\ \A i \in 1 .. Len(hashes[b]) : q[i] \in Chunk
        BY <3>1, <3>2, Lens
      <4>2. /\ SubSeq(q, 1, Len(hashes[b])) \in Seq(Chunk)
            /\ Len(SubSeq(q, 1, Len(hashes[b])))
                  = IF 1 <= Len(hashes[b]) THEN Len(hashes[b]) - 1 + 1 ELSE 0
            /\ \A i \in 1 .. Len(hashes[b]) - 1 + 1 :
                  SubSeq(q, 1, Len(hashes[b]))[i] = q[1 + i - 1]
        BY <4>1, S!SubSeqProperties
      <4> QED
        BY <3>1, <4>2
    <3>3. SubSeq(hashes[b], 1, Len(hashes[b])) = SubSeq(file[b], 1, Len(hashes[b]))
      <4> DEFINE x == SubSeq(hashes[b], 1, Len(hashes[b]))
                 y == SubSeq(file[b], 1, Len(hashes[b]))
      <4>1. x \in Seq(Chunk) /\ y \in Seq(Chunk) /\ Len(x) = Len(y) /\ Len(x) = Len(hashes[b])
        BY <3>1, <3>2
      <4>2. \A i \in 1 .. Len(hashes[b]) : x[i] = y[i]
        BY <3>1, <3>2
      <4> HIDE DEF x, y
      <4>3. x = y
        BY <4>1, <4>2, S!SeqEqual
      <4> QED
        BY <4>3 DEF x, y
    <3> QED
      BY <3>1, <3>3 DEF IsPrefix
  <2> QED
    BY <1>1, <2>1 DEF Inv, TypeInv, TypeOK, Accepted, Settled, Unwritten
<1> QED
  BY <1>1, Invariance, PTL

(* The statistics of a call that returns Ok account for every chunk once,  *)
(* whatever fails in other calls (BackupStats of pipeline/mod.rs).         *)
THEOREM CountsAddUpHolds == Spec => []CountsAddUp
<1>1. ASSUME Inv PROVE CountsAddUp
  <2> SUFFICES ASSUME NEW b \in Backups, main[b] = "ok"
               PROVE  /\ hashes[b] = file[b]
                      /\ counts[b].dedup + counts[b].stored = Len(hashes[b])
                      /\ counts[b].deltas + counts[b].fallbacks = near[b]
    BY DEF CountsAddUp
  <2>1. /\ writer[b] = "ok" /\ queue[b] = <<>> /\ toSend[b] = <<>> /\ handling[b] = <<>>
    BY <1>1 DEF Inv, Shape, Ending, TypeInv
  <2>2. Ahead(b) = <<>> /\ Len(<<>>) = 0 /\ Cardinality(NearIn(<<>>)) = 0
    BY <2>1, Joined, Empty, NearFinite DEF Ahead
  <2>3. /\ counts[b].dedup \in Nat /\ counts[b].stored \in Nat
        /\ counts[b].deltas \in Nat /\ counts[b].fallbacks \in Nat
    BY <1>1 DEF Inv, TypeInv, Count
  <2>4. /\ counts[b].dedup + counts[b].stored + 0 + 0 = Len(hashes[b])
        /\ counts[b].deltas + counts[b].fallbacks + 0 + 0 = near[b]
    BY <1>1, <2>1, <2>2 DEF Inv, Accounts, AccountsOf
  <2>5. hashes[b] = file[b]
    BY <1>1, FileIs, S!SeqEqual DEF Inv, TypeInv, Progress, ProgressOf
  <2> QED
    BY <2>3, <2>4, <2>5
<1> QED
  BY <1>1, Invariance, PTL

LEMMA OkIs ==
    ASSUME Inv, Content, NEW b \in Backups, main[b] = "ok"
    PROVE  ToSet(file[b]) \subseteq durable \cup lost \cup Others(b)
<1>1. writer[b] = "ok" /\ Ending(b) /\ batch[b] = {}
  BY DEF Inv, Shape, Ending
<1>2. hashes[b] = file[b]
  BY FileIs, S!SeqEqual DEF Inv, TypeInv, Progress, ProgressOf
<1>3. ToSet(file[b]) \subseteq Settled
  BY <1>1, <1>2 DEF Content, WriterOf
<1> QED
  BY <1>1, <1>3 DEF Settled, Unwritten, Others

(* Ok of backup_file means that no chunk of the file waits in the buffer,  *)
(* whatever other calls do and whatever fails: each is durable, being      *)
(* written by another call, or was lost with a batch that could not be     *)
(* written (the flush of pipeline/mod.rs:195).                             *)
THEOREM OkIsWrittenHolds == Spec => []OkIsWritten
<1>1. ASSUME Inv, Content PROVE OkIsWritten
  BY <1>1, OkIs DEF OkIsWritten, Others
<1> QED
  BY <1>1, ContentInvariance, PTL

(* If calls do not overlap and the store does not fail, Ok means that all  *)
(* chunks of the file are durable.                                         *)
THEOREM OkIsDurableHolds ==
    ASSUME ~StoreCanFail, \A b, d \in Backups : b = d
    PROVE  Spec => []OkIsDurable
<1>1. ASSUME Inv, Content, lost = {} PROVE OkIsDurable
  <2> SUFFICES ASSUME NEW b \in Backups, main[b] = "ok"
               PROVE  ToSet(file[b]) \subseteq durable
    BY DEF OkIsDurable
  <2>1. Others(b) = {}
    BY DEF Others
  <2> QED
    BY <1>1, <2>1, OkIs
<1> QED
  BY <1>1, ContentInvariance, NothingLost, PTL

(* Whatever fails, the base of a delta reached the store before the writer *)
(* asks for it, and the dedup index knows nothing the store was not given. *)
THEOREM BaseFirstHolds == Spec => [](BaseFirst /\ IndexedIsAccepted)
<1>1. ASSUME Inv, Content PROVE BaseFirst /\ IndexedIsAccepted
  <2>1. \A b \in Backups : writer[b] = "encode" => writer[b] # "err"
    OBVIOUS
  <2> QED
    BY <1>1, <2>1 DEF Content, WriterOf, BaseFirst, IndexedIsAccepted
<1> QED
  BY <1>1, ContentInvariance, PTL

=============================================================================
