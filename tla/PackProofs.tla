--------------------------- MODULE PackProofs -----------------------------
(* Proofs about packs: about PackCache, for every number of threads and     *)
(* packs and every capacity, and, in the second half, about PackFormat, for *)
(* every number of entries and every length of a chunk, a delta, a frame    *)
(* and a footer.  The two have no state in common.                          *)
EXTENDS PackCache, PackFormat, FiniteSetTheorems, WellFoundedInduction, TLAPS

S == INSTANCE SequenceTheorems

-----------------------------------------------------------------------------
(* The packs whose file a call is about to create.                          *)
Creating == {pack[t] : t \in {u \in Thread : pc[u] = "create"}}

(* A file that is open for writing has not been removed.                    *)
WritersHaveFile == \A p \in Pack : writers[p] # {} => file[p] # "none"

Alone(t) == \A u \in Thread \ {t} : pc[u] = "idle"

(* As long as calls never overlapped, one thread at most is in a call, what *)
(* it has looked at is as it was, every entry has its file or the call is   *)
(* about to create it, and files and entries together are no more than the  *)
(* entries and the packs that came past the LruCache.                       *)
SoloInv ==
    ~overlapped =>
        /\ \A t \in Thread : pc[t] # "idle" => Alone(t)
        /\ \A t \in Thread : pc[t] = "touch" => file[pack[t]] # "none"
        /\ \A t \in Thread : pc[t] = "upload" => pack[t] \notin bucket
        /\ Cached \subseteq Files \cup failed \cup Creating
        /\ Cardinality(Files \cup Cached \cup Creating) <= Len(lru) + Cardinality(extra)

CacheInv == TypeOK /\ WritersHaveFile /\ PartIsBeingWritten

-----------------------------------------------------------------------------
(* Lemmas about sequences and the LruCache.                                 *)

LEMMA RemoveAtEntries ==
    ASSUME NEW P, NEW s \in Seq(P), NEW i \in 1 .. Len(s)
    PROVE  /\ RemoveAt(s, i) \in Seq(P)
           /\ Len(RemoveAt(s, i)) = Len(s) - 1
           /\ \A k \in 1 .. (Len(s) - 1) :
                 RemoveAt(s, i)[k] = IF k < i THEN s[k] ELSE s[k + 1]
<1> DEFINE n == Len(s)
           a == SubSeq(s, 1, i - 1)
           b == SubSeq(s, i + 1, n)
<1>1. n \in Nat /\ i \in 1 .. n
  BY S!LenProperties
<1>2. \A k \in 1 .. n : s[k] \in P
  BY S!ElementOfSeq
<1> HIDE DEF n
<1>3. \A k \in 1 .. (i - 1) : s[k] \in P
  BY <1>1, <1>2
<1>4. \A k \in (i + 1) .. n : s[k] \in P
  BY <1>1, <1>2
<1>5. a \in Seq(P) /\ Len(a) = (IF 1 <= i - 1 THEN (i - 1) - 1 + 1 ELSE 0)
      /\ \A k \in 1 .. ((i - 1) - 1 + 1) : a[k] = s[1 + k - 1]
  <2>1. 1 \in Int /\ i - 1 \in Int
    BY <1>1
  <2>2. QED
    BY ONLY <1>3, <2>1, S!SubSeqProperties
<1>6. b \in Seq(P) /\ Len(b) = (IF i + 1 <= n THEN n - (i + 1) + 1 ELSE 0)
      /\ \A k \in 1 .. (n - (i + 1) + 1) : b[k] = s[(i + 1) + k - 1]
  <2>1. i + 1 \in Int /\ n \in Int
    BY <1>1
  <2>2. QED
    BY ONLY <1>4, <2>1, S!SubSeqProperties
<1> HIDE DEF a, b
<1>7. Len(a) = i - 1 /\ Len(b) = n - i
  BY <1>1, <1>5, <1>6
<1>8. \A k \in 1 .. (i - 1) : a[k] = s[k]
  BY <1>1, <1>5
<1>9. \A k \in 1 .. (n - i) : b[k] = s[i + k]
  BY <1>1, <1>6
<1>10. a \o b \in Seq(P) /\ Len(a \o b) = Len(a) + Len(b)
       /\ \A k \in 1 .. (Len(a) + Len(b)) :
             (a \o b)[k] = IF k <= Len(a) THEN a[k] ELSE b[k - Len(a)]
  BY <1>5, <1>6, S!ConcatProperties
<1>11. RemoveAt(s, i) = a \o b
  BY DEF RemoveAt, a, b, n
<1> DEFINE r == a \o b
<1>12. r \in Seq(P) /\ Len(r) = n - 1
  BY <1>1, <1>7, <1>10
<1>13. ASSUME NEW k \in 1 .. (n - 1)
       PROVE  r[k] = IF k < i THEN s[k] ELSE s[k + 1]
  <2>1. r[k] = IF k <= i - 1 THEN a[k] ELSE b[k - (i - 1)]
    BY <1>1, <1>7, <1>10, <1>13
  <2> HIDE DEF r
  <2>2. CASE k < i
    BY <1>1, <1>8, <1>13, <2>1, <2>2
  <2>3. CASE ~(k < i)
    <3>1. k - (i - 1) \in 1 .. (n - i) /\ i + (k - (i - 1)) = k + 1 /\ ~(k <= i - 1)
      BY <1>1, <1>13, <2>3
    <3>2. QED
      BY <1>9, <2>1, <2>3, <3>1
  <2>4. QED
    BY <2>2, <2>3
<1>14. QED
  BY <1>11, <1>12, <1>13 DEF n


NoRepeats(s) == \A i, j \in 1 .. Len(s) : s[i] = s[j] => i = j

LEMMA SetOf ==
    ASSUME NEW P, NEW s \in Seq(P)
    PROVE  ToSet(s) = {s[i] : i \in 1 .. Len(s)}
BY S!LenProperties DEF ToSet

(* A new entry at the end of a sequence that does not have it.              *)
LEMMA AppendNew ==
    ASSUME NEW P, NEW s \in Seq(P), NEW e \in P, NoRepeats(s), e \notin ToSet(s)
    PROVE  /\ Append(s, e) \in Seq(P) /\ Len(Append(s, e)) = Len(s) + 1
           /\ NoRepeats(Append(s, e))
           /\ ToSet(Append(s, e)) = ToSet(s) \cup {e}
<1> DEFINE n == Len(s)
           r == Append(s, e)
<1>1. n \in Nat
  BY S!LenProperties
<1>2. r \in Seq(P) /\ Len(r) = n + 1 /\ r[n + 1] = e /\ \A i \in 1 .. n : r[i] = s[i]
  BY S!AppendProperties
<1>3. ToSet(s) = {s[i] : i \in 1 .. n} /\ ToSet(r) = {r[i] : i \in 1 .. Len(r)}
  BY <1>2, SetOf
<1>4. \A i, j \in 1 .. n : s[i] = s[j] => i = j
  BY DEF NoRepeats
<1> HIDE DEF n, r
<1>5. \A i \in 1 .. (n + 1) : i \in 1 .. n \/ i = n + 1
  BY <1>1
<1>6. NoRepeats(r)
  <2>1. \A i \in 1 .. n : r[i] # r[n + 1]
    BY <1>2, <1>3
  <2>2. \A i, j \in 1 .. (n + 1) : r[i] = r[j] => i = j
    BY <1>2, <1>4, <1>5, <2>1
  <2>3. QED
    BY <1>2, <2>2 DEF NoRepeats
<1>7. ToSet(r) = ToSet(s) \cup {e}
  <2>1. \A x : x \in ToSet(r) <=> \E i \in 1 .. (n + 1) : x = r[i]
    BY <1>2, <1>3
  <2>2. \A x : x \in ToSet(s) <=> \E i \in 1 .. n : x = s[i]
    BY <1>3
  <2>3. n + 1 \in 1 .. (n + 1) /\ \A i \in 1 .. n : i \in 1 .. (n + 1)
    BY <1>1
  <2>4. QED
    BY <1>2, <1>5, <2>1, <2>2, <2>3
<1>8. QED
  BY <1>2, <1>6, <1>7 DEF n, r

(* A sequence without its first entry.                                      *)
LEMMA TailEntries ==
    ASSUME NEW P, NEW s \in Seq(P), s # <<>>, NoRepeats(s)
    PROVE  /\ Tail(s) \in Seq(P) /\ Len(Tail(s)) = Len(s) - 1 /\ NoRepeats(Tail(s))
           /\ ToSet(Tail(s)) = ToSet(s) \ {Head(s)}
           /\ Head(s) \in ToSet(s)
<1> DEFINE n == Len(s)
           r == Tail(s)
<1>0. n \in Nat \ {0}
  BY S!EmptySeq
<1>1. n \in Nat \ {0} /\ Head(s) = s[1]
  <2>1. Head(s) = s[1]
    OBVIOUS
  <2>2. QED
    BY <1>0, <2>1
<1>2. r \in Seq(P) /\ Len(r) = n - 1 /\ \A i \in 1 .. Len(r) : r[i] = s[i + 1]
  BY S!HeadTailProperties
<1>3. ToSet(s) = {s[i] : i \in 1 .. n} /\ ToSet(r) = {r[i] : i \in 1 .. Len(r)}
  BY <1>2, SetOf
<1>4. \A i, j \in 1 .. n : s[i] = s[j] => i = j
  BY DEF NoRepeats
<1> HIDE DEF n, r
<1>5. \A i \in 1 .. (n - 1) : r[i] = s[i + 1] /\ i + 1 \in 1 .. n /\ i + 1 # 1
  BY <1>1, <1>2
<1>6. NoRepeats(r)
  <2>1. ASSUME NEW i \in 1 .. (n - 1), NEW j \in 1 .. (n - 1), r[i] = r[j]
        PROVE  i = j
    <3>1. i + 1 = j + 1
      BY <1>4, <1>5, <2>1
    <3>2. QED
      BY <1>1, <3>1
  <2>2. QED
    BY <1>2, <2>1 DEF NoRepeats
<1>7. ToSet(r) = ToSet(s) \ {Head(s)}
  <2>1. \A x : x \in ToSet(r) <=> \E i \in 1 .. (n - 1) : x = r[i]
    BY <1>2, <1>3
  <2>2. \A x : x \in ToSet(s) <=> \E i \in 1 .. n : x = s[i]
    BY <1>3
  <2>3. 1 \in 1 .. n /\ \A i \in 1 .. n : i # 1 => i - 1 \in 1 .. (n - 1) /\ (i - 1) + 1 = i
    BY <1>1
  <2>4. ASSUME NEW x \in ToSet(r)
        PROVE  x \in ToSet(s) \ {Head(s)}
    BY <1>1, <1>4, <1>5, <2>1, <2>2, <2>3, <2>4
  <2>5. ASSUME NEW x \in ToSet(s) \ {Head(s)}
        PROVE  x \in ToSet(r)
    <3>1. PICK i \in 1 .. n : x = s[i]
      BY <2>2, <2>5
    <3>2. i # 1
      BY <1>1, <2>5, <3>1
    <3>3. x = r[i - 1]
      BY <1>5, <2>3, <3>1, <3>2
    <3>4. QED
      BY <2>1, <2>3, <3>2, <3>3
  <2>6. QED
    BY <2>4, <2>5
<1>8. Head(s) \in ToSet(s)
  BY <1>1, <1>3
<1>9. QED
  BY <1>2, <1>6, <1>7, <1>8 DEF n, r

(* A sequence without one of its entries.                                   *)
LEMMA RemovedEntry ==
    ASSUME NEW P, NEW s \in Seq(P), NEW k \in 1 .. Len(s), NoRepeats(s)
    PROVE  /\ RemoveAt(s, k) \in Seq(P) /\ Len(RemoveAt(s, k)) = Len(s) - 1
           /\ NoRepeats(RemoveAt(s, k))
           /\ ToSet(RemoveAt(s, k)) = ToSet(s) \ {s[k]}
<1> DEFINE n == Len(s)
           r == RemoveAt(s, k)
<1>1. n \in Nat /\ k \in 1 .. n
  BY S!LenProperties
<1>2. r \in Seq(P) /\ Len(r) = n - 1
      /\ \A i \in 1 .. (n - 1) : r[i] = IF i < k THEN s[i] ELSE s[i + 1]
  BY RemoveAtEntries
<1>3. ToSet(s) = {s[i] : i \in 1 .. n} /\ ToSet(r) = {r[i] : i \in 1 .. Len(r)}
  BY <1>2, SetOf
<1>4. \A i, j \in 1 .. n : s[i] = s[j] => i = j
  BY DEF NoRepeats
<1> HIDE DEF n, r
<1> DEFINE from(i) == IF i < k THEN i ELSE i + 1
<1>5. \A i \in 1 .. (n - 1) : from(i) \in 1 .. n /\ from(i) # k
  BY <1>1
<1>6. \A i, j \in 1 .. (n - 1) : from(i) = from(j) => i = j
  BY <1>1
<1>7. \A i \in 1 .. n : i # k => \E j \in 1 .. (n - 1) : from(j) = i
  <2> SUFFICES ASSUME NEW i \in 1 .. n, i # k
               PROVE  \E j \in 1 .. (n - 1) : from(j) = i
    OBVIOUS
  <2>1. CASE i < k
    <3>1. i \in 1 .. (n - 1) /\ from(i) = i
      BY <1>1, <2>1
    <3>2. QED
      BY <3>1
  <2>2. CASE ~(i < k)
    <3>1. i - 1 \in 1 .. (n - 1) /\ ~(i - 1 < k) /\ (i - 1) + 1 = i
      BY <1>1, <2>2
    <3>2. QED
      BY <3>1
  <2>3. QED
    BY <2>1, <2>2
<1>8. \A i \in 1 .. (n - 1) : r[i] = s[from(i)]
  BY <1>2
<1> HIDE DEF from
<1>9. NoRepeats(r)
  <2>1. ASSUME NEW i \in 1 .. (n - 1), NEW j \in 1 .. (n - 1), r[i] = r[j]
        PROVE  i = j
    <3>1. from(i) = from(j)
      BY <1>4, <1>5, <1>8, <2>1
    <3>2. QED
      BY <1>6, <3>1
  <2>2. QED
    BY <1>2, <2>1 DEF NoRepeats
<1>10. ToSet(r) = ToSet(s) \ {s[k]}
  <2>1. \A x : x \in ToSet(r) <=> \E i \in 1 .. (n - 1) : x = r[i]
    BY <1>2, <1>3
  <2>2. \A x : x \in ToSet(s) <=> \E i \in 1 .. n : x = s[i]
    BY <1>3
  <2>3. ASSUME NEW x \in ToSet(r)
        PROVE  x \in ToSet(s) \ {s[k]}
    <3>1. PICK i \in 1 .. (n - 1) : x = s[from(i)]
      BY <1>8, <2>1, <2>3
    <3>2. s[from(i)] # s[k]
      BY <1>1, <1>4, <1>5
    <3>3. QED
      BY <1>5, <2>2, <3>1, <3>2
  <2>4. ASSUME NEW x \in ToSet(s) \ {s[k]}
        PROVE  x \in ToSet(r)
    <3>1. PICK i \in 1 .. n : x = s[i]
      BY <2>2, <2>4
    <3>2. PICK j \in 1 .. (n - 1) : from(j) = i
      BY <1>7, <2>4, <3>1
    <3>3. QED
      BY <1>8, <2>1, <3>1, <3>2
  <2>5. QED
    BY <2>3, <2>4
<1>11. QED
  BY <1>2, <1>9, <1>10 DEF n, r

(* What the LruCache holds after an entry was used.                         *)
LEMMA RecentFacts ==
    ASSUME TypeOK, NEW p \in Pack
    PROVE  /\ Recent(p) \in Seq(Pack) /\ Len(Recent(p)) <= Capacity
           /\ NoRepeats(Recent(p))
           /\ p \in Cached =>
                 /\ Len(Recent(p)) = Len(lru) /\ ToSet(Recent(p)) = Cached
                 /\ Dropped(p) = {p}
           /\ p \notin Cached /\ Len(lru) < Capacity =>
                 /\ Len(Recent(p)) = Len(lru) + 1 /\ ToSet(Recent(p)) = Cached \cup {p}
                 /\ Dropped(p) = {}
           /\ p \notin Cached /\ ~(Len(lru) < Capacity) =>
                 /\ Len(Recent(p)) = Len(lru) /\ Head(lru) \in Cached
                 /\ ToSet(Recent(p)) = (Cached \ {Head(lru)}) \cup {p}
                 /\ Dropped(p) = {Head(lru)}
<1> DEFINE n == Len(lru)
<1>1. lru \in Seq(Pack) /\ n \in Nat /\ NoRepeats(lru) /\ n <= Capacity
      /\ Capacity \in Nat \ {0}
  BY CacheAssumption, S!LenProperties DEF TypeOK, NoRepeats
<1>2. Cached = {lru[i] : i \in 1 .. n}
  BY <1>1, SetOf DEF Cached
<1>3. Contains(lru, p) <=> p \in Cached
  BY <1>2 DEF Contains
<1>4. CASE p \in Cached
  <2> DEFINE i == CHOOSE j \in 1 .. n : lru[j] = p
             rest == RemoveAt(lru, i)
  <2>1. i \in 1 .. n /\ lru[i] = p
    BY <1>2, <1>4
  <2>2. /\ rest \in Seq(Pack) /\ Len(rest) = n - 1 /\ NoRepeats(rest)
        /\ ToSet(rest) = Cached \ {p}
    <3> HIDE DEF i
    <3>1. QED
      BY <1>1, <2>1, RemovedEntry DEF Cached
  <2>3. Recent(p) = Append(rest, p)
    <3>1. Recent(p) = Append(IF Len(rest) = Capacity THEN Tail(rest) ELSE rest, p)
      BY <1>3, <1>4 DEF Recent
    <3>2. Len(rest) # Capacity
      <4> HIDE DEF rest, n
      <4>1. QED
        BY <1>1, <2>2
    <3>3. QED
      BY <3>1, <3>2
  <2>4. Dropped(p) = {p}
    BY <1>3, <1>4 DEF Dropped
  <2> HIDE DEF rest, i
  <2>5. /\ Append(rest, p) \in Seq(Pack) /\ Len(Append(rest, p)) = Len(rest) + 1
        /\ NoRepeats(Append(rest, p)) /\ ToSet(Append(rest, p)) = ToSet(rest) \cup {p}
    BY <2>2, AppendNew
  <2> HIDE DEF n
  <2>6. Len(rest) + 1 = n
    BY <1>1, <2>2
  <2>7. QED
    BY <1>1, <1>4, <2>2, <2>3, <2>4, <2>5, <2>6 DEF n
<1>5. CASE p \notin Cached /\ n < Capacity
  <2>1. Recent(p) = Append(lru, p)
    BY <1>1, <1>3, <1>5 DEF Recent
  <2>2. Dropped(p) = {}
    BY <1>1, <1>3, <1>5 DEF Dropped
  <2>3. /\ Append(lru, p) \in Seq(Pack) /\ Len(Append(lru, p)) = n + 1
        /\ NoRepeats(Append(lru, p)) /\ ToSet(Append(lru, p)) = Cached \cup {p}
    BY <1>1, <1>5, AppendNew DEF Cached
  <2> HIDE DEF n
  <2>4. n + 1 <= Capacity
    BY <1>1, <1>5
  <2>5. QED
    BY <1>5, <2>1, <2>2, <2>3, <2>4 DEF n
<1>6. CASE p \notin Cached /\ ~(n < Capacity)
  <2>1. n = Capacity /\ lru # <<>>
    <3>1. Len(<<>>) = 0
      BY S!EmptySeq
    <3> HIDE DEF n
    <3>2. n = Capacity /\ n # 0
      BY <1>1, <1>6
    <3>3. QED
      BY <3>1, <3>2 DEF n
  <2>2. Recent(p) = Append(Tail(lru), p) /\ Dropped(p) = {Head(lru)}
    BY <1>3, <1>6, <2>1 DEF Recent, Dropped
  <2> DEFINE rest == Tail(lru)
  <2>3. /\ rest \in Seq(Pack) /\ Len(rest) = n - 1 /\ NoRepeats(rest)
        /\ ToSet(rest) = Cached \ {Head(lru)} /\ Head(lru) \in Cached
    BY <1>1, <2>1, TailEntries DEF Cached
  <2> HIDE DEF rest
  <2>4. /\ Append(rest, p) \in Seq(Pack) /\ Len(Append(rest, p)) = Len(rest) + 1
        /\ NoRepeats(Append(rest, p)) /\ ToSet(Append(rest, p)) = ToSet(rest) \cup {p}
    BY <1>6, <2>3, AppendNew
  <2> HIDE DEF n
  <2>5. Len(rest) + 1 = n
    BY <1>1, <2>3
  <2>6. QED
    BY <1>1, <1>6, <2>1, <2>2, <2>3, <2>4, <2>5 DEF n, rest
<1>7. QED
  BY <1>4, <1>5, <1>6 DEF n


-----------------------------------------------------------------------------
(* Types, and files that are not whole.                                     *)

Steps == {"idle", "look", "touch", "download", "push", "create", "fill", "upload"}

LEMMA GoesFacts ==
    ASSUME TypeOK, NEW t \in Thread, NEW step \in Steps, pc[t] # "idle", Goes(t, step)
    PROVE  /\ pc' \in [Thread -> Steps] /\ pack' \in [Thread -> Pack \cup {NoPack}]
           /\ \A u \in Thread : pc'[u] # "idle" => pack'[u] \in Pack
           /\ pc'[t] = step /\ (step # "idle" => pack'[t] = pack[t])
           /\ \A u \in Thread \ {t} : pc'[u] = pc[u] /\ pack'[u] = pack[u]
           /\ pack[t] \in Pack
BY DEF TypeOK, Goes, Steps

LEMMA BeginFacts ==
    ASSUME TypeOK, NEW t \in Thread, NEW p \in Pack, NEW step \in Steps, Begin(t, p, step)
    PROVE  /\ pc' \in [Thread -> Steps] /\ pack' \in [Thread -> Pack \cup {NoPack}]
           /\ \A u \in Thread : pc'[u] # "idle" => pack'[u] \in Pack
           /\ pc'[t] = step /\ pack'[t] = p /\ pc[t] = "idle"
           /\ \A u \in Thread \ {t} : pc'[u] = pc[u] /\ pack'[u] = pack[u]
           /\ overlapped' \in BOOLEAN
           /\ ~overlapped' => ~overlapped /\ \A u \in Thread \ {t} : pc[u] = "idle"
BY DEF TypeOK, Begin, Steps

LEMMA InitCache == Init => CacheInv
<1> SUFFICES ASSUME Init PROVE CacheInv
  OBVIOUS
<1>1. lru \in Seq(Pack) /\ Len(lru) = 0
  BY S!EmptySeq DEF Init
<1>2. Len(lru) <= Capacity /\ \A i, j \in 1 .. Len(lru) : lru[i] = lru[j] => i = j
  <2>1. Capacity \in Nat
    BY CacheAssumption
  <2> DEFINE n == Len(lru)
  <2>2. n = 0
    BY <1>1
  <2> HIDE DEF n
  <2>3. n <= Capacity /\ \A i, j \in 1 .. n : lru[i] = lru[j] => i = j
    BY <2>1, <2>2
  <2>4. QED
    BY <2>3 DEF n
<1>3. QED
  BY <1>1, <1>2 DEF Init, CacheInv, TypeOK, WritersHaveFile, PartIsBeingWritten

(* The order of the LruCache apart, which the steps that leave it alone     *)
(* keep.                                                                    *)
LruOK == lru \in Seq(Pack) /\ Len(lru) <= Capacity /\ NoRepeats(lru)

RestOK ==
    /\ bucket \subseteq Pack /\ extra \subseteq bucket
    /\ failed \subseteq Pack
    /\ file \in [Pack -> {"none", "part", "whole"}]
    /\ writers \in [Pack -> SUBSET Thread]
    /\ pc \in [Thread -> Steps]
    /\ pack \in [Thread -> Pack \cup {NoPack}]
    /\ \A t \in Thread : pc[t] # "idle" => pack[t] \in Pack
    /\ overlapped \in BOOLEAN

LEMMA TypeParts ==
    /\ TypeOK <=> LruOK /\ RestOK
    /\ TypeOK' <=> LruOK' /\ RestOK'
BY DEF TypeOK, LruOK, RestOK, NoRepeats, Steps


LEMMA StepCache ==
    ASSUME CacheInv, [Next]_vars
    PROVE  CacheInv'
<1> DEFINE Goal == RestOK' /\ WritersHaveFile' /\ PartIsBeingWritten'
<1>0. TypeOK /\ LruOK /\ RestOK
  BY TypeParts DEF CacheInv
<1>1. ASSUME LruOK', Goal
      PROVE  CacheInv'
  BY <1>1, TypeParts DEF CacheInv
<1>2. ASSUME NEW t \in Thread, NEW step \in Steps, pc[t] # "idle", Goes(t, step),
             UNCHANGED <<file, writers, overlapped>>, failed' = failed,
             bucket' \subseteq Pack, extra' \subseteq bucket'
      PROVE  Goal
  BY <1>0, <1>2, GoesFacts
     DEF RestOK, CacheInv, WritersHaveFile, PartIsBeingWritten
<1>3. ASSUME NEW t \in Thread, NEW p \in Pack, Read(t, p) \/ Flush(t, p)
      PROVE  CacheInv'
  <2>1. PICK step \in Steps : Begin(t, p, step)
    BY <1>3 DEF Read, Flush, Steps
  <2>2. Goal
    BY <1>0, <1>3, <2>1, BeginFacts
       DEF Read, Flush, RestOK, CacheInv, WritersHaveFile, PartIsBeingWritten
  <2>3. LruOK'
    BY <1>0, <1>3 DEF Read, Flush, LruOK, NoRepeats
  <2>4. QED
    BY <1>1, <2>2, <2>3
<1>4. ASSUME NEW t \in Thread, Look(t) \/ Download(t)
      PROVE  CacheInv'
  <2>1. LruOK'
    BY <1>0, <1>4 DEF Look, Download, LruOK, NoRepeats
  <2>2. CASE Look(t)
    <3>1. PICK step \in Steps : Goes(t, step)
      BY <2>2 DEF Look, Steps
    <3>2. QED
      BY <1>0, <1>1, <1>2, <2>1, <2>2, <3>1 DEF Look, RestOK
  <2>3. CASE Download(t)
    <3>1. PICK step \in Steps : Goes(t, step)
      BY <2>3 DEF Download, Steps
    <3>2. QED
      BY <1>0, <1>1, <1>2, <2>1, <2>3, <3>1 DEF Download, RestOK
  <2>4. QED
    BY <1>4, <2>2, <2>3
<1>5. ASSUME NEW t \in Thread, pack[t] \in Pack, lru' = Recent(pack[t])
      PROVE  LruOK'
  BY <1>0, <1>5, RecentFacts DEF LruOK, NoRepeats
<1>6. ASSUME NEW t \in Thread, Touch(t)
      PROVE  CacheInv'
  <2>1. Goes(t, "idle") /\ "idle" \in Steps /\ pc[t] # "idle"
    BY <1>6 DEF Touch, Steps
  <2>2. LruOK'
    BY <1>0, <1>5, <1>6, <2>1, GoesFacts DEF Touch
  <2>3. QED
    BY <1>0, <1>1, <1>2, <1>6, <2>1, <2>2 DEF Touch, RestOK
<1>7. ASSUME NEW t \in Thread, Push(t)
      PROVE  CacheInv'
  <2>1. Goes(t, "create") /\ "create" \in Steps /\ pc[t] # "idle"
    BY <1>7 DEF Push, Steps
  <2>2. LruOK'
    BY <1>0, <1>5, <1>7, <2>1, GoesFacts DEF Push
  <2> DEFINE gone == Dropped(pack[t])
  <2>3. /\ file' = [p \in Pack |-> IF p \in gone THEN "none" ELSE file[p]]
        /\ writers' = [p \in Pack |-> IF p \in gone THEN {} ELSE writers[p]]
        /\ UNCHANGED <<bucket, extra, failed, overlapped>>
    BY <1>7 DEF Push, RemoveFiles
  <2> HIDE DEF gone
  <2>4. RestOK'
    BY <1>0, <2>1, <2>3, GoesFacts DEF RestOK
  <2>5. WritersHaveFile' /\ PartIsBeingWritten'
    BY <2>3 DEF CacheInv, WritersHaveFile, PartIsBeingWritten
  <2>6. QED
    BY <1>1, <2>2, <2>4, <2>5
<1>8. ASSUME NEW t \in Thread, Create(t)
      PROVE  CacheInv'
  <2>1. Goes(t, "fill") /\ "fill" \in Steps /\ pc[t] # "idle"
    BY <1>8 DEF Create, Steps
  <2>2. LruOK'
    BY <1>0, <1>8 DEF Create, LruOK, NoRepeats
  <2>3. pack[t] \in Pack
    BY <1>0, <2>1 DEF RestOK
  <2>4. RestOK'
    BY <1>0, <1>8, <2>1, <2>3, GoesFacts DEF Create, RestOK
  <2>5. WritersHaveFile' /\ PartIsBeingWritten'
    BY <1>0, <1>8, <2>3
       DEF Create, CacheInv, WritersHaveFile, PartIsBeingWritten, RestOK
  <2>6. QED
    BY <1>1, <2>2, <2>4, <2>5
<1>9. ASSUME NEW t \in Thread, Fill(t)
      PROVE  CacheInv'
  <2> DEFINE q == pack[t]
  <2>1. Goes(t, "idle") /\ "idle" \in Steps /\ pc[t] # "idle"
    BY <1>9 DEF Fill, Steps
  <2>2. LruOK'
    BY <1>0, <1>9 DEF Fill, LruOK, NoRepeats
  <2>3. q \in Pack
    BY <1>0, <2>1 DEF RestOK
  <2>4. PICK x \in {"whole", "part"} :
           /\ file' = [file EXCEPT ![q] = IF t \in writers[q] THEN x ELSE file[q]]
           /\ x = "part" => writers[q] # {t}
    BY <1>9 DEF Fill
  <2>5. /\ writers' = [writers EXCEPT ![q] = writers[q] \ {t}]
        /\ UNCHANGED <<bucket, lru, extra, failed, overlapped>>
    BY <1>9 DEF Fill
  <2> HIDE DEF q
  <2>6. RestOK'
    BY <1>0, <2>1, <2>3, <2>4, <2>5, GoesFacts DEF RestOK
  <2>7. WritersHaveFile' /\ PartIsBeingWritten'
    BY <1>0, <2>3, <2>4, <2>5
       DEF CacheInv, WritersHaveFile, PartIsBeingWritten, RestOK
  <2>8. QED
    BY <1>1, <2>2, <2>6, <2>7
<1>10. ASSUME NEW t \in Thread, WriteFails(t)
       PROVE  CacheInv'
  <2>1. Goes(t, "idle") /\ "idle" \in Steps /\ pc[t] # "idle"
    BY <1>10 DEF WriteFails, Steps
  <2>2. LruOK'
    BY <1>0, <1>10 DEF WriteFails, LruOK, NoRepeats
  <2>3. pack[t] \in Pack
    BY <1>0, <2>1 DEF RestOK
  <2>4. RestOK'
    BY <1>0, <1>10, <2>1, <2>3, GoesFacts DEF WriteFails, RestOK
  <2>5. WritersHaveFile' /\ PartIsBeingWritten'
    BY <1>0, <1>10, <2>3
       DEF WriteFails, CacheInv, WritersHaveFile, PartIsBeingWritten, RestOK
  <2>6. QED
    BY <1>1, <2>2, <2>4, <2>5
<1>11. ASSUME NEW t \in Thread, Upload(t) \/ UploadFails(t)
       PROVE  CacheInv'
  <2>1. PICK step \in Steps : Goes(t, step) /\ pc[t] # "idle"
    BY <1>11 DEF Upload, UploadFails, Steps
  <2>2. LruOK'
    BY <1>0, <1>11 DEF Upload, UploadFails, LruOK, NoRepeats
  <2>3. pack[t] \in Pack
    BY <1>0, <2>1 DEF RestOK
  <2>4. bucket' \subseteq Pack /\ extra' \subseteq bucket'
    BY <1>0, <1>11, <2>3 DEF Upload, UploadFails, RestOK
  <2>5. QED
    BY <1>1, <1>2, <1>11, <2>1, <2>2, <2>4 DEF Upload, UploadFails
<1>12. CASE UNCHANGED vars
  <2>1. LruOK'
    BY <1>0, <1>12 DEF vars, LruOK, NoRepeats
  <2>2. Goal
    BY <1>0, <1>12 DEF vars, RestOK, CacheInv, WritersHaveFile, PartIsBeingWritten
  <2>3. QED
    BY <1>1, <2>1, <2>2
<1>13. QED
  BY <1>3, <1>4, <1>6, <1>7, <1>8, <1>9, <1>10, <1>11, <1>12 DEF Next

(* Every reachable state is well typed, and the LruCache has no pack twice. *)
THEOREM TypeCorrect == Spec => []TypeOK
<1>1. Init => CacheInv
  BY InitCache
<1>2. CacheInv /\ [Next]_vars => CacheInv'
  BY StepCache
<1>3. CacheInv => TypeOK
  BY DEF CacheInv
<1>4. QED
  BY <1>1, <1>2, <1>3, PTL DEF Spec

(* A cache file that is not whole is being written, or writing it failed;   *)
(* for any number of threads that read, drop and write one file.            *)
THEOREM PartIsBeingWrittenHolds == Spec => []PartIsBeingWritten
<1>1. Init => CacheInv
  BY InitCache
<1>2. CacheInv /\ [Next]_vars => CacheInv'
  BY StepCache
<1>3. CacheInv => PartIsBeingWritten
  BY DEF CacheInv
<1>4. QED
  BY <1>1, <1>2, <1>3, PTL DEF Spec


-----------------------------------------------------------------------------
(* Calls that do not overlap.                                               *)

LEMMA FewerKept ==
    ASSUME IsFiniteSet(Pack), NEW K \in SUBSET Pack, NEW L, L \subseteq K,
           NEW n \in Nat, NEW m \in Nat, n <= m, NEW e \in Nat, Cardinality(K) <= n + e
    PROVE  Cardinality(L) <= m + e
<1>1. IsFiniteSet(K)
  BY FS_Subset
<1>2. Cardinality(L) <= Cardinality(K) /\ Cardinality(L) \in Nat /\ Cardinality(K) \in Nat
  BY <1>1, FS_Subset, FS_CardinalityType
<1>3. QED
  BY <1>2

LEMMA OneMoreKept ==
    ASSUME IsFiniteSet(Pack), NEW K \in SUBSET Pack, NEW p \in Pack, NEW L,
           L \subseteq K \cup {p}, NEW n \in Nat, Cardinality(K) <= n
    PROVE  Cardinality(L) <= n + 1
<1>1. IsFiniteSet(K)
  BY FS_Subset
<1>2. IsFiniteSet(K \cup {p}) /\ Cardinality(K \cup {p}) <= Cardinality(K) + 1
      /\ Cardinality(K) \in Nat
  <2>1. IsFiniteSet(K \cup {p})
        /\ Cardinality(K \cup {p}) = IF p \in K THEN Cardinality(K) ELSE Cardinality(K) + 1
    BY ONLY <1>1, FS_AddElement, Zenon
  <2>2. Cardinality(K) \in Nat
    BY <1>1, FS_CardinalityType
  <2>3. QED
    BY <2>1, <2>2
<1>3. Cardinality(L) <= Cardinality(K \cup {p}) /\ Cardinality(L) \in Nat
      /\ Cardinality(K \cup {p}) \in Nat
  BY <1>2, FS_Subset, FS_CardinalityType
<1>4. QED
  BY <1>2, <1>3

LEMMA OneForAnotherKept ==
    ASSUME IsFiniteSet(Pack), NEW K \in SUBSET Pack, NEW p \in Pack, NEW h \in K, NEW L,
           L \subseteq (K \ {h}) \cup {p}, NEW n \in Nat, Cardinality(K) <= n
    PROVE  Cardinality(L) <= n
<1>1. IsFiniteSet(K)
  BY FS_Subset
<1>2. IsFiniteSet(K \ {h}) /\ Cardinality(K \ {h}) = Cardinality(K) - 1
      /\ Cardinality(K) \in Nat /\ Cardinality(K \ {h}) \in Nat
  BY <1>1, FS_RemoveElement, FS_CardinalityType
<1>3. n - 1 \in Nat /\ Cardinality(K \ {h}) <= n - 1
  BY <1>2
<1>4. Cardinality(L) <= (n - 1) + 1
  <2>1. K \ {h} \in SUBSET Pack
    OBVIOUS
  <2> DEFINE k == n - 1
  <2>2. k \in Nat /\ Cardinality(K \ {h}) <= k
    BY <1>3
  <2> HIDE DEF k
  <2>3. Cardinality(L) <= k + 1
    BY ONLY IsFiniteSet(Pack), <2>1, <2>2, p \in Pack, L \subseteq (K \ {h}) \cup {p},
            OneMoreKept
  <2>4. QED
    BY <2>3 DEF k
<1>5. QED
  BY <1>4

(* The packs that take room in the cache, now or as soon as they are written. *)
Kept == Files \cup Cached \cup Creating

LEMMA CreatingIs ==
    ASSUME NEW t \in Thread
    PROVE  /\ Alone(t) => Creating = IF pc[t] = "create" THEN {pack[t]} ELSE {}
           /\ Alone(t)' => Creating' = IF pc'[t] = "create" THEN {pack'[t]} ELSE {}
BY DEF Alone, Creating

(* The parts of SoloInv after a step of a thread that is alone.             *)
LEMMA SoloParts ==
    ASSUME NEW t \in Thread, Alone(t)',
           pc'[t] = "touch" => file'[pack'[t]] # "none",
           pc'[t] = "upload" => pack'[t] \notin bucket',
           Cached' \subseteq Files' \cup failed' \cup Creating',
           Cardinality(Kept') <= Len(lru') + Cardinality(extra')
    PROVE  SoloInv'
<1>1. \A u \in Thread \ {t} : pc'[u] = "idle"
  BY DEF Alone
<1>2. \A u \in Thread : pc'[u] # "idle" => u = t
  BY <1>1
<1>3. \A u \in Thread : pc'[u] # "idle" => Alone(u)'
  BY <1>1, <1>2 DEF Alone
<1>4. QED
  BY <1>2, <1>3 DEF SoloInv, Kept

LEMMA InitSolo == ASSUME IsFiniteSet(Pack), Init PROVE SoloInv
<1>1. CacheInv
  BY InitCache
<1>2. Len(lru) = 0 /\ Cached = {}
  <2>1. lru \in Seq(Pack) /\ lru = <<>> /\ Len(lru) = 0
    BY S!EmptySeq DEF Init
  <2> DEFINE n == Len(lru)
  <2>2. Cached = {lru[i] : i \in 1 .. n}
    <3>1. lru \in Seq(Pack)
      BY <2>1
    <3>2. QED
      BY ONLY <3>1, SetOf DEF Cached
  <2>3. n = 0
    BY <2>1
  <2> HIDE DEF n
  <2>4. Cached = {}
    BY <2>2, <2>3
  <2>5. QED
    BY <2>1, <2>4
<1>3. Files = extra /\ Creating = {}
  BY DEF Init, Files, Creating
<1>4. IsFiniteSet(extra)
  BY <1>1, FS_Subset DEF CacheInv, TypeOK
<1>5. Cardinality(extra) \in Nat
  BY <1>4, FS_CardinalityType
<1>6. Cardinality(Files \cup Cached \cup Creating) <= Len(lru) + Cardinality(extra)
  <2>1. Files \cup Cached \cup Creating = extra
    BY <1>2, <1>3
  <2> DEFINE n == Len(lru)
  <2>2. n = 0
    BY <1>2
  <2> HIDE DEF n
  <2>3. Cardinality(extra) <= n + Cardinality(extra)
    BY <1>5, <2>2
  <2>4. QED
    BY <2>1, <2>3 DEF n
<1>7. QED
  BY <1>2, <1>6 DEF Init, SoloInv, Alone


LEMMA StepSolo ==
    ASSUME IsFiniteSet(Pack), CacheInv, SoloInv, [Next]_vars
    PROVE  SoloInv'
<1> DEFINE n == Len(lru)
           e == Cardinality(extra)
<1>0. TypeOK /\ RestOK /\ CacheInv' /\ TypeOK' /\ RestOK'
  BY StepCache, TypeParts DEF CacheInv
<1>1. n \in Nat /\ e \in Nat /\ Kept \in SUBSET Pack
  <2>1. n \in Nat
    BY <1>0, S!LenProperties DEF TypeOK
  <2>2. IsFiniteSet(extra)
    BY <1>0, FS_Subset DEF TypeOK
  <2>3. e \in Nat
    BY <2>2, FS_CardinalityType
  <2>4. Cached \subseteq Pack
    BY <1>0, SetOf, S!ElementOfSeq DEF Cached, TypeOK
  <2>5. Creating \subseteq Pack
    BY <1>0 DEF Creating, RestOK
  <2>6. QED
    BY <2>1, <2>3, <2>4, <2>5 DEF Kept, Files
<1>2. ASSUME NEW L, L \subseteq Kept, Cardinality(Kept) <= n + e
      PROVE  Cardinality(L) <= n + e
  BY <1>1, <1>2, FewerKept
<1>3. ASSUME NEW t \in Thread, pc[t] # "idle", ~overlapped
      PROVE  /\ Alone(t)
             /\ pc[t] = "touch" => file[pack[t]] # "none"
             /\ pc[t] = "upload" => pack[t] \notin bucket
             /\ Cached \subseteq Files \cup failed \cup Creating
             /\ Cardinality(Kept) <= n + e
             /\ Creating = IF pc[t] = "create" THEN {pack[t]} ELSE {}
             /\ pack[t] \in Pack
  BY <1>0, <1>3, CreatingIs DEF SoloInv, Kept, RestOK
<1>4. ASSUME NEW t \in Thread, NEW step \in Steps, pc[t] # "idle", ~overlapped, Goes(t, step)
      PROVE  /\ Alone(t)' /\ pc'[t] = step /\ (step # "idle" => pack'[t] = pack[t])
             /\ Creating' = IF step = "create" THEN {pack[t]} ELSE {}
  BY <1>0, <1>3, <1>4, GoesFacts, CreatingIs DEF Alone
<1> HIDE DEF n, e
<1>5. ASSUME NEW t \in Thread, NEW p \in Pack, Read(t, p) \/ Flush(t, p), ~overlapped'
      PROVE  SoloInv'
  <2>1. PICK step \in {"look", "upload"} :
           /\ Begin(t, p, step)
           /\ step = "upload" => p \notin bucket
           /\ UNCHANGED <<bucket, file, writers, lru, extra, failed>>
    BY <1>5 DEF Read, Flush
  <2>2. step \in Steps /\ step # "create" /\ step # "touch" /\ step # "idle"
    BY DEF Steps
  <2>3. /\ pc[t] = "idle" /\ pc'[t] = step /\ pack'[t] = p
        /\ ~overlapped /\ Alone(t) /\ Alone(t)'
    BY <1>0, <1>5, <2>1, <2>2, BeginFacts DEF Alone
  <2>4. Creating = {} /\ Creating' = {}
    BY <2>2, <2>3, CreatingIs
  <2>5. Files' = Files /\ Cached' = Cached /\ Len(lru') = n /\ Cardinality(extra') = e
    BY <2>1 DEF Files, Cached, n, e
  <2>6. Kept' = Kept /\ Cached \subseteq Files \cup failed \cup Creating
        /\ Cardinality(Kept) <= n + e
    BY <2>3, <2>4, <2>5 DEF Kept, SoloInv, n, e
  <2>7. QED
    BY <2>1, <2>2, <2>3, <2>4, <2>5, <2>6, SoloParts
<1>6. ASSUME NEW t \in Thread, ~overlapped', Look(t) \/ Download(t) \/ UploadFails(t)
      PROVE  SoloInv'
  <2>1. PICK step \in Steps :
           /\ Goes(t, step) /\ pc[t] \in {"look", "download", "upload"}
           /\ step \notin {"create", "upload"}
           /\ step = "touch" => file[pack[t]] # "none"
           /\ UNCHANGED <<file, writers, lru, extra, failed, overlapped>>
    BY <1>6 DEF Look, Download, UploadFails, Steps
  <2>2. ~overlapped /\ pc[t] # "idle" /\ pc[t] # "create"
    BY <1>6, <2>1
  <2>3. Files' = Files /\ Cached' = Cached /\ Len(lru') = n /\ Cardinality(extra') = e
    BY <2>1 DEF Files, Cached, n, e
  <2>4. Creating = {} /\ Creating' = {} /\ Alone(t)' /\ pc'[t] = step
        /\ (step # "idle" => pack'[t] = pack[t])
    BY <1>3, <1>4, <2>1, <2>2
  <2>5. Kept' = Kept /\ Cached \subseteq Files \cup failed \cup Creating
        /\ Cardinality(Kept) <= n + e
    BY <1>3, <2>2, <2>3, <2>4 DEF Kept
  <2>6. pc'[t] = "touch" => file'[pack'[t]] # "none"
    BY <2>1, <2>4
  <2>7. QED
    BY <2>1, <2>3, <2>4, <2>5, <2>6, SoloParts
<1>7. ASSUME NEW t \in Thread, ~overlapped', Touch(t)
      PROVE  SoloInv'
  <2> DEFINE p == pack[t]
  <2>1. /\ Goes(t, "idle") /\ "idle" \in Steps /\ pc[t] = "touch" /\ ~overlapped
        /\ lru' = Recent(p)
        /\ UNCHANGED <<bucket, file, writers, extra, failed, overlapped>>
    BY <1>7 DEF Touch, Steps
  <2>2. /\ Creating = {} /\ Creating' = {} /\ Alone(t)' /\ pc'[t] = "idle"
        /\ p \in Pack /\ p \in Files
        /\ Cached \subseteq Files \cup failed \cup Creating /\ Cardinality(Kept) <= n + e
    BY <1>3, <1>4, <2>1 DEF Files
  <2>3. Files' = Files /\ Cardinality(extra') = e
    BY <2>1 DEF Files, e
  <2>4. Cached' \subseteq Cached \cup {p} /\ Len(lru') \in Nat /\ n <= Len(lru')
    <3>1. Cached' = ToSet(Recent(p)) /\ Len(lru') = Len(Recent(p))
      BY <2>1 DEF Cached
    <3>2. ToSet(Recent(p)) \subseteq Cached \cup {p}
          /\ (Len(Recent(p)) = n \/ Len(Recent(p)) = n + 1)
      BY <1>0, <2>2, RecentFacts DEF n
    <3> DEFINE m == Len(Recent(p))
    <3>3. m = n \/ m = n + 1
      BY <3>2
    <3> HIDE DEF m
    <3>4. m \in Nat /\ n <= m
      BY <1>1, <3>3
    <3>5. QED
      BY <3>1, <3>2, <3>4 DEF m
  <2>5. Kept' \subseteq Kept
    BY <2>2, <2>3, <2>4 DEF Kept
  <2>6. Cardinality(Kept') <= Len(lru') + e
    <3> DEFINE m == Len(lru')
    <3>1. m \in Nat /\ n <= m
      BY <2>4
    <3> HIDE DEF m
    <3>2. Cardinality(Kept') <= m + e
      BY <1>1, <2>2, <2>5, <3>1, FewerKept
    <3>3. QED
      BY <3>2 DEF m
  <2>7. Cached' \subseteq Files' \cup failed' \cup Creating'
    BY <2>1, <2>2, <2>3, <2>4
  <2>8. QED
    BY <2>2, <2>3, <2>6, <2>7, SoloParts
<1>8. ASSUME NEW t \in Thread, ~overlapped', Push(t)
      PROVE  SoloInv'
  <2> DEFINE p == pack[t]
             gone == Dropped(p)
             h == Head(lru)
  <2>1. /\ Goes(t, "create") /\ "create" \in Steps /\ pc[t] = "push" /\ ~overlapped
        /\ lru' = Recent(p)
        /\ file' = [q \in Pack |-> IF q \in gone THEN "none" ELSE file[q]]
        /\ UNCHANGED <<bucket, extra, failed, overlapped>>
    BY <1>8 DEF Push, RemoveFiles, Steps
  <2>2. /\ Creating = {} /\ Creating' = {p} /\ Alone(t)' /\ pc'[t] = "create" /\ p \in Pack
        /\ Cached \subseteq Files \cup failed \cup Creating /\ Cardinality(Kept) <= n + e
    BY <1>3, <1>4, <2>1
  <2>3. Cardinality(extra') = e /\ failed' = failed
    BY <2>1 DEF e
  <2>4. Files' = Files \ gone
    <3> HIDE DEF gone, p
    <3>1. QED
      BY <2>1 DEF Files
  <2>5. Cached' = ToSet(Recent(p)) /\ Len(lru') = Len(Recent(p))
    BY <2>1 DEF Cached
  <2>6. CASE p \in Cached
    <3>1. Len(lru') = n /\ Cached' = Cached /\ gone = {p}
      BY <1>0, <2>2, <2>5, <2>6, RecentFacts DEF n
    <3>2. Kept' \subseteq Kept /\ Cached' \subseteq Files' \cup failed' \cup Creating'
      BY <2>2, <2>3, <2>4, <2>6, <3>1 DEF Kept
    <3>3. Cardinality(Kept') <= Len(lru') + Cardinality(extra')
      BY <1>2, <2>2, <2>3, <3>1, <3>2
    <3>4. QED
      BY <2>2, <3>2, <3>3, SoloParts
  <2>7. CASE p \notin Cached /\ Len(lru) < Capacity
    <3>1. Len(lru') = n + 1 /\ Cached' = Cached \cup {p} /\ gone = {}
      BY <1>0, <2>2, <2>5, <2>7, RecentFacts DEF n
    <3>2. Kept' \subseteq Kept \cup {p} /\ Cached' \subseteq Files' \cup failed' \cup Creating'
      BY <2>2, <2>3, <2>4, <3>1 DEF Kept
    <3>3. n + e \in Nat /\ (n + e) + 1 = (n + 1) + e
      BY <1>1
    <3>4. Cardinality(Kept') <= (n + e) + 1
      BY <1>1, <2>2, <3>2, <3>3, OneMoreKept
    <3>5. Cardinality(Kept') <= Len(lru') + Cardinality(extra')
      BY <2>3, <3>1, <3>3, <3>4
    <3>6. QED
      BY <2>2, <3>2, <3>5, SoloParts
  <2>8. CASE p \notin Cached /\ ~(Len(lru) < Capacity)
    <3>1. Len(lru') = n /\ Cached' = (Cached \ {h}) \cup {p} /\ gone = {h} /\ h \in Cached
      BY <1>0, <2>2, <2>5, <2>8, RecentFacts DEF n
    <3>2. /\ Kept' \subseteq (Kept \ {h}) \cup {p} /\ h \in Kept
          /\ Cached' \subseteq Files' \cup failed' \cup Creating'
      BY <2>2, <2>3, <2>4, <2>8, <3>1 DEF Kept
    <3>3. n + e \in Nat
      BY <1>1
    <3>4. Cardinality(Kept') <= n + e
      BY <1>1, <2>2, <3>2, <3>3, OneForAnotherKept
    <3>5. Cardinality(Kept') <= Len(lru') + Cardinality(extra')
      BY <2>3, <3>1, <3>4
    <3>6. QED
      BY <2>2, <3>2, <3>5, SoloParts
  <2>9. QED
    BY <2>6, <2>7, <2>8
<1>9. ASSUME NEW t \in Thread, ~overlapped', Create(t) \/ Fill(t) \/ WriteFails(t)
      PROVE  SoloInv'
  <2> DEFINE p == pack[t]
  <2>1. PICK step \in {"fill", "idle"} : Goes(t, step)
    BY <1>9 DEF Create, Fill, WriteFails
  <2>2. /\ step \in Steps /\ pc[t] # "idle" /\ ~overlapped
        /\ UNCHANGED <<bucket, lru, extra, overlapped>>
    BY <1>9 DEF Create, Fill, WriteFails, Steps
  <2>3. /\ Creating \subseteq {p} /\ (pc[t] # "create" => Creating = {})
        /\ Creating' = {} /\ Alone(t)' /\ pc'[t] = step /\ p \in Pack
        /\ Cached \subseteq Files \cup failed \cup Creating /\ Cardinality(Kept) <= n + e
    BY <1>3, <1>4, <2>1, <2>2
  <2>4. Cached' = Cached /\ Len(lru') = n /\ Cardinality(extra') = e
    BY <2>2 DEF Cached, n, e
  <2>5. /\ Files' \subseteq Files \cup Creating /\ failed \subseteq failed'
        /\ Files \cup failed \cup Creating \subseteq Files' \cup failed'
    <3>1. CASE Create(t)
      <4>1. Creating = {p} /\ failed' = failed /\ file' = [file EXCEPT ![p] = "part"]
        BY <1>3, <2>2, <3>1 DEF Create
      <4>2. Files' = Files \cup {p}
        BY <1>0, <2>3, <4>1 DEF Files, RestOK
      <4>3. QED
        BY <4>1, <4>2
    <3>2. CASE Fill(t)
      <4>1. Creating = {} /\ failed' = failed
        BY <2>3, <3>2 DEF Fill
      <4>2. PICK x \in {"whole", "part"} :
               file' = [file EXCEPT ![p] = IF t \in writers[p] THEN x ELSE file[p]]
        BY <3>2 DEF Fill
      <4>3. t \in writers[p] => file[p] # "none"
        BY <2>3 DEF CacheInv, WritersHaveFile
      <4>4. Files' = Files
        BY <1>0, <2>3, <4>2, <4>3 DEF Files, RestOK
      <4>5. QED
        BY <4>1, <4>4
    <3>3. CASE WriteFails(t)
      <4>1. failed' = failed \cup {p} /\ file' = file
        BY <3>3 DEF WriteFails
      <4>2. Files' = Files
        BY <4>1 DEF Files
      <4>3. QED
        BY <2>3, <4>1, <4>2
    <3>4. QED
      BY <1>9, <3>1, <3>2, <3>3
  <2>6. Kept' \subseteq Kept /\ Cached' \subseteq Files' \cup failed' \cup Creating'
    BY <2>3, <2>4, <2>5 DEF Kept
  <2>7. Cardinality(Kept') <= Len(lru') + Cardinality(extra')
    BY <1>2, <2>3, <2>4, <2>6
  <2>8. QED
    BY <2>1, <2>3, <2>6, <2>7, SoloParts
<1>10. ASSUME NEW t \in Thread, ~overlapped', Upload(t)
       PROVE  SoloInv'
  <2> DEFINE p == pack[t]
  <2>1. /\ Goes(t, "create") /\ "create" \in Steps /\ pc[t] = "upload" /\ ~overlapped
        /\ extra' = extra \cup {p}
        /\ UNCHANGED <<file, writers, lru, failed, overlapped>>
    BY <1>10 DEF Upload, Steps
  <2>2. /\ Creating = {} /\ Creating' = {p} /\ Alone(t)' /\ pc'[t] = "create" /\ p \in Pack
        /\ p \notin bucket
        /\ Cached \subseteq Files \cup failed \cup Creating /\ Cardinality(Kept) <= n + e
    BY <1>3, <1>4, <2>1
  <2>3. Files' = Files /\ Cached' = Cached /\ Len(lru') = n
    BY <2>1 DEF Files, Cached, n
  <2>4. Cardinality(extra') = e + 1
    <3>1. IsFiniteSet(extra) /\ p \notin extra
      BY <1>0, <2>2, FS_Subset DEF RestOK
    <3>2. Cardinality(extra \cup {p}) = Cardinality(extra) + 1
      BY ONLY <3>1, FS_AddElement, Zenon
    <3>3. QED
      BY <2>1, <3>2 DEF e
  <2>5. Kept' \subseteq Kept \cup {p} /\ Cached' \subseteq Files' \cup failed' \cup Creating'
    BY <2>1, <2>2, <2>3 DEF Kept
  <2>6. n + e \in Nat /\ (n + e) + 1 = n + (e + 1)
    BY <1>1
  <2>7. Cardinality(Kept') <= (n + e) + 1
    BY <1>1, <2>2, <2>5, <2>6, OneMoreKept
  <2>8. Cardinality(Kept') <= Len(lru') + Cardinality(extra')
    BY <2>3, <2>4, <2>6, <2>7
  <2>9. QED
    BY <2>2, <2>5, <2>8, SoloParts
<1>11. CASE UNCHANGED vars
  BY <1>11 DEF vars, SoloInv, Alone, Cached, Files, Creating
<1>12. CASE overlapped'
  BY <1>12 DEF SoloInv
<1>13. QED
  BY <1>5, <1>6, <1>7, <1>8, <1>9, <1>10, <1>11, <1>12 DEF Next


(* While calls follow one another, the cache directory holds no more packs  *)
(* than the LruCache may, and those that came past it.                      *)
THEOREM FilesBoundedHolds == ASSUME IsFiniteSet(Pack) PROVE Spec => []FilesBounded
<1>1. Init => CacheInv /\ SoloInv
  BY InitCache, InitSolo
<1>2. CacheInv /\ SoloInv /\ [Next]_vars => CacheInv' /\ SoloInv'
  BY StepCache, StepSolo
<1>3. CacheInv /\ SoloInv => FilesBounded
  <2> SUFFICES ASSUME CacheInv, SoloInv, ~overlapped
               PROVE  Cardinality(Files) <= Capacity + Cardinality(extra)
    BY DEF FilesBounded
  <2> DEFINE n == Len(lru)
             K == Files \cup Cached \cup Creating
  <2>1. lru \in Seq(Pack) /\ n <= Capacity /\ Capacity \in Nat /\ n \in Nat
    BY CacheAssumption, S!LenProperties DEF CacheInv, TypeOK
  <2>2. IsFiniteSet(extra)
    BY FS_Subset DEF CacheInv, TypeOK
  <2>3. Cardinality(extra) \in Nat
    BY <2>2, FS_CardinalityType
  <2>4. Cached \subseteq Pack /\ Creating \subseteq Pack
    BY <2>1, SetOf, S!ElementOfSeq DEF Cached, Creating, CacheInv, TypeOK
  <2>5. K \in SUBSET Pack /\ Files \subseteq K
    BY <2>4 DEF Files
  <2>6. Cardinality(K) <= n + Cardinality(extra)
    BY DEF SoloInv
  <2> HIDE DEF n, K
  <2>7. QED
    BY <2>1, <2>3, <2>5, <2>6, FewerKept
<1>4. QED
  BY <1>1, <1>2, <1>3, PTL DEF Spec

(* No entry of the LruCache stands for a file that calls which follow one   *)
(* another have removed or never written, unless writing it failed.         *)
THEOREM EntriesHaveFilesHolds == ASSUME IsFiniteSet(Pack) PROVE Spec => []EntriesHaveFiles
<1>1. Init => CacheInv /\ SoloInv
  BY InitCache, InitSolo
<1>2. CacheInv /\ SoloInv /\ [Next]_vars => CacheInv' /\ SoloInv'
  BY StepCache, StepSolo
<1>3. CacheInv /\ SoloInv => EntriesHaveFiles
  BY DEF SoloInv, EntriesHaveFiles, Creating
<1>4. QED
  BY <1>1, <1>2, <1>3, PTL DEF Spec

-----------------------------------------------------------------------------
(* PackFormat.  Lemmas about sequences of anything, and parts of them.      *)

IsSeq(s) == \E V : s \in Seq(V)

LEMMA SeqIs ==
    ASSUME NEW s, IsSeq(s)
    PROVE  Len(s) \in Nat /\ DOMAIN s = 1 .. Len(s)
BY S!LenProperties DEF IsSeq

LEMMA IsASequence ==
    ASSUME NEW V, NEW s, Len(s) \in Nat, s = [i \in 1 .. Len(s) |-> s[i]],
           \A i \in 1 .. Len(s) : s[i] \in V
    PROVE  s \in Seq(V)
<1> DEFINE n == Len(s)
<1>1. n \in Nat /\ s \in [1 .. n -> V]
  <2>1. n \in Nat /\ s = [i \in 1 .. n |-> s[i]] /\ \A i \in 1 .. n : s[i] \in V
    OBVIOUS
  <2> HIDE DEF n
  <2>2. [i \in 1 .. n |-> s[i]] \in [1 .. n -> V]
    BY <2>1
  <2>3. QED
    BY <2>1, <2>2
<1> HIDE DEF n
<1>2. QED
  BY <1>1, S!SeqDef

LEMMA Joined ==
    ASSUME NEW a, NEW b, IsSeq(a), IsSeq(b)
    PROVE  /\ IsSeq(a \o b) /\ Len(a \o b) = Len(a) + Len(b)
           /\ Len(a) \in Nat /\ Len(b) \in Nat
           /\ \A i \in 1 .. Len(a) : (a \o b)[i] = a[i]
           /\ \A i \in 1 .. Len(b) : (a \o b)[Len(a) + i] = b[i]
<1>1. PICK V : a \in Seq(V)
  BY DEF IsSeq
<1>2. PICK W : b \in Seq(W)
  BY DEF IsSeq
<1>3. a \in Seq(V \cup W) /\ b \in Seq(V \cup W)
  BY <1>1, <1>2, S!SeqMonotonic
<1> DEFINE c == a \o b
           n == Len(a)
           m == Len(b)
<1>4. c \in Seq(V \cup W) /\ Len(c) = n + m
      /\ \A i \in 1 .. n + m : c[i] = IF i <= n THEN a[i] ELSE b[i - n]
  BY <1>3, S!ConcatProperties
<1>5. n \in Nat /\ m \in Nat
  BY <1>3, S!LenProperties
<1>6. IsSeq(c)
  BY <1>4 DEF IsSeq
<1> HIDE DEF c, n, m
<1>7. \A i \in 1 .. n : c[i] = a[i]
  BY <1>4, <1>5
<1>8. ASSUME NEW i \in 1 .. m
      PROVE  c[n + i] = b[i]
  <2>1. n + i \in 1 .. n + m /\ ~(n + i <= n) /\ (n + i) - n = i
    BY <1>5
  <2>2. QED
    BY <1>4, <2>1
<1>9. QED
  BY <1>4, <1>5, <1>6, <1>7, <1>8 DEF c, n, m

LEMMA Cut ==
    ASSUME NEW s, IsSeq(s), NEW m \in Nat \ {0}, NEW n \in Nat, m <= n + 1, n <= Len(s)
    PROVE  /\ IsSeq(SubSeq(s, m, n)) /\ Len(SubSeq(s, m, n)) = (n - m) + 1
           /\ \A i \in 1 .. (n - m) + 1 : SubSeq(s, m, n)[i] = s[(m + i) - 1]
<1>1. PICK V : s \in Seq(V)
  BY DEF IsSeq
<1>2. Len(s) \in Nat /\ \A i \in 1 .. Len(s) : s[i] \in V
  BY <1>1, S!LenProperties, S!ElementOfSeq
<1>3. \A i \in m .. n : s[i] \in V
  BY <1>2
<1>4. m \in Int /\ n \in Int
  OBVIOUS
<1> DEFINE c == SubSeq(s, m, n)
<1>5. /\ c \in Seq(V)
      /\ Len(c) = IF m <= n THEN n - m + 1 ELSE 0
      /\ \A i \in 1 .. n - m + 1 : c[i] = s[m + i - 1]
  BY <1>3, <1>4, S!SubSeqProperties
<1>6. IsSeq(c)
  BY <1>5 DEF IsSeq
<1> HIDE DEF c
<1>7. QED
  BY <1>5, <1>6 DEF c

LEMMA SameSeq ==
    ASSUME NEW a, NEW b, IsSeq(a), IsSeq(b), Len(a) = Len(b),
           \A i \in 1 .. Len(a) : a[i] = b[i]
    PROVE  a = b
<1>1. PICK V : a \in Seq(V)
  BY DEF IsSeq
<1>2. PICK W : b \in Seq(W)
  BY DEF IsSeq
<1>3. a \in Seq(V \cup W) /\ b \in Seq(V \cup W)
  BY <1>1, <1>2, S!SeqMonotonic
<1>4. QED
  BY <1>3, S!SeqEqual

(* A part of the first of two sequences, and the second, in both together.  *)
LEMMA CutFirst ==
    ASSUME NEW a, NEW b, IsSeq(a), IsSeq(b),
           NEW m \in Nat \ {0}, NEW n \in Nat, m <= n + 1, n <= Len(a)
    PROVE  SubSeq(a \o b, m, n) = SubSeq(a, m, n)
<1> DEFINE c == a \o b
           s == SubSeq(c, m, n)
           t == SubSeq(a, m, n)
<1>1. /\ IsSeq(c) /\ Len(c) = Len(a) + Len(b) /\ Len(a) \in Nat /\ Len(b) \in Nat
      /\ \A i \in 1 .. Len(a) : c[i] = a[i]
  BY Joined
<1> HIDE DEF c
<1>2. n <= Len(c)
  BY <1>1
<1>3. /\ IsSeq(s) /\ Len(s) = (n - m) + 1
      /\ \A i \in 1 .. (n - m) + 1 : s[i] = c[(m + i) - 1]
  BY <1>1, <1>2, Cut
<1>4. /\ IsSeq(t) /\ Len(t) = (n - m) + 1
      /\ \A i \in 1 .. (n - m) + 1 : t[i] = a[(m + i) - 1]
  BY Cut
<1>5. \A i \in 1 .. (n - m) + 1 : (m + i) - 1 \in 1 .. Len(a)
  BY <1>1
<1> HIDE DEF s, t
<1>6. s = t
  <2>1. \A i \in 1 .. Len(s) : s[i] = t[i]
    BY <1>1, <1>3, <1>4, <1>5
  <2>2. QED
    BY <1>3, <1>4, <2>1, SameSeq
<1>7. QED
  BY <1>6 DEF s, t, c

LEMMA CutSecond ==
    ASSUME NEW a, NEW b, IsSeq(a), IsSeq(b)
    PROVE  SubSeq(a \o b, Len(a) + 1, Len(a) + Len(b)) = b
<1> DEFINE c == a \o b
           m == Len(a) + 1
           n == Len(a) + Len(b)
           s == SubSeq(c, m, n)
<1>1. /\ IsSeq(c) /\ Len(c) = n /\ Len(a) \in Nat /\ Len(b) \in Nat
      /\ \A i \in 1 .. Len(b) : c[Len(a) + i] = b[i]
  BY Joined
<1> HIDE DEF c
<1>2. m \in Nat \ {0} /\ n \in Nat /\ m <= n + 1 /\ n <= Len(c) /\ (n - m) + 1 = Len(b)
  BY <1>1
<1>3. \A i \in 1 .. Len(b) : (m + i) - 1 = Len(a) + i
  BY <1>1
<1> HIDE DEF m, n
<1>4. /\ IsSeq(s) /\ Len(s) = Len(b)
      /\ \A i \in 1 .. Len(b) : s[i] = c[(m + i) - 1]
  BY <1>1, <1>2, Cut
<1> HIDE DEF s
<1>5. s = b
  BY <1>1, <1>3, <1>4, SameSeq
<1>6. QED
  BY <1>5 DEF s, m, n, c

(* The whole of a sequence.                                                 *)
LEMMA CutAll ==
    ASSUME NEW s, IsSeq(s)
    PROVE  SubSeq(s, 1, Len(s)) = s
<1>1. PICK V : s \in Seq(V)
  BY DEF IsSeq
<1>2. QED
  BY <1>1, S!SubSeqFull

LEMMA BytesAre ==
    ASSUME NEW what, what.len \in Nat
    PROVE  /\ IsSeq(Bytes(what)) /\ Len(Bytes(what)) = what.len
           /\ DOMAIN Bytes(what) = 1 .. what.len
           /\ \A i \in 1 .. what.len : Bytes(what)[i] = <<what, i>> /\ Bytes(what)[i][1] = what
<1> DEFINE n == what.len
           s == Bytes(what)
<1>1. s = [i \in 1 .. n |-> <<what, i>>] /\ n \in Nat
  BY DEF Bytes
<1> HIDE DEF n
<1>2. s \in Seq({<<what, i>> : i \in 1 .. n})
  BY <1>1
<1>3. Len(s) = n
  BY <1>1
<1>4. IsSeq(s)
  BY <1>2 DEF IsSeq
<1>5. QED
  BY <1>1, <1>3, <1>4 DEF n

(* What was written can be read again.                                      *)
LEMMA WholeOf ==
    ASSUME NEW what, what.len \in Nat \ {0}
    PROVE  Whole(Bytes(what), what.form) = what.of
<1> DEFINE s == Bytes(what)
<1>1. /\ IsSeq(s) /\ Len(s) = what.len /\ DOMAIN s = 1 .. what.len
      /\ \A i \in 1 .. what.len : s[i][1] = what
  BY BytesAre
<1>2. 1 \in 1 .. what.len
  OBVIOUS
<1>3. s # <<>>
  BY <1>1
<1>4. s[1][1] = what
  BY <1>1, <1>2
<1> HIDE DEF s
<1>5. s = Bytes(s[1][1])
  BY <1>4 DEF s
<1>6. \A i \in DOMAIN s : s[i][1].form = what.form
  BY <1>1
<1>7. QED
  BY <1>3, <1>4, <1>5, <1>6 DEF Whole, s


(* Bytes of another form are not read.                                      *)
LEMMA NotWhole ==
    ASSUME NEW s, NEW form, NEW i \in DOMAIN s, s[i][1].form # form
    PROVE  Whole(s, form) = Corrupt
BY DEF Whole

-----------------------------------------------------------------------------
(* A pack: the data, the index and the footer.                              *)

Plain(s) == \A i \in 1 .. Len(s) : s[i][1].form \notin {"footer", "broken"}

FooterFor(data, es, v) ==
    [index_offset |-> Len(data), index_len |-> Len(es) + 1, magic |-> v,
     checksum |-> IF v = "v3"
                  THEN <<data \o Bytes(Index(es, v)), Len(data), Len(es) + 1, v>>
                  ELSE <<data \o Bytes(Index(es, v)), 0, 0, "v2">>]

LEMMA FooterIs ==
    ASSUME NEW body, IsSeq(body), NEW f
    PROVE  LET image == body \o Bytes(Footer(f)) IN
           /\ IsSeq(image) /\ Len(image) = Len(body) + FooterSize /\ Len(body) \in Nat
           /\ FooterOf(image) = f /\ BodyOf(image) = body
<1> DEFINE b == Bytes(Footer(f))
           image == body \o b
<1>1. Footer(f).len = FooterSize /\ Footer(f).form = "footer" /\ Footer(f).of = f
  BY DEF Footer
<1>2. Footer(f).len \in Nat \ {0} /\ FooterSize \in Nat \ {0}
  BY <1>1, FormatSizes
<1>3. IsSeq(b) /\ Len(b) = FooterSize
  BY <1>1, <1>2, BytesAre
<1>4. Whole(b, "footer") = f
  <2>1. Whole(Bytes(Footer(f)), Footer(f).form) = Footer(f).of
    BY <1>2, WholeOf
  <2>2. QED
    BY <1>1, <2>1
<1> HIDE DEF b
<1>5. IsSeq(image) /\ Len(image) = Len(body) + FooterSize /\ Len(body) \in Nat
  BY <1>3, Joined
<1>6. SubSeq(image, Len(body) + 1, Len(body) + Len(b)) = b
  BY <1>3, CutSecond
<1>7. SubSeq(image, 1, Len(body)) = body
  <2>1. SubSeq(image, 1, Len(body)) = SubSeq(body, 1, Len(body))
    BY <1>3, <1>5, CutFirst
  <2>2. QED
    BY <2>1, CutAll
<1> HIDE DEF image
<1>8. Len(image) - FooterSize = Len(body)
  BY <1>2, <1>5
<1>9. FooterOf(image) = f
  BY <1>3, <1>4, <1>5, <1>6, <1>8 DEF FooterOf
<1>10. BodyOf(image) = body
  BY <1>7, <1>8 DEF BodyOf
<1>11. QED
  BY <1>5, <1>9, <1>10 DEF image, b

LEMMA IndexIs ==
    ASSUME NEW es, IsSeq(es), NEW v
    PROVE  /\ Len(es) \in Nat
           /\ IsSeq(Bytes(Index(es, v))) /\ Len(Bytes(Index(es, v))) = Len(es) + 1
           /\ Plain(Bytes(Index(es, v)))
           /\ Whole(Bytes(Index(es, v)), IF v = "v1" THEN "index v1" ELSE "index") = es
<1> DEFINE w == Index(es, v)
           form == IF v = "v1" THEN "index v1" ELSE "index"
<1>1. Len(es) \in Nat
  BY SeqIs
<1>2. w.len = Len(es) + 1 /\ w.form = form /\ w.of = es
  BY DEF Index
<1>3. form \notin {"footer", "broken"}
  OBVIOUS
<1> HIDE DEF w, form
<1>4. w.len \in Nat \ {0}
  BY <1>1, <1>2
<1>5. IsSeq(Bytes(w)) /\ Len(Bytes(w)) = w.len /\ \A i \in 1 .. w.len : Bytes(w)[i][1] = w
  BY <1>4, BytesAre
<1>6. Whole(Bytes(w), form) = es
  BY <1>2, <1>4, WholeOf
<1>7. Plain(Bytes(w))
  BY <1>2, <1>3, <1>5 DEF Plain
<1>8. QED
  BY <1>1, <1>2, <1>5, <1>6, <1>7 DEF w, form

LEMMA PlainJoined ==
    ASSUME NEW a, NEW b, IsSeq(a), IsSeq(b), Plain(a), Plain(b)
    PROVE  Plain(a \o b)
<1> DEFINE c == a \o b
           n == Len(a)
           m == Len(b)
<1>1. /\ Len(c) = n + m /\ n \in Nat /\ m \in Nat
      /\ \A i \in 1 .. n : c[i] = a[i]
      /\ \A i \in 1 .. m : c[n + i] = b[i]
  BY Joined
<1>2. (\A i \in 1 .. n : a[i][1].form \notin {"footer", "broken"})
      /\ \A i \in 1 .. m : b[i][1].form \notin {"footer", "broken"}
  BY DEF Plain
<1> HIDE DEF c, n, m
<1>3. ASSUME NEW i \in 1 .. n + m
      PROVE  c[i][1].form \notin {"footer", "broken"}
  <2>1. CASE i <= n
    BY <1>1, <1>2, <2>1
  <2>2. CASE ~(i <= n)
    <3>1. i - n \in 1 .. m /\ n + (i - n) = i
      BY <1>1, <2>2
    <3>2. QED
      BY <1>1, <1>2, <3>1
  <2>3. QED
    BY <2>1, <2>2
<1>4. QED
  BY <1>1, <1>3 DEF Plain, c

(* What Finished makes of its data, and how it is taken apart.              *)
LEMMA FinishedIs ==
    ASSUME NEW data, IsSeq(data), Plain(data), NEW es, IsSeq(es), NEW v
    PROVE  LET body == data \o Bytes(Index(es, v))
               f == FooterFor(data, es, v)
           IN  /\ Finished(data, es, v) = body \o Bytes(Footer(f))
               /\ IsSeq(body) /\ Plain(body) /\ Len(body) = Len(data) + (Len(es) + 1)
               /\ Len(data) \in Nat /\ Len(es) \in Nat
               /\ Checksum(body, f) = f.checksum
               /\ ReadIndex(body, f) = es
<1> DEFINE b == Bytes(Index(es, v))
           body == data \o b
           f == FooterFor(data, es, v)
           form == IF v = "v1" THEN "index v1" ELSE "index"
<1>1. /\ Len(es) \in Nat /\ IsSeq(b) /\ Len(b) = Len(es) + 1 /\ Plain(b)
      /\ Whole(b, form) = es
  BY IndexIs
<1>2. /\ f.index_offset = Len(data) /\ f.index_len = Len(es) + 1 /\ f.magic = v
      /\ f.checksum = IF v = "v3" THEN <<body, Len(data), Len(es) + 1, v>>
                      ELSE <<body, 0, 0, "v2">>
  BY DEF FooterFor
<1>3. Finished(data, es, v) = body \o Bytes(Footer(f))
  <2> DEFINE g == [index_offset |-> Len(data), index_len |-> Len(b), magic |-> v,
                   checksum |-> <<>>]
  <2>1. Checksum(body, g) = f.checksum
    BY <1>1, <1>2 DEF Checksum
  <2>2. f = [index_offset |-> Len(data), index_len |-> Len(es) + 1, magic |-> v,
             checksum |-> f.checksum]
    BY DEF FooterFor
  <2>3. [g EXCEPT !.checksum = Checksum(body, g)]
        = [index_offset |-> Len(data), index_len |-> Len(b), magic |-> v,
           checksum |-> Checksum(body, g)]
    OBVIOUS
  <2>4. [g EXCEPT !.checksum = Checksum(body, g)] = f
    BY <1>1, <2>1, <2>2, <2>3
  <2>5. Finished(data, es, v)
        = body \o Bytes(Footer([g EXCEPT !.checksum = Checksum(body, g)]))
    BY DEF Finished
  <2>6. QED
    BY <2>4, <2>5
<1> HIDE DEF b
<1>4. /\ IsSeq(body) /\ Len(body) = Len(data) + Len(b) /\ Len(data) \in Nat
  BY <1>1, Joined
<1>5. Plain(body)
  BY <1>1, PlainJoined
<1>6. Checksum(body, f) = f.checksum
  BY <1>2 DEF Checksum
<1>7. ReadIndex(body, f) = es
  <2>1. SubSeq(body, Len(data) + 1, Len(data) + Len(b)) = b
    BY <1>1, CutSecond
  <2>2. SubSeq(body, f.index_offset + 1, f.index_offset + f.index_len) = b
    BY <1>1, <1>2, <2>1
  <2> HIDE DEF body, f
  <2>3. QED
    BY <1>1, <1>2, <2>2 DEF ReadIndex
<1>8. QED
  BY <1>1, <1>3, <1>4, <1>5, <1>6, <1>7 DEF b

-----------------------------------------------------------------------------
(* Damage.                                                                  *)

(* A file whose last bytes are not all the bytes of a footer is no pack.    *)
LEMMA NoFooter ==
    ASSUME NEW s, IsSeq(s), NEW i \in 1 .. Len(s), i > Len(s) - FooterSize,
           s[i][1].form # "footer"
    PROVE  ReadPack(s) = Corrupt
<1>1. Len(s) \in Nat /\ FooterSize \in Nat \ {0}
  BY SeqIs, FormatSizes
<1>2. CASE Len(s) < FooterSize
  BY <1>2 DEF ReadPack
<1>3. CASE ~(Len(s) < FooterSize)
  <2> DEFINE m == (Len(s) - FooterSize) + 1
             t == SubSeq(s, m, Len(s))
  <2>1. m \in Nat \ {0} /\ m <= Len(s) + 1 /\ (Len(s) - m) + 1 = FooterSize
    BY <1>1, <1>3
  <2> HIDE DEF m
  <2>2. /\ IsSeq(t) /\ Len(t) = FooterSize
        /\ \A j \in 1 .. FooterSize : t[j] = s[(m + j) - 1]
    <3>1. /\ IsSeq(t) /\ Len(t) = (Len(s) - m) + 1
          /\ \A j \in 1 .. (Len(s) - m) + 1 : t[j] = s[(m + j) - 1]
      BY <1>1, <2>1, Cut
    <3> HIDE DEF t
    <3>2. QED
      BY <2>1, <3>1
  <2> HIDE DEF t
  <2>3. (i - m) + 1 \in 1 .. FooterSize /\ (m + ((i - m) + 1)) - 1 = i
    BY <1>1, <1>3 DEF m
  <2>4. t[(i - m) + 1][1].form # "footer"
    BY <2>2, <2>3
  <2>5. (i - m) + 1 \in DOMAIN t
    BY <2>2, <2>3, SeqIs
  <2>6. Whole(t, "footer") = Corrupt
    BY <2>4, <2>5, NotWhole
  <2>7. FooterOf(s) = Corrupt
    BY <2>6 DEF FooterOf, t, m
  <2>8. QED
    BY <2>7 DEF ReadPack
<1>4. QED
  BY <1>2, <1>3

LEMMA BrokenIs == Broken[1].form = "broken"
BY DEF Broken

(* The pack as it was written, of the newest format.                        *)
LEMMA DamageFound ==
    ASSUME NEW data, IsSeq(data), Plain(data), NEW es, IsSeq(es)
    PROVE  LET image == Finished(data, es, "v3") IN
           /\ \A n \in 0 .. Len(image) - 1 : ReadPack(SubSeq(image, 1, n)) = Corrupt
           /\ \A i \in DOMAIN image : ReadPack([image EXCEPT ![i] = Broken]) = Corrupt
           /\ \A g : /\ g.checksum = FooterOf(image).checksum
                     /\ g.magic \in {"v3", "v1", "v2", "other"}
                     /\ \/ g.index_offset # FooterOf(image).index_offset
                        \/ g.index_len # FooterOf(image).index_len
                        \/ g.magic # "v3"
                     => ReadPack(BodyOf(image) \o Bytes(Footer(g))) = Corrupt
<1> DEFINE body == data \o Bytes(Index(es, "v3"))
           f == FooterFor(data, es, "v3")
           b == Bytes(Footer(f))
           image == body \o b
           N == Len(body)
<1>1. /\ Finished(data, es, "v3") = image
      /\ IsSeq(body) /\ Plain(body)
  BY FinishedIs
<1>2. f = [index_offset |-> Len(data), index_len |-> Len(es) + 1, magic |-> "v3",
           checksum |-> <<body, Len(data), Len(es) + 1, "v3">>]
  BY DEF FooterFor
<1> HIDE DEF body, f
<1>3. /\ IsSeq(image) /\ Len(image) = N + FooterSize /\ N \in Nat
      /\ FooterOf(image) = f /\ BodyOf(image) = body
  BY <1>1, FooterIs
<1>4. FooterSize \in Nat \ {0}
  BY FormatSizes
<1>5. /\ IsSeq(b) /\ Len(b) = FooterSize
  <2>1. Footer(f).len = FooterSize
    BY DEF Footer
  <2>2. QED
    BY <1>4, <2>1, BytesAre
<1> HIDE DEF b
<1>6. \A i \in 1 .. N : image[i] = body[i] /\ image[i][1].form \notin {"footer", "broken"}
  <2>1. \A i \in 1 .. N : image[i] = body[i]
    BY <1>1, <1>5, Joined
  <2>2. QED
    BY <1>1, <2>1 DEF Plain
<1> HIDE DEF image
<1>7. ASSUME NEW n \in 0 .. Len(image) - 1
      PROVE  ReadPack(SubSeq(image, 1, n)) = Corrupt
  <2> DEFINE t == SubSeq(image, 1, n)
  <2>1. n \in Nat /\ n < N + FooterSize /\ n <= Len(image) /\ 1 <= n + 1 /\ (n - 1) + 1 = n
    BY <1>3, <1>4
  <2>2. IsSeq(t) /\ Len(t) = n /\ \A i \in 1 .. n : t[i] = image[i]
    <3>1. /\ IsSeq(t) /\ Len(t) = (n - 1) + 1
          /\ \A i \in 1 .. (n - 1) + 1 : t[i] = image[(1 + i) - 1]
      BY <1>3, <2>1, Cut
    <3> HIDE DEF t
    <3>2. \A i \in 1 .. n : (1 + i) - 1 = i
      BY <2>1
    <3>3. QED
      BY <2>1, <3>1, <3>2
  <2> HIDE DEF t
  <2>3. CASE n < FooterSize
    BY <2>2, <2>3 DEF ReadPack, t
  <2>4. CASE ~(n < FooterSize)
    <3> DEFINE i == (n - FooterSize) + 1
    <3>1. i \in 1 .. n /\ i \in 1 .. N /\ i > n - FooterSize
      BY <1>3, <1>4, <2>1, <2>4
    <3> HIDE DEF i
    <3>2. t[i][1].form # "footer"
      BY <1>6, <2>2, <3>1
    <3>3. ReadPack(t) = Corrupt
      BY <2>2, <3>1, <3>2, NoFooter
    <3>4. QED
      BY <3>3 DEF t
  <2>5. QED
    BY <2>3, <2>4
<1>8. ASSUME NEW i \in DOMAIN image
      PROVE  ReadPack([image EXCEPT ![i] = Broken]) = Corrupt
  <2> DEFINE t == [image EXCEPT ![i] = Broken]
  <2>0. i \in 1 .. Len(image)
    BY <1>3, SeqIs
  <2>1. PICK V : image \in Seq(V)
    BY <1>3 DEF IsSeq
  <2>2. IsSeq(t) /\ Len(t) = Len(image)
        /\ \A j \in 1 .. Len(image) : t[j] = IF j = i THEN Broken ELSE image[j]
    <3>1. image \in Seq(V \cup {Broken}) /\ Broken \in V \cup {Broken}
      BY <2>1, S!SeqMonotonic
    <3>2. t \in Seq(V \cup {Broken}) /\ Len(t) = Len(image)
          /\ \A j \in 1 .. Len(image) : t[j] = IF j = i THEN Broken ELSE image[j]
      BY <2>0, <3>1, S!ExceptSeq
    <3>3. QED
      BY <3>2 DEF IsSeq
  <2>3. t[i][1].form = "broken"
    BY <2>0, <2>2, BrokenIs
  <2> HIDE DEF t
  <2>4. CASE i > N
    <3>1. i \in 1 .. Len(t) /\ i > Len(t) - FooterSize
      BY <1>3, <1>4, <2>0, <2>2, <2>4
    <3>2. ReadPack(t) = Corrupt
      BY <2>2, <2>3, <3>1, NoFooter
    <3>3. QED
      BY <3>2 DEF t
  <2>5. CASE ~(i > N)
    <3>1. i \in 1 .. N
      BY <1>3, <2>0, <2>5
    <3>2. Len(t) - FooterSize = N /\ N + 1 <= Len(t) + 1 /\ Len(t) \in Nat
      BY <1>3, <1>4, <2>2
    <3>3. SubSeq(t, N + 1, Len(t)) = SubSeq(image, N + 1, Len(image))
      <4> DEFINE u == SubSeq(t, N + 1, Len(t))
                 w == SubSeq(image, N + 1, Len(image))
                 k == (Len(t) - (N + 1)) + 1
      <4>1. IsSeq(u) /\ Len(u) = k /\ \A j \in 1 .. k : u[j] = t[((N + 1) + j) - 1]
        BY <1>3, <2>2, <3>2, Cut
      <4>2. IsSeq(w) /\ Len(w) = k /\ \A j \in 1 .. k : w[j] = image[((N + 1) + j) - 1]
        BY <1>3, <2>2, <3>2, Cut
      <4>3. \A j \in 1 .. k : ((N + 1) + j) - 1 \in 1 .. Len(image) /\ ((N + 1) + j) - 1 # i
        BY <1>3, <2>2, <3>1, <3>2
      <4> HIDE DEF u, w, k
      <4>4. \A j \in 1 .. k : u[j] = w[j]
        BY <2>2, <4>1, <4>2, <4>3
      <4>5. u = w
        BY <4>1, <4>2, <4>4, SameSeq
      <4>6. QED
        BY <4>5 DEF u, w
    <3>4. FooterOf(t) = f
      BY <1>3, <2>2, <3>2, <3>3 DEF FooterOf
    <3>5. BodyOf(t)[i] = t[i]
      <4>1. \A j \in 1 .. (N - 1) + 1 : SubSeq(t, 1, N)[j] = t[(1 + j) - 1]
        BY <1>3, <2>2, <3>2, Cut
      <4>2. i \in 1 .. (N - 1) + 1 /\ (1 + i) - 1 = i
        BY <1>3, <3>1
      <4>3. QED
        BY <3>2, <4>1, <4>2 DEF BodyOf
    <3>6. BodyOf(t) # body
      <4>1. body[i][1].form # "broken"
        BY <1>6, <3>1
      <4>2. QED
        BY <2>3, <3>5, <4>1
    <3>7. Checksum(BodyOf(t), f) # f.checksum
      BY <1>2, <3>6 DEF Checksum
    <3>8. ReadPack(t) = Corrupt
      BY <3>4, <3>7 DEF ReadPack
    <3>9. QED
      BY <3>8 DEF t
  <2>6. QED
    BY <2>4, <2>5
<1>9. ASSUME NEW g, g.checksum = f.checksum, g.magic \in {"v3", "v1", "v2", "other"},
             \/ g.index_offset # f.index_offset
             \/ g.index_len # f.index_len
             \/ g.magic # "v3"
      PROVE  ReadPack(body \o Bytes(Footer(g))) = Corrupt
  <2> DEFINE t == body \o Bytes(Footer(g))
  <2>1. FooterOf(t) = g /\ BodyOf(t) = body
    BY <1>1, FooterIs
  <2> HIDE DEF t
  <2>2. CASE g.magic = "other"
    BY <2>1, <2>2 DEF ReadPack, t
  <2>3. CASE g.magic # "other"
    <3>1. Checksum(body, g) # g.checksum
      BY <1>2, <1>9, <2>3 DEF Checksum
    <3>2. QED
      BY <2>1, <3>1 DEF ReadPack, t
  <2>4. QED
    BY <2>2, <2>3
<1>10. QED
  BY <1>1, <1>3, <1>7, <1>8, <1>9

-----------------------------------------------------------------------------
(* Where chunks lie.                                                        *)

Entry == [hash : Chunk, type : {"raw", "full", "delta"}, base : Chunk \cup {None},
          offset : Nat, length : Nat \ {0}]

What(e) == [form |-> IF IsDelta(e) THEN "delta" ELSE IF e.type = "raw" THEN "raw" ELSE "zip",
            of   |-> IF IsDelta(e) THEN <<e.hash, e.base>> ELSE e.hash,
            len  |-> e.length]

Lies(e, s) == End(e) <= Len(s) /\ SubSeq(s, e.offset + 1, End(e)) = Bytes(What(e))

(* Every chunk is in the super-block and every delta in the file, and the   *)
(* last chunk ends where the super-block does.                              *)
Laid(es, blk, data) ==
    /\ \A k \in 1 .. Len(es) : Lies(es[k], IF IsDelta(es[k]) THEN data ELSE blk)
    /\ blk # <<>> => \E k \in 1 .. Len(es) : ~IsDelta(es[k]) /\ End(es[k]) = Len(blk)

(* The file begins with the frame of the super-block, and it ends before    *)
(* the first delta or where the data does.                                  *)
FrameFirst(n, es, blk, data) ==
    /\ IF blk = <<>> THEN n = 0 ELSE n # 0 /\ SubSeq(data, 1, n) = Bytes(Frame(blk, n))
    /\ \A k \in 1 .. Len(es) : IsDelta(es[k]) => n <= es[k].offset
    /\ n = Len(data) \/ \E k \in 1 .. Len(es) : IsDelta(es[k]) /\ es[k].offset = n

LEMMA EntryIs ==
    ASSUME NEW e \in Entry
    PROVE  /\ e.offset \in Nat /\ e.length \in Nat \ {0} /\ End(e) \in Nat
           /\ e.offset + 1 \in Nat \ {0} /\ e.offset + 1 <= End(e) /\ 1 <= End(e)
           /\ What(e).len = e.length /\ What(e).len \in Nat \ {0}
           /\ e.hash \in Chunk /\ e.base \in Chunk \cup {None}
           /\ e.type \in {"raw", "full", "delta"}
<1>1. e.offset \in Nat /\ e.length \in Nat \ {0} /\ e.hash \in Chunk
      /\ e.base \in Chunk \cup {None} /\ e.type \in {"raw", "full", "delta"}
  BY DEF Entry
<1>2. What(e).len = e.length
  BY DEF What
<1>3. QED
  BY <1>1, <1>2 DEF End

(* What lies in a sequence lies in a longer one.                            *)
LEMMA StillLies ==
    ASSUME NEW e \in Entry, NEW a, NEW b, IsSeq(a), IsSeq(b), Lies(e, a)
    PROVE  Lies(e, a \o b)
<1>1. e.offset + 1 \in Nat \ {0} /\ End(e) \in Nat /\ e.offset + 1 <= End(e) + 1
  BY EntryIs
<1>2. End(e) <= Len(a) /\ SubSeq(a, e.offset + 1, End(e)) = Bytes(What(e))
  BY DEF Lies
<1>3. SubSeq(a \o b, e.offset + 1, End(e)) = SubSeq(a, e.offset + 1, End(e))
  BY <1>1, <1>2, CutFirst
<1>4. Len(a \o b) = Len(a) + Len(b) /\ Len(a) \in Nat /\ Len(b) \in Nat
  BY Joined
<1>5. QED
  BY <1>1, <1>2, <1>3, <1>4 DEF Lies

(* What was appended lies behind the rest.                                  *)
LEMMA NowLies ==
    ASSUME NEW e \in Entry, NEW a, IsSeq(a), e.offset = Len(a)
    PROVE  Lies(e, a \o Bytes(What(e)))
<1> DEFINE b == Bytes(What(e))
<1>1. IsSeq(b) /\ Len(b) = e.length
  BY EntryIs, BytesAre
<1> HIDE DEF b
<1>2. SubSeq(a \o b, Len(a) + 1, Len(a) + Len(b)) = b
  BY <1>1, CutSecond
<1>3. Len(a \o b) = Len(a) + Len(b) /\ Len(a) \in Nat /\ Len(b) \in Nat
  BY <1>1, Joined
<1>4. End(e) = Len(a) + Len(b)
  BY <1>1 DEF End
<1>5. QED
  BY <1>2, <1>3, <1>4 DEF Lies, b

LEMMA SmallestIs ==
    ASSUME NEW V \in SUBSET Nat, NEW n \in V, \A k \in V : n <= k
    PROVE  Min(V) = n
<1>1. Min(V) \in V /\ \A k \in V : Min(V) <= k
  BY DEF Min
<1>2. Min(V) <= n /\ n <= Min(V) /\ Min(V) \in Nat /\ n \in Nat
  BY <1>1
<1>3. QED
  BY <1>2

LEMMA LargestIs ==
    ASSUME NEW V \in SUBSET Nat, NEW n \in V, \A k \in V : k <= n
    PROVE  Max(V) = n
<1>1. Max(V) \in V /\ \A k \in V : Max(V) >= k
  BY DEF Max
<1>2. Max(V) <= n /\ n <= Max(V) /\ Max(V) \in Nat /\ n \in Nat
  BY <1>1
<1>3. QED
  BY <1>2

LEMMA EntriesOf ==
    ASSUME NEW es \in Seq(Entry)
    PROVE  /\ Len(es) \in Nat /\ DOMAIN es = 1 .. Len(es) /\ IsSeq(es)
           /\ \A k \in 1 .. Len(es) : es[k] \in Entry
           /\ \A e : e \in Range(es) <=> \E k \in 1 .. Len(es) : e = es[k]
<1>1. Len(es) \in Nat /\ DOMAIN es = 1 .. Len(es)
  BY S!LenProperties
<1>2. \A k \in 1 .. Len(es) : es[k] \in Entry
  BY S!ElementOfSeq
<1>3. QED
  BY <1>1, <1>2 DEF IsSeq, Range

-----------------------------------------------------------------------------
(* Reading.                                                                 *)

(* An error is not a result, and neither is the absence of something: they  *)
(* are not functions, as sequences, tuples and records are.                 *)
NoFunction(x) == x # [i \in DOMAIN x |-> x[i]]

NoResult == NoFunction(Corrupt) /\ NoFunction(None) /\ Corrupt # None

LEMMA Results ==
    ASSUME NoResult
    PROVE  /\ \A x, y : [entries |-> x, superblock |-> y] # Corrupt
           /\ \A x, y : <<x, y>> # Corrupt
           /\ \A v, w, x, y : [index_offset |-> v, index_len |-> w, magic |-> x, checksum |-> y]
                              # Corrupt
           /\ \A e \in Entry : e # Corrupt
           /\ \A s : IsSeq(s) => s # Corrupt /\ s # None
<1>1. \A x : NoFunction(x) <=> x # [i \in DOMAIN x |-> x[i]]
  BY DEF NoFunction
<1>2. ASSUME NEW x, NEW y, [entries |-> x, superblock |-> y] = Corrupt
      PROVE  FALSE
  <2>1. [i \in DOMAIN Corrupt |-> Corrupt[i]] = Corrupt
    BY <1>2
  <2>2. QED
    BY <1>1, <2>1 DEF NoResult
<1>3. ASSUME NEW x, NEW y, <<x, y>> = Corrupt
      PROVE  FALSE
  <2>1. [i \in DOMAIN Corrupt |-> Corrupt[i]] = Corrupt
    BY <1>3
  <2>2. QED
    BY <1>1, <2>1 DEF NoResult
<1>4. ASSUME NEW v, NEW w, NEW x, NEW y,
             [index_offset |-> v, index_len |-> w, magic |-> x, checksum |-> y] = Corrupt
      PROVE  FALSE
  <2>1. [i \in DOMAIN Corrupt |-> Corrupt[i]] = Corrupt
    BY <1>4
  <2>2. QED
    BY <1>1, <2>1 DEF NoResult
<1>5. ASSUME NEW e \in Entry, e = Corrupt
      PROVE  FALSE
  <2>1. [i \in DOMAIN Corrupt |-> Corrupt[i]] = Corrupt
    BY <1>5 DEF Entry
  <2>2. QED
    BY <1>1, <2>1 DEF NoResult
<1>6. ASSUME NEW s, IsSeq(s)
      PROVE  s # Corrupt /\ s # None
  <2>1. PICK V : s \in Seq(V)
    BY <1>6 DEF IsSeq
  <2>2. [i \in DOMAIN s |-> s[i]] = s
    BY <2>1, S!LenProperties
  <2>3. QED
    BY <1>1, <2>2 DEF NoResult
<1>7. QED
  BY <1>2, <1>3, <1>4, <1>5, <1>6

(* The super-block is found again.                                          *)
LEMMA SuperblockIs ==
    ASSUME NoResult, NEW es \in Seq(Entry), NEW blk, IsSeq(blk),
           NEW data, IsSeq(data), NEW rest, IsSeq(rest),
           Laid(es, blk, data), NEW n \in 0 .. Len(data), FrameFirst(n, es, blk, data)
    PROVE  Superblock(data \o rest, es, Len(data)) = IF blk = <<>> THEN None ELSE blk
<1> DEFINE image == data \o rest
           offsets == {Len(data)} \cup {e.offset : e \in {x \in Range(es) : IsDelta(x)}}
           ends == {End(e) : e \in {x \in Range(es) : ~IsDelta(x)}}
           frame == SubSeq(image, 1, n)
<1>1. /\ Len(es) \in Nat /\ \A k \in 1 .. Len(es) : es[k] \in Entry
      /\ \A e : e \in Range(es) <=> \E k \in 1 .. Len(es) : e = es[k]
  BY EntriesOf
<1>2. Len(data) \in Nat /\ n \in Nat /\ n <= Len(data) /\ 1 <= n + 1
  BY SeqIs
<1>3. SuperblockEnd(es, Len(data)) = n
  <2>1. ASSUME NEW x \in offsets
        PROVE  x \in Nat /\ n <= x
    <3>1. CASE x = Len(data)
      BY <1>2, <3>1
    <3>2. CASE x # Len(data)
      <4>1. PICK k \in 1 .. Len(es) : IsDelta(es[k]) /\ x = es[k].offset
        BY <1>1, <3>2
      <4>2. x \in Nat
        BY <1>1, <4>1, EntryIs
      <4>3. QED
        BY <4>1, <4>2 DEF FrameFirst
    <3>3. QED
      BY <3>1, <3>2
  <2>2. n \in offsets
    <3>1. CASE n = Len(data)
      BY <3>1
    <3>2. CASE n # Len(data)
      <4>1. PICK k \in 1 .. Len(es) : IsDelta(es[k]) /\ es[k].offset = n
        BY <3>2 DEF FrameFirst
      <4>2. es[k] \in Range(es)
        BY <1>1
      <4>3. QED
        BY <4>1, <4>2
    <3>3. QED
      BY <3>1, <3>2
  <2>3. SuperblockEnd(es, Len(data)) = Min(offsets)
    BY DEF SuperblockEnd
  <2> HIDE DEF offsets
  <2>4. QED
    BY <2>1, <2>2, <2>3, SmallestIs
<1>4. IsSeq(frame) /\ Len(frame) = n /\ frame = SubSeq(data, 1, n)
  <2>1. frame = SubSeq(data, 1, n)
    BY <1>2, CutFirst
  <2>2. IsSeq(SubSeq(data, 1, n)) /\ Len(SubSeq(data, 1, n)) = (n - 1) + 1
    BY <1>2, Cut
  <2>3. (n - 1) + 1 = n
    BY <1>2
  <2>4. QED
    BY <2>1, <2>2, <2>3
<1>5. Superblock(image, es, Len(data)) =
        IF frame = <<>> THEN None
        ELSE IF \/ Whole(frame, "frame") = Corrupt
                \/ Len(Whole(frame, "frame")) # Max({0} \cup ends)
             THEN Corrupt ELSE Whole(frame, "frame")
  BY <1>3 DEF Superblock
<1> HIDE DEF image, frame
<1>6. CASE blk = <<>>
  <2>1. Len(frame) = 0
    BY <1>4, <1>6 DEF FrameFirst
  <2>2. frame = <<>>
    BY <1>4, <2>1, S!EmptySeq DEF IsSeq
  <2>3. QED
    BY <1>5, <1>6, <2>2 DEF image
<1>7. CASE blk # <<>>
  <2>1. n \in Nat \ {0} /\ frame = Bytes(Frame(blk, n))
    BY <1>2, <1>4, <1>7 DEF FrameFirst
  <2>2. frame # <<>>
    BY <1>4, <2>1
  <2>3. Whole(frame, "frame") = blk
    <3>1. Frame(blk, n).len = n /\ Frame(blk, n).form = "frame" /\ Frame(blk, n).of = blk
      BY DEF Frame
    <3>2. Frame(blk, n).len \in Nat \ {0}
      BY <2>1, <3>1
    <3>3. Whole(Bytes(Frame(blk, n)), Frame(blk, n).form) = Frame(blk, n).of
      BY <3>2, WholeOf
    <3>4. QED
      BY <2>1, <3>1, <3>3
  <2>4. Max({0} \cup ends) = Len(blk)
    <3>0. Len(blk) \in Nat
      BY SeqIs
    <3>1. ASSUME NEW x \in ends
          PROVE  x \in Nat /\ x <= Len(blk)
      <4>1. PICK k \in 1 .. Len(es) : ~IsDelta(es[k]) /\ x = End(es[k])
        BY <1>1
      <4>2. Lies(es[k], blk)
        BY <4>1 DEF Laid
      <4>3. QED
        BY <1>1, <4>1, <4>2, EntryIs DEF Lies
    <3>2. Len(blk) \in ends
      <4>1. PICK k \in 1 .. Len(es) : ~IsDelta(es[k]) /\ End(es[k]) = Len(blk)
        BY <1>7 DEF Laid
      <4>2. es[k] \in Range(es)
        BY <1>1
      <4>3. QED
        BY <4>1, <4>2
    <3> HIDE DEF ends
    <3>3. {0} \cup ends \in SUBSET Nat /\ Len(blk) \in {0} \cup ends
          /\ \A x \in {0} \cup ends : x <= Len(blk)
      BY <3>0, <3>1, <3>2
    <3> DEFINE W == {0} \cup ends
    <3> HIDE DEF W
    <3>4. W \in SUBSET Nat /\ Len(blk) \in W /\ \A x \in W : x <= Len(blk)
      BY <3>3 DEF W
    <3>5. Max(W) = Len(blk)
      BY <3>4, LargestIs
    <3>6. QED
      BY <3>5 DEF W
  <2>5. blk # Corrupt
    BY Results
  <2>6. QED
    BY <1>5, <1>7, <2>2, <2>3, <2>4, <2>5 DEF image
<1>8. QED
  BY <1>6, <1>7

(* A pack of any format is read as what was written.                        *)
LEMMA PackIs ==
    ASSUME NoResult, NEW es \in Seq(Entry), NEW blk, IsSeq(blk),
           NEW data, IsSeq(data), Plain(data), NEW v \in {"v1", "v2", "v3"},
           v = "v3" => Laid(es, blk, data)
                       /\ \E n \in 0 .. Len(data) : FrameFirst(n, es, blk, data)
    PROVE  ReadPack(Finished(data, es, v))
           = [entries |-> es, superblock |-> IF v = "v3" /\ blk # <<>> THEN blk ELSE None]
<1> DEFINE body == data \o Bytes(Index(es, v))
           f == FooterFor(data, es, v)
           image == body \o Bytes(Footer(f))
           sb == IF v = "v3" THEN Superblock(image, es, f.index_offset) ELSE None
<1>0. IsSeq(es) /\ Len(es) \in Nat
  BY EntriesOf
<1>1. /\ Finished(data, es, v) = image
      /\ IsSeq(body) /\ Len(body) = Len(data) + (Len(es) + 1)
      /\ Len(data) \in Nat
      /\ Checksum(body, f) = f.checksum
      /\ ReadIndex(body, f) = es
  BY <1>0, FinishedIs
<1>2. f.index_offset = Len(data) /\ f.index_len = Len(es) + 1 /\ f.magic = v /\ f # Corrupt
  BY Results DEF FooterFor
<1>3. sb = IF v = "v3" /\ blk # <<>> THEN blk ELSE None
  <2>1. CASE v = "v3"
    <3> DEFINE b == Bytes(Index(es, v))
               c == Bytes(Footer(f))
    <3>1. IsSeq(b)
      BY <1>0, IndexIs
    <3>2. IsSeq(c)
      <4>1. Footer(f).len = FooterSize
        BY DEF Footer
      <4>2. QED
        BY <4>1, FormatSizes, BytesAre
    <3> HIDE DEF b, c
    <3>3. IsSeq(b \o c)
      BY <3>1, <3>2, Joined
    <3>4. (data \o b) \o c = data \o (b \o c)
      <4>1. PICK U : data \in Seq(U)
        BY DEF IsSeq
      <4>2. PICK V : b \in Seq(V)
        BY <3>1 DEF IsSeq
      <4>3. PICK W : c \in Seq(W)
        BY <3>2 DEF IsSeq
      <4>4. /\ data \in Seq(U \cup V \cup W)
            /\ b \in Seq(U \cup V \cup W)
            /\ c \in Seq(U \cup V \cup W)
        BY <4>1, <4>2, <4>3, S!SeqMonotonic
      <4>5. QED
        BY <4>4, S!ConcatAssociative
    <3>5. PICK n \in 0 .. Len(data) : FrameFirst(n, es, blk, data)
      BY <2>1
    <3>6. Superblock(data \o (b \o c), es, Len(data)) = IF blk = <<>> THEN None ELSE blk
      BY <2>1, <3>3, <3>5, SuperblockIs
    <3>7. image = data \o (b \o c)
      BY <3>4 DEF b, c
    <3> HIDE DEF image
    <3>8. QED
      BY <1>2, <2>1, <3>6, <3>7
  <2>2. CASE v # "v3"
    BY <2>2
  <2>3. QED
    BY <2>1, <2>2
<1> HIDE DEF body, f
<1>4. FooterOf(image) = f /\ BodyOf(image) = body /\ Len(image) = Len(body) + FooterSize
      /\ Len(body) \in Nat
  BY <1>1, FooterIs
<1>5. ~(Len(image) < FooterSize)
  BY <1>4, FormatSizes
<1>6. es # Corrupt /\ blk # Corrupt /\ None # Corrupt
  BY <1>0, Results DEF NoResult
<1>7. f.index_offset + f.index_len <= Len(body)
  BY <1>0, <1>1, <1>2
<1> HIDE DEF image
<1>8. sb # Corrupt
  BY <1>3, <1>6
<1>9. sb = IF f.magic = "v3"
           THEN Superblock(image, ReadIndex(BodyOf(image), FooterOf(image)), f.index_offset)
           ELSE None
  BY <1>1, <1>2, <1>4
<1> HIDE DEF sb
<1>10. ReadPack(image) = [entries |-> es, superblock |-> sb]
  <2>1. ~(f.index_offset + f.index_len > Len(body))
    <3>1. f.index_offset + f.index_len \in Nat
      BY <1>0, <1>1, <1>2
    <3>2. QED
      BY <1>4, <1>7, <3>1
  <2>2. QED
    BY <1>1, <1>2, <1>4, <1>5, <1>6, <1>8, <1>9, <2>1 DEF ReadPack
<1>11. QED
  BY <1>1, <1>3, <1>10

(* A chunk is read from where it lies.                                      *)
LEMMA ChunkIs ==
    ASSUME NoResult, NEW e \in Entry, NEW data, NEW sb,
           NEW s, s = IF IsDelta(e) \/ sb = None THEN data ELSE sb, IsSeq(s), Lies(e, s)
    PROVE  ReadChunkData(data, sb, e, e.hash) = e.hash
<1> DEFINE w == What(e)
           bytes == IF IsDelta(e) \/ sb = None THEN Slice(data, e) ELSE Slice(sb, e)
           chunk == IF IsDelta(e)
                    THEN LET d == Whole(bytes, "delta") IN
                         IF d # Corrupt /\ d[2] = e.base THEN d[1] ELSE Corrupt
                    ELSE Whole(bytes, IF e.type = "raw" THEN "raw" ELSE "zip")
<1>1. w.len \in Nat \ {0} /\ End(e) \in Nat
  BY EntryIs
<1>2. w.form = (IF IsDelta(e) THEN "delta" ELSE IF e.type = "raw" THEN "raw" ELSE "zip")
      /\ w.of = IF IsDelta(e) THEN <<e.hash, e.base>> ELSE e.hash
  BY DEF What
<1>3. bytes = Slice(s, e)
  OBVIOUS
<1>4. bytes = Bytes(w)
  <2>1. SubSeq(s, e.offset + 1, End(e)) = Bytes(w) /\ End(e) <= Len(s) /\ Len(s) \in Nat
    BY SeqIs DEF Lies
  <2>2. ~(End(e) > Len(s))
    BY <1>1, <2>1
  <2> HIDE DEF w, bytes
  <2>3. QED
    BY <1>3, <2>1, <2>2 DEF Slice
<1>5. Whole(bytes, w.form) = w.of
  BY <1>1, <1>4, WholeOf
<1>6. <<e.hash, e.base>> # Corrupt
  BY Results
<1> HIDE DEF w, bytes
<1>7. chunk = e.hash
  BY <1>2, <1>5, <1>6
<1>8. ReadChunkData(data, sb, e, e.hash) = IF chunk = e.hash THEN chunk ELSE Corrupt
  BY DEF ReadChunkData, bytes
<1>9. QED
  BY <1>7, <1>8

(* A pack from which every entry of its index can be read.                  *)
Packed(data, v, es, blk) ==
    /\ v \in {"v1", "v2", "v3"} /\ IsSeq(data) /\ Plain(data) /\ IsSeq(blk)
    /\ es \in Seq(Entry)
    /\ IF v = "v3"
       THEN Laid(es, blk, data) /\ \E n \in 0 .. Len(data) : FrameFirst(n, es, blk, data)
       ELSE \A k \in 1 .. Len(es) : Lies(es[k], data)

LEMMA EveryEntryReads ==
    ASSUME NoResult, NEW data, NEW v, NEW es, NEW blk, Packed(data, v, es, blk),
           NEW k \in 1 .. Len(es)
    PROVE  LET image == Finished(data, es, v)
               p == ReadPack(image)
           IN  /\ p # Corrupt /\ p.entries = es
               /\ ReadChunkData(image, p.superblock, es[k], es[k].hash) = es[k].hash
<1> DEFINE image == Finished(data, es, v)
           p == ReadPack(image)
           sb == IF v = "v3" /\ blk # <<>> THEN blk ELSE None
<1>1. /\ v \in {"v1", "v2", "v3"} /\ IsSeq(data) /\ Plain(data) /\ IsSeq(blk)
      /\ es \in Seq(Entry)
  BY DEF Packed
<1>2. p = [entries |-> es, superblock |-> sb]
  <2>1. v = "v3" => Laid(es, blk, data) /\ \E n \in 0 .. Len(data) : FrameFirst(n, es, blk, data)
    BY DEF Packed
  <2> HIDE DEF image
  <2>2. QED
    BY <1>1, <2>1, PackIs DEF image
<1>3. p # Corrupt /\ p.entries = es /\ p.superblock = sb
  <2> HIDE DEF p, sb
  <2>1. QED
    BY <1>2, Results
<1>4. es[k] \in Entry /\ IsSeq(es)
  BY <1>1, EntriesOf
<1>5. ASSUME NEW e \in Entry, Lies(e, data)
      PROVE  Lies(e, image)
  <2> DEFINE b == Bytes(Index(es, v))
             f == FooterFor(data, es, v)
             c == Bytes(Footer(f))
  <2>1. IsSeq(b)
    BY <1>4, IndexIs
  <2>2. IsSeq(c)
    <3>1. Footer(f).len = FooterSize
      BY DEF Footer
    <3>2. QED
      BY <3>1, FormatSizes, BytesAre
  <2>3. image = (data \o b) \o c /\ IsSeq(data \o b)
    BY <1>1, <1>4, FinishedIs
  <2> HIDE DEF b, c, image
  <2>4. Lies(e, data \o b)
    BY <1>1, <1>5, <2>1, StillLies
  <2>5. QED
    BY <2>2, <2>3, <2>4, StillLies
<1>6. blk # None
  BY <1>1, Results
<1>0. IsSeq(image)
  <2>1. IsSeq(data \o Bytes(Index(es, v)))
        /\ image = (data \o Bytes(Index(es, v))) \o Bytes(Footer(FooterFor(data, es, v)))
    BY <1>1, <1>4, FinishedIs
  <2> HIDE DEF image
  <2>2. QED
    BY <2>1, FooterIs
<1> HIDE DEF image, p
<1>7. LET x == IF IsDelta(es[k]) \/ sb = None THEN image ELSE sb IN
      Lies(es[k], x) /\ IsSeq(x)
  <2>1. CASE v # "v3"
    <3>1. Lies(es[k], data)
      BY <2>1 DEF Packed
    <3>2. Lies(es[k], image)
      BY <1>4, <1>5, <3>1
    <3>3. QED
      BY <1>0, <2>1, <3>2
  <2>2. CASE v = "v3"
    <3>1. Lies(es[k], IF IsDelta(es[k]) THEN data ELSE blk)
      BY <2>2 DEF Packed, Laid
    <3>2. CASE IsDelta(es[k])
      <4>1. Lies(es[k], image)
        BY <1>4, <1>5, <3>1, <3>2
      <4>2. QED
        BY <1>0, <3>2, <4>1
    <3>3. CASE ~IsDelta(es[k])
      <4>1. Lies(es[k], blk)
        BY <3>1, <3>3
      <4>2. blk # <<>>
        <5>1. End(es[k]) <= Len(blk) /\ 1 <= End(es[k]) /\ End(es[k]) \in Nat
          BY <1>4, <4>1, EntryIs DEF Lies
        <5>2. Len(<<>>) = 0
          OBVIOUS
        <5>3. ASSUME blk = <<>>
              PROVE  FALSE
          BY <5>1, <5>2, <5>3
        <5>4. QED
          BY <5>3
      <4>3. sb = blk /\ sb # None
        BY <1>6, <2>2, <4>2
      <4>4. QED
        BY <1>1, <3>3, <4>1, <4>3
    <3>4. QED
      BY <3>2, <3>3
  <2>3. QED
    BY <2>1, <2>2
<1> HIDE DEF sb
<1>8. ReadChunkData(image, sb, es[k], es[k].hash) = es[k].hash
  <2> DEFINE x == IF IsDelta(es[k]) \/ sb = None THEN image ELSE sb
  <2>1. x = (IF IsDelta(es[k]) \/ sb = None THEN image ELSE sb) /\ Lies(es[k], x) /\ IsSeq(x)
    BY <1>7
  <2> HIDE DEF x
  <2>2. QED
    BY <1>4, <2>1, ChunkIs
<1>9. QED
  BY <1>3, <1>8 DEF p, image

(* A scan that accepts one entry ends there.                                *)
LEMMA FirstIs ==
    ASSUME NEW es, NEW k \in Nat
    PROVE  FirstEntry(es, {k}) = es[k]
<1>1. Min({k}) = k
  BY SmallestIs
<1>2. QED
  BY <1>1 DEF FirstEntry

UniqueHashes(es) == \A k, l \in 1 .. Len(es) : es[k].hash = es[l].hash => k = l

LEMMA ReadsByHash ==
    ASSUME NoResult, NEW data, NEW v, NEW es, NEW blk, Packed(data, v, es, blk),
           UniqueHashes(es), NEW k \in 1 .. Len(es)
    PROVE  GetByHash(Finished(data, es, v), es[k].hash) = es[k].hash
<1> DEFINE image == Finished(data, es, v)
           p == ReadPack(image)
           accepts == {i \in DOMAIN p.entries : p.entries[i].hash = es[k].hash}
<1>1. /\ p # Corrupt /\ p.entries = es
      /\ ReadChunkData(image, p.superblock, es[k], es[k].hash) = es[k].hash
  BY EveryEntryReads
<1> HIDE DEF image, p
<1>2. DOMAIN es = 1 .. Len(es) /\ es[k] \in Entry /\ Len(es) \in Nat
  BY EntriesOf DEF Packed
<1>3. accepts = {k}
  BY <1>1, <1>2 DEF UniqueHashes
<1>4. FirstEntry(p.entries, accepts) = es[k]
  BY <1>1, <1>2, <1>3, FirstIs
<1>5. es[k] # Corrupt
  BY <1>2, Results
<1>6. GetByHash(image, es[k].hash)
      = IF p = Corrupt \/ FirstEntry(p.entries, accepts) = Corrupt THEN Corrupt
        ELSE ReadChunkData(image, p.superblock, FirstEntry(p.entries, accepts), es[k].hash)
  BY DEF GetByHash, p
<1> HIDE DEF accepts
<1>7. GetByHash(image, es[k].hash) = es[k].hash
  BY <1>1, <1>4, <1>5, <1>6
<1>8. QED
  BY <1>7 DEF image

LEMMA ReadsByPlace ==
    ASSUME NoResult, NEW data, NEW v, NEW es, NEW blk, Packed(data, v, es, blk),
           UniqueHashes(es), NEW k \in 1 .. Len(es),
           \A l \in 1 .. Len(es) : SamePlace(es[l], es[k]) => es[l] = es[k]
    PROVE  GetByPlace(Finished(data, es, v), es[k].hash, es[k]) = es[k].hash
<1> DEFINE image == Finished(data, es, v)
           p == ReadPack(image)
           e == es[k]
           accepts == {i \in DOMAIN p.entries : SamePlace(p.entries[i], e)}
<1>1. /\ p # Corrupt /\ p.entries = es
      /\ ReadChunkData(image, p.superblock, e, e.hash) = e.hash
  BY EveryEntryReads
<1> HIDE DEF image, p
<1>2. DOMAIN es = 1 .. Len(es) /\ e \in Entry /\ Len(es) \in Nat
  BY EntriesOf DEF Packed
<1>3. accepts = {k}
  <2>1. SamePlace(e, e)
    BY DEF SamePlace
  <2>2. \A l \in 1 .. Len(es) : SamePlace(es[l], es[k]) => l = k
    BY DEF UniqueHashes
  <2>3. QED
    BY <1>1, <1>2, <2>1, <2>2
<1>4. FirstEntry(p.entries, accepts) = e
  BY <1>1, <1>2, <1>3, FirstIs
<1>5. e # Corrupt
  BY <1>2, Results
<1>6. [e EXCEPT !.offset = e.offset, !.length = e.length] = e
  BY <1>2 DEF Entry
<1>7. GetByPlace(image, e.hash, e)
      = LET x == FirstEntry(p.entries, accepts) IN
        IF p = Corrupt \/ x = Corrupt THEN Corrupt
        ELSE ReadChunkData(image, p.superblock,
                           [x EXCEPT !.offset = e.offset, !.length = e.length], e.hash)
  BY DEF GetByPlace, p
<1> HIDE DEF accepts, e
<1>8. GetByPlace(image, e.hash, e) = e.hash
  BY <1>1, <1>4, <1>5, <1>6, <1>7
<1>9. QED
  BY <1>8 DEF image, e

-----------------------------------------------------------------------------
(* A function can be defined step by step on an initial segment of Nat.     *)

LEMMA Least ==
    ASSUME NEW V \in SUBSET Nat, V # {}
    PROVE  \E m \in V : \A k \in V : m <= k
<1> DEFINE R == {e \in Nat \X Nat : e[1] < e[2]}
<1>1. IsWellFoundedOn(R, Nat)
  BY NatLessThanWellFounded DEF OpToRel
<1> HIDE DEF R
<1>2. PICK m \in V : \A k \in V : ~(<<k, m>> \in R)
  BY <1>1, WFMin
<1>3. ASSUME NEW k \in V
      PROVE  m <= k
  <2>1. m \in Nat /\ k \in Nat
    OBVIOUS
  <2>2. ~(k < m)
    BY <1>2, <2>1 DEF R
  <2>3. QED
    BY <2>1, <2>2
<1>4. QED
  BY <1>3

LEMMA UpTo ==
    ASSUME NEW N \in Nat, NEW G,
           0 \in G, \A n \in 1 .. N : n - 1 \in G => n \in G
    PROVE  \A n \in 0 .. N : n \in G
<1> DEFINE V == {n \in 0 .. N : n \notin G}
<1>1. CASE V # {}
  <2>0. V \in SUBSET Nat
    OBVIOUS
  <2>1. PICK m \in V : \A k \in V : m <= k
    <3> HIDE DEF V
    <3>1. QED
      BY <1>1, <2>0, Least
  <2>2. m \in 1 .. N /\ m - 1 \in 0 .. N
    BY <2>1
  <2>3. m - 1 \in G
    <3>1. ~(m <= m - 1)
      BY <2>2
    <3>2. QED
      BY <2>1, <2>2, <3>1
  <2>4. QED
    BY <2>1, <2>2, <2>3
<1>2. QED
  BY <1>1

LEMMA Iteration ==
    ASSUME NEW X, NEW b \in X, NEW N \in Nat, NEW s \in [1 .. N -> [X -> X]]
    PROVE  \E f \in [0 .. N -> X] : f[0] = b /\ \A n \in 1 .. N : f[n] = s[n][f[n - 1]]
<1> DEFINE Upto(f, m) == f[0] = b /\ \A n \in 1 .. m : f[n] = s[n][f[n - 1]]
           G == {m \in 0 .. N : \E f \in [0 .. m -> X] : Upto(f, m)}
<1>1. 0 \in G
  <2> DEFINE f == [n \in 0 .. 0 |-> b]
  <2>1. f \in [0 .. 0 -> X] /\ Upto(f, 0)
    OBVIOUS
  <2> HIDE DEF f
  <2>2. QED
    BY <2>1
<1>2. ASSUME NEW m \in 1 .. N, m - 1 \in G
      PROVE  m \in G
  <2>1. PICK f \in [0 .. (m - 1) -> X] : Upto(f, m - 1)
    BY <1>2
  <2> DEFINE g == [n \in 0 .. m |-> IF n = m THEN s[m][f[m - 1]] ELSE f[n]]
  <2>2. m \in Nat \ {0} /\ m - 1 \in 0 .. (m - 1) /\ 0 \in 0 .. (m - 1)
    OBVIOUS
  <2>3. f[m - 1] \in X
    BY <2>1, <2>2
  <2>4. s[m][f[m - 1]] \in X
    BY <2>3
  <2>5. \A n \in 0 .. m : n # m => n \in 0 .. (m - 1)
    BY <2>2
  <2>6. g \in [0 .. m -> X]
    BY <2>1, <2>4, <2>5
  <2>7. \A n \in 0 .. (m - 1) : g[n] = f[n]
    BY <2>2
  <2>8. g[m] = s[m][f[m - 1]]
    BY <2>2
  <2> HIDE DEF g
  <2>9. g[0] = b
    BY <2>1, <2>2, <2>7
  <2>10. ASSUME NEW n \in 1 .. m
         PROVE  g[n] = s[n][g[n - 1]]
    <3>1. n - 1 \in 0 .. (m - 1)
      BY <2>2
    <3>2. g[n - 1] = f[n - 1]
      BY <2>7, <3>1
    <3>3. CASE n = m
      BY <2>8, <3>2, <3>3
    <3>4. CASE n # m
      <4>1. n \in 1 .. (m - 1) /\ n \in 0 .. (m - 1)
        BY <2>2, <3>4
      <4>2. f[n] = s[n][f[n - 1]]
        BY <2>1, <4>1
      <4>3. QED
        BY <2>7, <3>2, <4>1, <4>2
    <3>5. QED
      BY <3>3, <3>4
  <2>11. Upto(g, m)
    BY <2>9, <2>10
  <2>12. m \in 0 .. N
    OBVIOUS
  <2>13. QED
    BY <2>6, <2>11, <2>12
<1>3. N \in G
  <2> HIDE DEF G
  <2>1. \A n \in 0 .. N : n \in G
    BY <1>1, <1>2, UpTo
  <2>2. QED
    BY <2>1
<1>4. QED
  BY <1>3


-----------------------------------------------------------------------------
(* Writing.                                                                 *)

(* The entries to write, and those of the index.                            *)
LEMMA InputIs ==
    ASSUME NEW s \in Seq(Full \cup Deltas), NEW i \in 1 .. Len(s)
    PROVE  /\ s[i].hash \in Chunk /\ s[i].type \in {"full", "delta"}
           /\ s[i].base \in Chunk \cup {None} /\ s[i].len \in Nat \ {0}
<1>1. s[i] \in Full \cup Deltas
  BY S!ElementOfSeq
<1>2. ZipLens \cup DeltaLens \subseteq Nat \ {0}
  BY FormatSizes
<1>3. CASE s[i] \in Full
  BY <1>2, <1>3 DEF Full
<1>4. CASE s[i] \in Deltas
  BY <1>2, <1>4 DEF Deltas
<1>5. QED
  BY <1>1, <1>3, <1>4

LEMMA IndexEntryIs ==
    ASSUME NEW e, e.hash \in Chunk, e.base \in Chunk \cup {None},
           NEW type \in {"raw", "full", "delta"}, NEW offset \in Nat, NEW length \in Nat \ {0},
           NEW x, x = IndexEntry(e, type, offset, length)
    PROVE  /\ x \in Entry /\ x.hash = e.hash /\ x.base = e.base /\ x.type = type
           /\ x.offset = offset /\ x.length = length
BY DEF IndexEntry, Entry

(* OldData is the sequence of what its recursion says.                      *)
LEMMA OldDataSteps ==
    ASSUME NEW s \in Seq(Full \cup Deltas)
    PROVE  /\ OldData(s)[0] = <<>>
           /\ \A n \in 1 .. Len(s) : OldData(s)[n] = OldData(s)[n - 1] \o Bytes(OldBytes(s[n]))
<1> DEFINE L == Len(s)
           Body(k) == [n \in 0 .. L |->
                          IF n = 0 THEN <<>> ELSE k[n - 1] \o Bytes(OldBytes(s[n]))]
           data == CHOOSE k : k = Body(k)
           b[n \in 1 .. L] == Bytes(OldBytes(s[n]))
           X == Seq(UNION {{b[n][i] : i \in 1 .. Len(b[n])} : n \in 1 .. L})
           step == [n \in 1 .. L |-> [q \in X |-> q \o b[n]]]
<1>1. OldData(s) = data
  BY DEF OldData
<1>2. L \in Nat
  BY S!LenProperties
<1>3. \A n \in 1 .. L : IsSeq(Bytes(OldBytes(s[n])))
  <2>1. ASSUME NEW n \in 1 .. L
        PROVE  IsSeq(Bytes(OldBytes(s[n])))
    <3>1. OldBytes(s[n]).len = s[n].len
      BY DEF OldBytes, Delta, Zipped
    <3>2. s[n].len \in Nat
      BY InputIs
    <3>3. QED
      BY <3>1, <3>2, BytesAre
  <2>2. QED
    BY <2>1
<1>4. step \in [1 .. L -> [X -> X]]
  <2>0. \A n \in 1 .. L : b[n] = Bytes(OldBytes(s[n]))
    OBVIOUS
  <2> HIDE DEF b
  <2>1. ASSUME NEW n \in 1 .. L
        PROVE  b[n] \in X
    <3>1. IsSeq(b[n])
      BY <1>3, <2>0
    <3>2. PICK V : b[n] \in Seq(V)
      BY <3>1 DEF IsSeq
    <3>3. b[n] = [i \in 1 .. Len(b[n]) |-> b[n][i]] /\ Len(b[n]) \in Nat
      BY <3>2, S!LenProperties
    <3>4. \A i \in 1 .. Len(b[n]) :
             b[n][i] \in UNION {{b[m][j] : j \in 1 .. Len(b[m])} : m \in 1 .. L}
      OBVIOUS
    <3> DEFINE c == b[n]
               U == UNION {{b[m][j] : j \in 1 .. Len(b[m])} : m \in 1 .. L}
    <3> HIDE DEF c, U
    <3>5. c = [i \in 1 .. Len(c) |-> c[i]] /\ Len(c) \in Nat /\ \A i \in 1 .. Len(c) : c[i] \in U
      BY <3>3, <3>4 DEF c, U
    <3>6. c \in Seq(U)
      BY <3>5, IsASequence
    <3>7. QED
      BY <3>6 DEF c, U
  <2>2. \A n \in 1 .. L : \A q \in X : q \o b[n] \in X
    BY <2>1, S!ConcatProperties
  <2> HIDE DEF L, X
  <2>3. QED
    BY <2>2
<1>5. <<>> \in X
  OBVIOUS
<1>6. PICK f \in [0 .. L -> X] : f[0] = <<>> /\ \A n \in 1 .. L : f[n] = step[n][f[n - 1]]
  <2> DEFINE first == <<>>
  <2>1. step \in [1 .. L -> [X -> X]] /\ first \in X /\ L \in Nat
    <3> HIDE DEF L, step, X
    <3>1. QED
      BY <1>2, <1>4, <1>5
  <2> HIDE DEF L, step, X, first, b
  <2>2. \E f \in [0 .. L -> X] : f[0] = first /\ \A n \in 1 .. L : f[n] = step[n][f[n - 1]]
    BY <2>1, Iteration, Z3T(60)
  <2>3. QED
    BY <2>2 DEF first
<1>7. ASSUME NEW n \in 1 .. L
      PROVE  f[n] = f[n - 1] \o Bytes(OldBytes(s[n]))
  <2>1. n - 1 \in 0 .. L
    BY <1>2
  <2>2. f[n - 1] \in X
    BY <1>6, <2>1
  <2>3. b[n] = Bytes(OldBytes(s[n]))
    OBVIOUS
  <2> HIDE DEF L, X, b
  <2>4. step[n][f[n - 1]] = f[n - 1] \o b[n]
    BY <2>2
  <2>5. QED
    BY <1>6, <2>3, <2>4
<1> HIDE DEF step, X, b
<1>8. f = Body(f)
  <2> HIDE DEF L
  <2>1. ASSUME NEW n \in 0 .. L
        PROVE  f[n] = Body(f)[n]
    <3>1. CASE n = 0
      BY <1>6, <3>1
    <3>2. CASE n # 0
      <4>1. n \in 1 .. L
        BY <1>2, <3>2
      <4>2. QED
        BY <1>7, <3>2, <4>1
    <3>3. QED
      BY <3>1, <3>2
  <2>2. QED
    BY <2>1, <1>6
<1>9. data = Body(data)
  BY <1>8
<1> HIDE DEF data, L
<1>10. data[0] = <<>> /\ \A n \in 1 .. L : data[n] = data[n - 1] \o Bytes(OldBytes(s[n]))
  <2>1. \A n \in 0 .. L : data[n] = Body(data)[n]
    BY <1>9
  <2>2. 0 \in 0 .. L /\ \A n \in 1 .. L : n \in 0 .. L /\ n # 0
    BY <1>2
  <2>3. Body(data)[0] = <<>>
    BY <2>2
  <2>4. \A n \in 1 .. L : Body(data)[n] = data[n - 1] \o Bytes(OldBytes(s[n]))
    BY <2>2
  <2>5. QED
    BY <2>1, <2>2, <2>3, <2>4
<1>11. QED
  BY <1>1, <1>10 DEF L

OldEntry(s, i) == IndexEntry(s[i], s[i].type, Len(OldData(s)[i - 1]), s[i].len)

(* In the older formats every chunk lies where the data was before it.      *)
LEMMA OldDataIs ==
    ASSUME NEW s \in Seq(Full \cup Deltas)
    PROVE  /\ IsSeq(OldData(s)[Len(s)]) /\ Plain(OldData(s)[Len(s)])
           /\ \A i \in 1 .. Len(s) :
                 OldEntry(s, i) \in Entry /\ Lies(OldEntry(s, i), OldData(s)[Len(s)])
                 /\ OldEntry(s, i).hash = s[i].hash
<1> DEFINE L == Len(s)
           data == OldData(s)
           Good(n) == /\ IsSeq(data[n]) /\ Plain(data[n])
                      /\ \A i \in 1 .. n : OldEntry(s, i) \in Entry
                                           /\ Lies(OldEntry(s, i), data[n])
                                           /\ OldEntry(s, i).hash = s[i].hash
           G == {n \in 0 .. L : Good(n)}
<1>1. L \in Nat
  BY S!LenProperties
<1>2. data[0] = <<>> /\ \A n \in 1 .. L : data[n] = data[n - 1] \o Bytes(OldBytes(s[n]))
  BY OldDataSteps
<1> HIDE DEF data
<1>3. 0 \in G
  <2>1. IsSeq(data[0]) /\ Len(data[0]) = 0
    BY <1>2 DEF IsSeq
  <2>2. Plain(data[0])
    BY <2>1 DEF Plain
  <2>3. QED
    BY <1>1, <2>1, <2>2
<1>4. ASSUME NEW n \in 1 .. L, n - 1 \in G
      PROVE  n \in G
  <2> DEFINE e == OldEntry(s, n)
             a == data[n - 1]
  <2>1. /\ s[n].hash \in Chunk /\ s[n].type \in {"full", "delta"}
        /\ s[n].base \in Chunk \cup {None} /\ s[n].len \in Nat \ {0}
    BY InputIs
  <2>2. /\ IsSeq(a) /\ Plain(a)
        /\ \A i \in 1 .. n - 1 : OldEntry(s, i) \in Entry /\ Lies(OldEntry(s, i), a)
                                 /\ OldEntry(s, i).hash = s[i].hash
    BY <1>4
  <2>3. Len(a) \in Nat
    BY <2>2, SeqIs
  <2>4. e = IndexEntry(s[n], s[n].type, Len(a), s[n].len)
    BY DEF OldEntry, data
  <2> HIDE DEF e, a
  <2>5. /\ e \in Entry /\ e.hash = s[n].hash /\ e.base = s[n].base /\ e.type = s[n].type
        /\ e.offset = Len(a) /\ e.length = s[n].len
    BY <2>1, <2>3, <2>4, IndexEntryIs
  <2>6. What(e) = OldBytes(s[n])
    BY <2>1, <2>5 DEF OldBytes, Zipped, Delta, What, IsDelta
  <2>7. What(e).len \in Nat \ {0} /\ What(e).form \notin {"footer", "broken"}
    BY <2>5, EntryIs DEF What
  <2>8. /\ IsSeq(Bytes(What(e))) /\ Plain(Bytes(What(e)))
    <3>1. /\ IsSeq(Bytes(What(e))) /\ Len(Bytes(What(e))) = What(e).len
          /\ \A i \in 1 .. What(e).len : Bytes(What(e))[i][1] = What(e)
      BY <2>7, BytesAre
    <3>2. QED
      BY <2>7, <3>1 DEF Plain
  <2>9. data[n] = a \o Bytes(What(e))
    BY <1>2, <2>6 DEF a
  <2>10. IsSeq(data[n]) /\ Plain(data[n])
    BY <2>2, <2>8, <2>9, Joined, PlainJoined
  <2>11. Lies(e, data[n])
    BY <2>2, <2>5, <2>9, NowLies
  <2>12. \A i \in 1 .. n - 1 : Lies(OldEntry(s, i), data[n])
    BY <2>2, <2>8, <2>9, StillLies
  <2>13. \A i \in 1 .. n : i = n \/ i \in 1 .. n - 1
    BY <1>1
  <2>14. Good(n)
    BY <2>2, <2>5, <2>10, <2>11, <2>12, <2>13 DEF e
  <2>15. QED
    BY <1>1, <2>14
<1>5. \A n \in 0 .. L : n \in G
  <2> HIDE DEF G, L
  <2>1. QED
    BY <1>1, <1>3, <1>4, UpTo
<1>6. Good(L)
  BY <1>1, <1>5
<1>7. QED
  BY <1>6 DEF data

-----------------------------------------------------------------------------
(* The invariant: what has been written so far can be taken apart again.    *)
(* In the first pass every chunk lies in the super-block where its entry    *)
(* says; in the second, behind the frame, so does every delta; and a        *)
(* finished file is such data with its index and its footer.                *)

(* What the index has by now.                                               *)
Done(i) ==
    IF phase = "full" THEN i < next /\ input[i].type # "delta"
    ELSE IF phase = "delta" THEN i < next \/ input[i].type # "delta"
    ELSE TRUE

Indexed ==
    /\ \A i \in 1 .. Len(input) :
          Done(i) <=> \E k \in 1 .. Len(index) : index[k].hash = input[i].hash
    /\ UniqueHashes(index)

FormatTypeOK ==
    /\ input \in Seq(Full \cup Deltas) /\ Distinct(input)
    /\ next \in Nat \ {0}
    /\ IsSeq(block)
    /\ index \in Seq(Entry)

InFull ==
    phase = "full" =>
        /\ output = <<>>
        /\ \A k \in 1 .. Len(index) : ~IsDelta(index[k])
        /\ Laid(index, block, output)

InDelta ==
    phase = "delta" =>
        /\ IsSeq(output) /\ Plain(output)
        /\ Laid(index, block, output)
        /\ \E n \in 0 .. Len(output) : FrameFirst(n, index, block, output)

InFile ==
    phase = "written" =>
        \E data, v : Packed(data, v, index, block) /\ output = Finished(data, index, v)

FormatInv ==
    /\ FormatTypeOK
    /\ phase \in {"full", "delta", "written", "damaged"}
    /\ phase # "damaged" => Indexed
    /\ InFull /\ InDelta /\ InFile /\ DamageDetected

LEMMA EmptyIs == IsSeq(<<>>) /\ Len(<<>>) = 0 /\ Plain(<<>>)
<1>1. <<>> \in Seq({}) /\ Len(<<>>) = 0
  OBVIOUS
<1>2. QED
  BY <1>1 DEF IsSeq, Plain

LEMMA FormatInitInv == FormatInit => FormatInv
<1> SUFFICES ASSUME FormatInit
             PROVE  FormatInv
  OBVIOUS
<1>1. input \in Seq(Full \cup Deltas) /\ Distinct(input)
  <2>1. input \in BoundedSeq(Full \cup Deltas, MaxEntries) /\ Distinct(input)
    BY DEF FormatInit
  <2>2. PICK n \in Nat : input \in [1 .. n -> Full \cup Deltas]
    BY <2>1, FormatSizes DEF BoundedSeq, SeqOf
  <2>3. QED
    BY <2>1, <2>2
<1>2. next = 1 /\ block = <<>> /\ index = <<>> /\ output = <<>> /\ phase = "full"
  BY DEF FormatInit
<1>3. FormatTypeOK
  BY <1>1, <1>2, EmptyIs DEF FormatTypeOK
<1>4. Indexed
  <2>1. \A i \in 1 .. Len(input) : ~Done(i)
    BY <1>2 DEF Done
  <2>2. Len(index) = 0
    BY <1>2, EmptyIs
  <2>3. QED
    BY <2>1, <2>2 DEF Indexed, UniqueHashes
<1>5. InFull /\ InDelta /\ InFile /\ DamageDetected
  <2>1. Len(index) = 0
    BY <1>2, EmptyIs
  <2>2. Laid(index, block, output)
    BY <1>2, <2>1 DEF Laid
  <2>3. QED
    BY <1>2, <2>1, <2>2 DEF InFull, InDelta, InFile, DamageDetected
<1>6. QED
  BY <1>2, <1>3, <1>4, <1>5 DEF FormatInv

LEMMA AppendIs ==
    ASSUME NEW es \in Seq(Entry), NEW e \in Entry
    PROVE  /\ Append(es, e) \in Seq(Entry) /\ Len(Append(es, e)) = Len(es) + 1 /\ Len(es) \in Nat
           /\ \A k \in 1 .. Len(es) : Append(es, e)[k] = es[k]
           /\ Append(es, e)[Len(es) + 1] = e
           /\ \A k \in 1 .. Len(es) + 1 : k \in 1 .. Len(es) \/ k = Len(es) + 1
<1>1. Len(es) \in Nat
  BY S!LenProperties
<1>2. QED
  BY <1>1, S!AppendProperties

(* The index gets an entry for the input that is next.                      *)
LEMMA IndexGrows ==
    ASSUME FormatTypeOK, Indexed, next \in 1 .. Len(input), ~Done(next),
           NEW e \in Entry, e.hash = input[next].hash, index' = Append(index, e),
           UNCHANGED input,
           \A i \in 1 .. Len(input) : Done(i)' <=> Done(i) \/ i = next
    PROVE  Indexed'
<1>1. index \in Seq(Entry) /\ Distinct(input) /\ input \in Seq(Full \cup Deltas)
  BY DEF FormatTypeOK
<1>2. /\ Len(index') = Len(index) + 1 /\ Len(index) \in Nat
      /\ \A k \in 1 .. Len(index) : index'[k] = index[k]
      /\ index'[Len(index) + 1] = e
      /\ \A k \in 1 .. Len(index) + 1 : k \in 1 .. Len(index) \/ k = Len(index) + 1
  BY <1>1, AppendIs
<1>3. Len(index) + 1 \in 1 .. Len(index') /\ \A k \in 1 .. Len(index) : k \in 1 .. Len(index')
  BY <1>2
<1>4. \A k \in 1 .. Len(index) : index[k].hash # e.hash
  BY DEF Indexed
<1>5. \A i \in 1 .. Len(input) : input[i].hash = e.hash => i = next
  <2>1. DOMAIN input = 1 .. Len(input)
    BY <1>1, S!LenProperties
  <2>2. QED
    BY <1>1, <2>1 DEF Distinct
<1>6. ASSUME NEW i \in 1 .. Len(input)
      PROVE  Done(i)' <=> \E k \in 1 .. Len(index') : index'[k].hash = input[i].hash
  <2>1. CASE i = next
    BY <1>2, <1>3, <2>1
  <2>2. CASE i # next
    <3>1. input[i].hash # e.hash
      BY <1>5, <2>2
    <3>2. (\E k \in 1 .. Len(index') : index'[k].hash = input[i].hash)
          <=> \E k \in 1 .. Len(index) : index[k].hash = input[i].hash
      BY <1>2, <1>3, <3>1
    <3>3. QED
      BY <2>2, <3>2 DEF Indexed
  <2>3. QED
    BY <2>1, <2>2
<1>7. UniqueHashes(index')
  <2>1. \A k, l \in 1 .. Len(index) : index[k].hash = index[l].hash => k = l
    BY DEF Indexed, UniqueHashes
  <2>2. \A k, l \in 1 .. Len(index) + 1 : index'[k].hash = index'[l].hash => k = l
    BY <1>2, <1>4, <2>1
  <2>3. QED
    BY <1>2, <2>2 DEF UniqueHashes
<1>8. QED
  BY <1>6, <1>7 DEF Indexed

LEMMA IndexStays ==
    ASSUME Indexed, UNCHANGED <<input, index>>, \A i \in 1 .. Len(input) : Done(i)' <=> Done(i)
    PROVE  Indexed'
BY DEF Indexed, UniqueHashes

LEMMA StoredIs ==
    ASSUME FormatTypeOK, next \in 1 .. Len(input)
    PROVE  LET w == StoredAs(input[next]) IN
           /\ w.len \in Nat \ {0} /\ w.of = input[next].hash /\ w.form \in {"raw", "zip"}
           /\ TypeOf(w) = IF w.form = "raw" THEN "raw" ELSE "full"
           /\ w = [form |-> w.form, of |-> w.of, len |-> w.len]
<1> DEFINE e == input[next]
           w == StoredAs(e)
<1>1. e.hash \in Chunk /\ e.len \in Nat \ {0}
  BY InputIs DEF FormatTypeOK
<1>2. RawLen[e.hash] \in Nat \ {0}
  BY <1>1, FormatChunks
<1> HIDE DEF e
<1>3. w = [form |-> "raw", of |-> e.hash, len |-> RawLen[e.hash]]
      \/ w = [form |-> "zip", of |-> e.hash, len |-> e.len]
  BY DEF StoredAs, Raw, Zipped
<1> HIDE DEF w
<1>4. w.len \in Nat \ {0} /\ w.of = e.hash /\ w.form \in {"raw", "zip"}
      /\ w = [form |-> w.form, of |-> w.of, len |-> w.len]
  BY <1>1, <1>2, <1>3
<1>5. TypeOf(w) = IF w.form = "raw" THEN "raw" ELSE "full"
  BY DEF TypeOf
<1>6. QED
  BY <1>4, <1>5 DEF w, e

LEMMA WriteFullInv == FormatInv /\ WriteFull => FormatInv'
<1> SUFFICES ASSUME FormatInv, WriteFull
             PROVE  FormatInv'
  OBVIOUS
<1> DEFINE x == input[next]
           w == StoredAs(x)
           e == IndexEntry(x, TypeOf(w), Len(block), w.len)
<1>1. /\ phase = "full" /\ phase' = "full" /\ next <= Len(input) /\ next' = next + 1
      /\ UNCHANGED <<input, output>>
      /\ FormatTypeOK /\ Indexed /\ InFull
      /\ output = <<>>
      /\ \A k \in 1 .. Len(index) : ~IsDelta(index[k])
      /\ Laid(index, block, output)
  BY DEF FormatInv, WriteFull, InFull
<1>2. /\ input \in Seq(Full \cup Deltas) /\ Distinct(input) /\ next \in Nat \ {0}
      /\ IsSeq(block) /\ index \in Seq(Entry)
  BY <1>1 DEF FormatTypeOK
<1>3. next \in 1 .. Len(input) /\ Len(input) \in Nat /\ next' \in Nat \ {0}
  BY <1>1, <1>2, S!LenProperties
<1>4. \A i \in 1 .. Len(input) : Done(i)' <=> i < next + 1 /\ input[i].type # "delta"
  BY <1>1 DEF Done
<1>5. \A i \in 1 .. Len(input) : Done(i) <=> i < next /\ input[i].type # "delta"
  BY <1>1 DEF Done
<1>6. CASE x.type = "delta"
  <2>1. UNCHANGED <<block, index>>
    BY <1>6 DEF WriteFull
  <2>2. FormatTypeOK'
    BY <1>2, <1>3, <2>1, <1>1 DEF FormatTypeOK
  <2>3. \A i \in 1 .. Len(input) : Done(i)' <=> Done(i)
    <3>1. \A i \in 1 .. Len(input) : i < next + 1 <=> i < next \/ i = next
      BY <1>3
    <3>2. QED
      BY <1>4, <1>5, <1>6, <3>1
  <2>4. Indexed'
    BY <1>1, <2>1, <2>3, IndexStays
  <2>5. InFull'
    BY <1>1, <2>1 DEF InFull, Laid
  <2>6. QED
    BY <1>1, <2>2, <2>4, <2>5 DEF FormatInv, InDelta, InFile, DamageDetected
<1>7. CASE x.type # "delta"
  <2>1. index' = Append(index, e) /\ block' = block \o Bytes(w)
    BY <1>7 DEF WriteFull
  <2>2. /\ w.len \in Nat \ {0} /\ w.of = x.hash /\ w.form \in {"raw", "zip"}
        /\ TypeOf(w) = IF w.form = "raw" THEN "raw" ELSE "full"
        /\ w = [form |-> w.form, of |-> w.of, len |-> w.len]
    BY <1>1, <1>3, StoredIs
  <2>3. x.hash \in Chunk /\ x.base \in Chunk \cup {None}
    BY <1>2, <1>3, InputIs
  <2>4. Len(block) \in Nat
    BY <1>2, SeqIs
  <2> HIDE DEF w
  <2>5. TypeOf(w) \in {"raw", "full"} /\ TypeOf(w) \in {"raw", "full", "delta"}
    BY <2>2
  <2>6. /\ e \in Entry /\ e.hash = x.hash /\ e.base = x.base /\ e.type = TypeOf(w)
        /\ e.offset = Len(block) /\ e.length = w.len
    <3> DEFINE ty == TypeOf(w)
               at == Len(block)
               len == w.len
    <3>1. ty \in {"raw", "full", "delta"} /\ at \in Nat /\ len \in Nat \ {0}
      BY <2>2, <2>4, <2>5
    <3>2. e = IndexEntry(x, ty, at, len)
      OBVIOUS
    <3> HIDE DEF ty, at, len, x, e
    <3>3. /\ e \in Entry /\ e.hash = x.hash /\ e.base = x.base /\ e.type = ty
          /\ e.offset = at /\ e.length = len
      BY <2>3, <3>1, <3>2, IndexEntryIs DEF x
    <3>4. QED
      BY <3>3 DEF ty, at, len
  <2> HIDE DEF e
  <2>7. ~IsDelta(e)
    BY <2>5, <2>6 DEF IsDelta
  <2>8. What(e) = w
    BY <2>2, <2>6, <2>7 DEF What
  <2>9. IsSeq(Bytes(w)) /\ Len(Bytes(w)) = w.len
    BY <2>2, BytesAre
  <2>10. IsSeq(block') /\ Len(block') = Len(block) + w.len
    <3>1. IsSeq(block \o Bytes(w)) /\ Len(block \o Bytes(w)) = Len(block) + Len(Bytes(w))
      BY <1>2, <2>9, Joined
    <3>2. QED
      BY <2>1, <2>9, <3>1
  <2>11. /\ index' \in Seq(Entry) /\ Len(index') = Len(index) + 1 /\ Len(index) \in Nat
         /\ \A k \in 1 .. Len(index) : index'[k] = index[k]
         /\ index'[Len(index) + 1] = e
         /\ \A k \in 1 .. Len(index) + 1 : k \in 1 .. Len(index) \/ k = Len(index) + 1
    BY <1>2, <2>1, <2>6, AppendIs
  <2>12. FormatTypeOK'
    BY <1>1, <1>2, <1>3, <2>10, <2>11 DEF FormatTypeOK
  <2>13. Indexed'
    <3>1. \A i \in 1 .. Len(input) : i < next + 1 <=> i < next \/ i = next
      BY <1>3
    <3>2. ~Done(next) /\ \A i \in 1 .. Len(input) : Done(i)' <=> Done(i) \/ i = next
      BY <1>3, <1>4, <1>5, <1>7, <3>1
    <3>3. QED
      BY <1>1, <1>3, <2>1, <2>6, <3>2, IndexGrows
  <2>14. \A k \in 1 .. Len(index') : ~IsDelta(index'[k])
    BY <1>1, <2>7, <2>11
  <2>15. Laid(index', block', output')
    <3>1. ASSUME NEW k \in 1 .. Len(index')
          PROVE  Lies(index'[k], block')
      <4>1. CASE k \in 1 .. Len(index)
        <5>1. Lies(index[k], block)
          BY <1>1, <4>1 DEF Laid
        <5>2. index[k] \in Entry
          BY <1>2, <4>1, EntriesOf
        <5>3. Lies(index[k], block')
          BY <1>2, <2>1, <2>9, <5>1, <5>2, StillLies
        <5>4. QED
          BY <2>11, <4>1, <5>3
      <4>2. CASE k = Len(index) + 1
        <5>1. Lies(e, block')
          BY <1>2, <2>1, <2>6, <2>8, NowLies
        <5>2. QED
          BY <2>11, <4>2, <5>1
      <4>3. QED
        BY <2>11, <4>1, <4>2
    <3>2. End(e) = Len(block')
      BY <2>6, <2>10 DEF End
    <3>3. Len(index) + 1 \in 1 .. Len(index')
      BY <2>11
    <3>4. QED
      BY <2>11, <2>14, <3>1, <3>2, <3>3 DEF Laid
  <2>16. InFull'
    BY <1>1, <2>14, <2>15 DEF InFull
  <2>17. QED
    BY <1>1, <2>12, <2>13, <2>16 DEF FormatInv, InDelta, InFile, DamageDetected
<1>8. QED
  BY <1>6, <1>7

LEMMA WriteSuperblockInv == FormatInv /\ WriteSuperblock => FormatInv'
<1> SUFFICES ASSUME FormatInv, WriteSuperblock
             PROVE  FormatInv'
  OBVIOUS
<1>1. /\ phase = "full" /\ phase' = "delta" /\ next > Len(input) /\ next' = 1
      /\ UNCHANGED <<input, block, index>>
      /\ FormatTypeOK /\ Indexed
      /\ output = <<>>
      /\ \A k \in 1 .. Len(index) : ~IsDelta(index[k])
      /\ Laid(index, block, output)
  BY DEF FormatInv, WriteSuperblock, InFull
<1>2. Len(input) \in Nat /\ next \in Nat
  BY <1>1, S!LenProperties DEF FormatTypeOK
<1>3. FormatTypeOK'
  BY <1>1 DEF FormatTypeOK
<1>4. Indexed'
  <2>1. \A i \in 1 .. Len(input) : i < next /\ ~(i < 1)
    BY <1>1, <1>2
  <2>2. \A i \in 1 .. Len(input) : Done(i)' <=> Done(i)
    BY <1>1, <2>1 DEF Done
  <2>3. QED
    BY <1>1, <2>2, IndexStays
<1>5. Laid(index', block', output')
  BY <1>1 DEF Laid
<1>6. \E n \in 0 .. Len(output') : FrameFirst(n, index', block', output')
      /\ IsSeq(output') /\ Plain(output')
  <2>1. CASE block = <<>>
    <3>1. output' = <<>>
      BY <1>1, <2>1 DEF WriteSuperblock
    <3>2. Len(output') = 0 /\ IsSeq(output') /\ Plain(output')
      BY <3>1, EmptyIs
    <3>3. FrameFirst(0, index', block', output')
      BY <1>1, <2>1, <3>2 DEF FrameFirst
    <3>4. QED
      BY <3>2, <3>3
  <2>2. CASE block # <<>>
    <3>1. PICK n \in FrameLens : output' = Bytes(Frame(block, n))
      BY <2>2 DEF WriteSuperblock
    <3>2. n \in Nat \ {0}
      BY FormatSizes
    <3>3. Frame(block, n).len = n /\ Frame(block, n).form = "frame"
      BY DEF Frame
    <3>4. IsSeq(output') /\ Len(output') = n
          /\ \A i \in 1 .. n : output'[i][1] = Frame(block, n)
      BY <3>1, <3>2, <3>3, BytesAre
    <3>5. Plain(output')
      BY <3>3, <3>4 DEF Plain
    <3>6. SubSeq(output', 1, n) = output'
      BY <3>4, CutAll
    <3>7. FrameFirst(n, index', block', output')
      BY <1>1, <2>2, <3>1, <3>2, <3>4, <3>6 DEF FrameFirst
    <3>8. QED
      BY <3>2, <3>4, <3>5, <3>7
  <2>3. QED
    BY <2>1, <2>2
<1>7. QED
  BY <1>1, <1>3, <1>4, <1>5, <1>6 DEF FormatInv, InFull, InDelta, InFile, DamageDetected

LEMMA WriteDeltaInv == FormatInv /\ WriteDelta => FormatInv'
<1> SUFFICES ASSUME FormatInv, WriteDelta
             PROVE  FormatInv'
  OBVIOUS
<1> DEFINE x == input[next]
           e == IndexEntry(x, "delta", Len(output), x.len)
           w == Delta(x.hash, x.base, x.len)
<1>1. /\ phase = "delta" /\ phase' = "delta" /\ next <= Len(input) /\ next' = next + 1
      /\ UNCHANGED <<input, block>>
      /\ FormatTypeOK /\ Indexed
      /\ IsSeq(output) /\ Plain(output) /\ Laid(index, block, output)
  BY DEF FormatInv, WriteDelta, InDelta
<1>2. PICK n \in 0 .. Len(output) : FrameFirst(n, index, block, output)
  BY <1>1 DEF FormatInv, InDelta
<1>3. /\ input \in Seq(Full \cup Deltas) /\ Distinct(input) /\ next \in Nat \ {0}
      /\ IsSeq(block) /\ index \in Seq(Entry)
  BY <1>1 DEF FormatTypeOK
<1>4. next \in 1 .. Len(input) /\ Len(input) \in Nat /\ next' \in Nat \ {0}
  BY <1>1, <1>3, S!LenProperties
<1>5. \A i \in 1 .. Len(input) : Done(i)' <=> i < next + 1 \/ input[i].type # "delta"
  BY <1>1 DEF Done
<1>6. \A i \in 1 .. Len(input) : Done(i) <=> i < next \/ input[i].type # "delta"
  BY <1>1 DEF Done
<1>7. \A i \in 1 .. Len(input) : i < next + 1 <=> i < next \/ i = next
  BY <1>4
<1>8. CASE x.type # "delta"
  <2>1. UNCHANGED <<index, output>>
    BY <1>8 DEF WriteDelta
  <2>2. FormatTypeOK'
    BY <1>1, <1>3, <1>4, <2>1 DEF FormatTypeOK
  <2>3. Indexed'
    <3>1. \A i \in 1 .. Len(input) : Done(i)' <=> Done(i)
      BY <1>5, <1>6, <1>7, <1>8
    <3>2. QED
      BY <1>1, <2>1, <3>1, IndexStays
  <2>4. InDelta'
    BY <1>1, <1>2, <2>1 DEF InDelta, Laid, FrameFirst
  <2>5. QED
    BY <1>1, <2>2, <2>3, <2>4 DEF FormatInv, InFull, InFile, DamageDetected
<1>9. CASE x.type = "delta"
  <2>1. index' = Append(index, e) /\ output' = output \o Bytes(w)
    BY <1>9 DEF WriteDelta
  <2>2. x.hash \in Chunk /\ x.base \in Chunk \cup {None} /\ x.len \in Nat \ {0}
    BY <1>3, <1>4, InputIs
  <2>3. Len(output) \in Nat
    BY <1>1, SeqIs
  <2>4. /\ e \in Entry /\ e.hash = x.hash /\ e.base = x.base /\ e.type = "delta"
        /\ e.offset = Len(output) /\ e.length = x.len
    <3> DEFINE at == Len(output)
               len == x.len
    <3> DEFINE type == "delta"
    <3>1. at \in Nat /\ len \in Nat \ {0} /\ type \in {"raw", "full", "delta"}
          /\ e = IndexEntry(x, type, at, len)
          /\ x.hash \in Chunk /\ x.base \in Chunk \cup {None}
      BY <2>2, <2>3
    <3> HIDE DEF at, len, x, e, type
    <3>2. /\ e \in Entry /\ e.hash = x.hash /\ e.base = x.base /\ e.type = type
          /\ e.offset = at /\ e.length = len
      BY <3>1, IndexEntryIs
    <3>3. QED
      BY <3>2 DEF at, len, type
  <2> HIDE DEF e
  <2>5. IsDelta(e)
    BY <2>4 DEF IsDelta
  <2>6. What(e) = w /\ What(e).len \in Nat \ {0} /\ What(e).form = "delta" /\ w.len = x.len
    <3>1. What(e) = w
      BY <2>4, <2>5 DEF What, Delta
    <3>2. What(e).form = "delta" /\ w.len = x.len
      BY <2>5, <3>1 DEF What, Delta
    <3>3. QED
      BY <2>2, <3>1, <3>2
  <2> HIDE DEF w
  <2>7. IsSeq(Bytes(w)) /\ Len(Bytes(w)) = x.len /\ Plain(Bytes(w))
    <3>1. w.len \in Nat /\ w.len = x.len /\ w.form = "delta"
      BY <2>6
    <3>2. IsSeq(Bytes(w)) /\ Len(Bytes(w)) = w.len
          /\ \A i \in 1 .. w.len : Bytes(w)[i][1] = w
      BY <3>1, BytesAre
    <3>3. Plain(Bytes(w))
      BY <3>1, <3>2 DEF Plain
    <3>4. QED
      BY <3>1, <3>2, <3>3
  <2>8. IsSeq(output') /\ Len(output') = Len(output) + x.len /\ Plain(output')
    <3>1. IsSeq(output \o Bytes(w)) /\ Len(output \o Bytes(w)) = Len(output) + Len(Bytes(w))
          /\ Plain(output \o Bytes(w))
      BY <1>1, <2>7, Joined, PlainJoined
    <3>2. QED
      BY <2>1, <2>7, <3>1
  <2>9. /\ index' \in Seq(Entry) /\ Len(index') = Len(index) + 1 /\ Len(index) \in Nat
        /\ \A k \in 1 .. Len(index) : index'[k] = index[k]
        /\ index'[Len(index) + 1] = e
        /\ \A k \in 1 .. Len(index) + 1 : k \in 1 .. Len(index) \/ k = Len(index) + 1
    BY <1>3, <2>1, <2>4, AppendIs
  <2>10. FormatTypeOK'
    BY <1>1, <1>3, <1>4, <2>9 DEF FormatTypeOK
  <2>11. Indexed'
    <3>1. ~Done(next) /\ \A i \in 1 .. Len(input) : Done(i)' <=> Done(i) \/ i = next
      BY <1>4, <1>5, <1>6, <1>7, <1>9
    <3>2. QED
      BY <1>1, <1>4, <2>1, <2>4, <3>1, IndexGrows
  <2>12. Laid(index', block', output')
    <3>1. ASSUME NEW k \in 1 .. Len(index')
          PROVE  Lies(index'[k], IF IsDelta(index'[k]) THEN output' ELSE block')
      <4>1. CASE k \in 1 .. Len(index)
        <5>1. Lies(index[k], IF IsDelta(index[k]) THEN output ELSE block)
          BY <1>1, <4>1 DEF Laid
        <5>2. index[k] \in Entry
          BY <1>3, <4>1, EntriesOf
        <5>3. Lies(index[k], output) => Lies(index[k], output')
          BY <1>1, <2>1, <2>7, <5>2, StillLies
        <5>4. Lies(index[k], IF IsDelta(index[k]) THEN output' ELSE block)
          BY <5>1, <5>3
        <5>5. QED
          BY <1>1, <2>9, <4>1, <5>4
      <4>2. CASE k = Len(index) + 1
        <5>1. Lies(e, output')
          BY <1>1, <2>1, <2>4, <2>6, NowLies
        <5>2. QED
          BY <2>5, <2>9, <4>2, <5>1
      <4>3. QED
        BY <2>9, <4>1, <4>2
    <3>2. block # <<>> => \E k \in 1 .. Len(index') : ~IsDelta(index'[k])
                                                      /\ End(index'[k]) = Len(block)
      <4>1. ASSUME block # <<>>
            PROVE  \E k \in 1 .. Len(index') : ~IsDelta(index'[k])
                                               /\ End(index'[k]) = Len(block)
        <5>1. PICK k \in 1 .. Len(index) : ~IsDelta(index[k]) /\ End(index[k]) = Len(block)
          BY <1>1, <4>1 DEF Laid
        <5>2. k \in 1 .. Len(index') /\ index'[k] = index[k]
          BY <2>9
        <5>3. QED
          BY <5>1, <5>2
      <4>2. QED
        BY <4>1
    <3>3. QED
      BY <1>1, <3>1, <3>2 DEF Laid
  <2>13. n \in 0 .. Len(output') /\ FrameFirst(n, index', block', output')
    <3>1. n \in 0 .. Len(output') /\ n \in Nat /\ n <= Len(output) /\ 1 <= n + 1
      BY <2>2, <2>3, <2>8
    <3>2. SubSeq(output', 1, n) = SubSeq(output, 1, n)
      BY <1>1, <2>1, <2>7, <3>1, CutFirst
    <3>3. IF block' = <<>> THEN n = 0
          ELSE n # 0 /\ SubSeq(output', 1, n) = Bytes(Frame(block', n))
      BY <1>1, <1>2, <3>2 DEF FrameFirst
    <3>4. ASSUME NEW k \in 1 .. Len(index'), IsDelta(index'[k])
          PROVE  n <= index'[k].offset
      <4>1. CASE k \in 1 .. Len(index)
        BY <1>2, <2>9, <3>4, <4>1 DEF FrameFirst
      <4>2. CASE k = Len(index) + 1
        BY <2>4, <2>9, <3>1, <4>2
      <4>3. QED
        BY <2>9, <4>1, <4>2
    <3>5. \E k \in 1 .. Len(index') : IsDelta(index'[k]) /\ index'[k].offset = n
      <4>1. CASE n = Len(output)
        <5>1. Len(index) + 1 \in 1 .. Len(index')
          BY <2>9
        <5>2. QED
          BY <2>4, <2>5, <2>9, <4>1, <5>1
      <4>2. CASE n # Len(output)
        <5>1. PICK k \in 1 .. Len(index) : IsDelta(index[k]) /\ index[k].offset = n
          BY <1>2, <4>2 DEF FrameFirst
        <5>2. k \in 1 .. Len(index') /\ index'[k] = index[k]
          BY <2>9
        <5>3. QED
          BY <5>1, <5>2
      <4>3. QED
        BY <4>1, <4>2
    <3>6. QED
      BY <3>1, <3>3, <3>4, <3>5 DEF FrameFirst
  <2>14. InDelta'
    BY <2>8, <2>12, <2>13 DEF InDelta
  <2>15. QED
    BY <1>1, <2>10, <2>11, <2>14 DEF FormatInv, InFull, InFile, DamageDetected
<1>10. QED
  BY <1>8, <1>9

LEMMA WriteIndexInv == FormatInv /\ WriteIndex => FormatInv'
<1> SUFFICES ASSUME FormatInv, WriteIndex
             PROVE  FormatInv'
  OBVIOUS
<1>1. /\ phase = "delta" /\ phase' = "written" /\ next > Len(input)
      /\ output' = Finished(output, index, "v3")
      /\ UNCHANGED <<input, next, block, index>>
      /\ FormatTypeOK /\ Indexed
      /\ IsSeq(output) /\ Plain(output) /\ Laid(index, block, output)
      /\ \E n \in 0 .. Len(output) : FrameFirst(n, index, block, output)
  BY DEF FormatInv, WriteIndex, InDelta
<1>2. FormatTypeOK'
  BY <1>1 DEF FormatTypeOK
<1>3. Indexed'
  <2>1. Len(input) \in Nat /\ next \in Nat
    BY <1>1, S!LenProperties DEF FormatTypeOK
  <2>2. \A i \in 1 .. Len(input) : i < next
    BY <1>1, <2>1
  <2>3. \A i \in 1 .. Len(input) : Done(i)' <=> Done(i)
    BY <1>1, <2>2 DEF Done
  <2>4. QED
    BY <1>1, <2>3, IndexStays
<1>4. InFile'
  <2>1. Packed(output, "v3", index, block)
    BY <1>1 DEF Packed, FormatTypeOK
  <2>2. Packed(output, "v3", index', block')
    BY <1>1, <2>1
  <2>3. output' = Finished(output, index', "v3")
    BY <1>1
  <2>4. QED
    BY <2>2, <2>3 DEF InFile
<1>5. QED
  BY <1>1, <1>2, <1>3, <1>4 DEF FormatInv, InFull, InDelta, DamageDetected

LEMMA OldPackInv == FormatInv /\ OldPack => FormatInv'
<1> SUFFICES ASSUME FormatInv, OldPack
             PROVE  FormatInv'
  OBVIOUS
<1> DEFINE es == [i \in 1 .. Len(input) |-> OldEntry(input, i)]
           data == OldData(input)[Len(input)]
<1>1. /\ phase = "full" /\ phase' = "written" /\ UNCHANGED <<input, next, block>>
      /\ index' = es
      /\ FormatTypeOK
  BY DEF FormatInv, OldPack, OldEntry
<1>2. PICK v \in {"v1", "v2"} : output' = Finished(data, es, v)
  BY DEF OldPack, OldEntry
<1>3. input \in Seq(Full \cup Deltas) /\ Distinct(input) /\ IsSeq(block) /\ Len(input) \in Nat
      /\ DOMAIN input = 1 .. Len(input)
  BY <1>1, S!LenProperties DEF FormatTypeOK
<1>4. /\ IsSeq(data) /\ Plain(data)
      /\ \A i \in 1 .. Len(input) : OldEntry(input, i) \in Entry /\ Lies(OldEntry(input, i), data)
                                    /\ OldEntry(input, i).hash = input[i].hash
  BY <1>3, OldDataIs
<1> HIDE DEF data
<1>5. /\ es \in Seq(Entry) /\ Len(es) = Len(input)
      /\ \A i \in 1 .. Len(es) : es[i] = OldEntry(input, i)
  <2> DEFINE L == Len(input)
  <2>1. L \in Nat /\ \A i \in 1 .. L : OldEntry(input, i) \in Entry
    BY <1>3, <1>4
  <2> HIDE DEF L
  <2>2. [i \in 1 .. L |-> OldEntry(input, i)] \in [1 .. L -> Entry]
    BY <2>1
  <2>3. [i \in 1 .. L |-> OldEntry(input, i)] \in Seq(Entry)
        /\ Len([i \in 1 .. L |-> OldEntry(input, i)]) = L
    BY <2>1, <2>2
  <2>4. QED
    BY <2>3 DEF L
<1> HIDE DEF es
<1>6. FormatTypeOK'
  BY <1>1, <1>5 DEF FormatTypeOK
<1>7. Indexed'
  <2>1. \A i \in 1 .. Len(input) : Done(i)'
    BY <1>1 DEF Done
  <2>2. \A i \in 1 .. Len(input) : index'[i].hash = input[i].hash /\ i \in 1 .. Len(index')
    BY <1>1, <1>4, <1>5
  <2>3. UniqueHashes(index')
    <3>1. \A k, l \in 1 .. Len(input) : input[k].hash = input[l].hash => k = l
      BY <1>3 DEF Distinct
    <3>2. QED
      BY <1>1, <1>5, <2>2, <3>1 DEF UniqueHashes
  <2>4. QED
    BY <1>1, <2>1, <2>2, <2>3 DEF Indexed
<1>8. InFile'
  <2>1. Packed(data, v, es, block)
    BY <1>3, <1>4, <1>5 DEF Packed
  <2>2. QED
    BY <1>1, <1>2, <2>1 DEF InFile
<1>9. QED
  BY <1>1, <1>6, <1>7, <1>8 DEF FormatInv, InFull, InDelta, DamageDetected

(* The three kinds of damage.                                               *)
LEMMA DamageInv == FormatInv /\ (Truncate \/ ChangeByte \/ ChangeFooter) => FormatInv'
<1> SUFFICES ASSUME FormatInv, Truncate \/ ChangeByte \/ ChangeFooter
             PROVE  FormatInv'
  OBVIOUS
<1>1. /\ phase = "written" /\ phase' = "damaged" /\ IsNew
      /\ UNCHANGED <<input, next, block, index>>
  BY DEF Truncate, ChangeByte, ChangeFooter
<1>2. PICK data, v : Packed(data, v, index, block) /\ output = Finished(data, index, v)
  BY <1>1 DEF FormatInv, InFile
<1> DEFINE f == FooterFor(data, index, v)
           body == data \o Bytes(Index(index, v))
<1>3. IsSeq(data) /\ Plain(data) /\ IsSeq(index)
  BY <1>2, EntriesOf DEF Packed
<1>4. output = body \o Bytes(Footer(f)) /\ IsSeq(body)
  BY <1>2, <1>3, FinishedIs
<1>5. IsSeq(output) /\ FooterOf(output) = f
  <2> HIDE DEF f, body
  <2>1. QED
    BY <1>4, FooterIs
<1>6. /\ f = [index_offset |-> f.index_offset, index_len |-> f.index_len, magic |-> v,
              checksum |-> f.checksum]
      /\ f.magic = v
  BY DEF FooterFor
<1> HIDE DEF f, body
<1>7. v = "v3"
  BY <1>1, <1>5, <1>6 DEF IsNew
<1>8. /\ \A n \in 0 .. Len(output) - 1 : ReadPack(SubSeq(output, 1, n)) = Corrupt
      /\ \A i \in DOMAIN output : ReadPack([output EXCEPT ![i] = Broken]) = Corrupt
      /\ \A g : /\ g.checksum = FooterOf(output).checksum
                /\ g.magic \in {"v3", "v1", "v2", "other"}
                /\ \/ g.index_offset # FooterOf(output).index_offset
                   \/ g.index_len # FooterOf(output).index_len
                   \/ g.magic # "v3"
                => ReadPack(BodyOf(output) \o Bytes(Footer(g))) = Corrupt
  BY <1>2, <1>3, <1>7, DamageFound
<1>9. ReadPack(output') = Corrupt
  <2>1. CASE Truncate
    BY <1>8, <2>1 DEF Truncate
  <2>2. CASE ChangeByte
    BY <1>8, <2>2 DEF ChangeByte
  <2>3. CASE ChangeFooter
    <3>1. PICK g : /\ \/ \E n \in 0 .. Len(output) : g = [f EXCEPT !.index_offset = n]
                      \/ \E n \in 0 .. Len(output) : g = [f EXCEPT !.index_len = n]
                      \/ \E m \in {"v1", "v2", "other"} : g = [f EXCEPT !.magic = m]
                   /\ g # f
                   /\ output' = BodyOf(output) \o Bytes(Footer(g))
      BY <1>5, <2>3 DEF ChangeFooter
    <3> DEFINE Other == \/ g.index_offset # f.index_offset
                        \/ g.index_len # f.index_len
                        \/ g.magic # "v3"
    <3>2. CASE \E n \in 0 .. Len(output) : g = [f EXCEPT !.index_offset = n]
      <4>1. PICK n \in 0 .. Len(output) : g = [f EXCEPT !.index_offset = n]
        BY <3>2
      <4>2. g = [index_offset |-> n, index_len |-> f.index_len, magic |-> v,
                 checksum |-> f.checksum]
        BY <1>6, <4>1
      <4>3. g.checksum = f.checksum /\ g.magic = v /\ g.index_offset = n
        BY <4>2
      <4>4. n # f.index_offset
        BY <1>6, <3>1, <4>2
      <4>5. QED
        BY <1>5, <1>7, <1>8, <3>1, <4>3, <4>4
    <3>3. CASE \E n \in 0 .. Len(output) : g = [f EXCEPT !.index_len = n]
      <4>1. PICK n \in 0 .. Len(output) : g = [f EXCEPT !.index_len = n]
        BY <3>3
      <4>2. g = [index_offset |-> f.index_offset, index_len |-> n, magic |-> v,
                 checksum |-> f.checksum]
        BY <1>6, <4>1
      <4>3. g.checksum = f.checksum /\ g.magic = v /\ g.index_len = n
        BY <4>2
      <4>4. n # f.index_len
        BY <1>6, <3>1, <4>2
      <4>5. QED
        BY <1>5, <1>7, <1>8, <3>1, <4>3, <4>4
    <3>4. CASE \E m \in {"v1", "v2", "other"} : g = [f EXCEPT !.magic = m]
      <4>1. PICK m \in {"v1", "v2", "other"} : g = [f EXCEPT !.magic = m]
        BY <3>4
      <4>2. g = [index_offset |-> f.index_offset, index_len |-> f.index_len, magic |-> m,
                 checksum |-> f.checksum]
        BY <1>6, <4>1
      <4>3. g.checksum = f.checksum /\ g.magic = m /\ m # "v3"
        BY <4>2
      <4>4. QED
        BY <1>5, <1>8, <3>1, <4>3
    <3>5. QED
      BY <3>1, <3>2, <3>3, <3>4
  <2>4. QED
    BY <2>1, <2>2, <2>3
<1>10. FormatTypeOK'
  BY <1>1 DEF FormatInv, FormatTypeOK
<1>11. QED
  BY <1>1, <1>9, <1>10 DEF FormatInv, InFull, InDelta, InFile, DamageDetected

LEMMA FormatStep == FormatInv /\ [FormatNext]_formatVars => FormatInv'
<1>1. FormatInv /\ UNCHANGED formatVars => FormatInv'
  BY DEF formatVars, FormatInv, FormatTypeOK, Indexed, Done, UniqueHashes, InFull, InDelta, InFile,
         DamageDetected
<1>2. QED
  BY <1>1, WriteFullInv, WriteSuperblockInv, WriteDeltaInv, WriteIndexInv, OldPackInv, DamageInv
     DEF FormatNext

LEMMA FormatInvAlways == FormatSpec => []FormatInv
<1>1. FormatInit => FormatInv
  BY FormatInitInv
<1>2. FormatInv /\ [FormatNext]_formatVars => FormatInv'
  BY FormatStep
<1>3. QED
  BY <1>1, <1>2, PTL DEF FormatSpec

-----------------------------------------------------------------------------
(* The theorems.                                                            *)

(* A pack that is cut short, or in which a byte or a field of the footer    *)
(* changed, is never read as a pack: whatever is cut or changed, the last   *)
(* bytes are no footer or the checksum in it is that of something else.     *)
THEOREM DamageDetectedHolds == FormatSpec => []DamageDetected
<1>1. FormatInv => DamageDetected
  BY DEF FormatInv
<1>2. QED
  BY <1>1, FormatInvAlways, PTL

(* Every chunk that was given to write_pack comes back by its hash, from    *)
(* packs of all three formats.                                              *)
THEOREM EveryChunkReadableHolds ==
    ASSUME NoResult
    PROVE  FormatSpec => []EveryChunkReadable
<1>1. FormatInv => EveryChunkReadable
  <2> SUFFICES ASSUME FormatInv, phase = "written", NEW i \in DOMAIN input
               PROVE  GetByHash(output, input[i].hash) = input[i].hash
    BY DEF EveryChunkReadable
  <2>1. i \in 1 .. Len(input)
    BY S!LenProperties DEF FormatInv, FormatTypeOK
  <2>2. PICK data, v : Packed(data, v, index, block) /\ output = Finished(data, index, v)
    BY DEF FormatInv, InFile
  <2>3. Done(i)
    BY DEF Done
  <2>4. Indexed
    BY DEF FormatInv
  <2>5. PICK k \in 1 .. Len(index) : index[k].hash = input[i].hash
    BY <2>1, <2>3, <2>4 DEF Indexed
  <2>6. GetByHash(Finished(data, index, v), index[k].hash) = index[k].hash
    BY <2>2, <2>4, ReadsByHash DEF Indexed
  <2>7. QED
    BY <2>2, <2>5, <2>6
<1>2. QED
  BY <1>1, FormatInvAlways, PTL

(* And by its place, if no other entry has the same offset and length.      *)
THEOREM PlaceReadableHolds ==
    ASSUME NoResult
    PROVE  FormatSpec => []PlaceReadable
<1>1. FormatInv => PlaceReadable
  <2> SUFFICES ASSUME FormatInv, phase = "written", NEW e \in Range(index),
                      \A x \in Range(index) : x.offset = e.offset /\ x.length = e.length => x = e
               PROVE  GetByPlace(output, e.hash, e) = e.hash
    BY DEF PlaceReadable
  <2>1. PICK data, v : Packed(data, v, index, block) /\ output = Finished(data, index, v)
    BY DEF FormatInv, InFile
  <2>2. UniqueHashes(index) /\ index \in Seq(Entry)
    BY DEF FormatInv, Indexed, FormatTypeOK
  <2>3. PICK k \in 1 .. Len(index) : e = index[k]
    BY <2>2, EntriesOf
  <2>4. ASSUME NEW l \in 1 .. Len(index), SamePlace(index[l], index[k])
        PROVE  index[l] = index[k]
    <3>1. index[l] \in Range(index)
      BY <2>2, EntriesOf
    <3>2. QED
      BY <2>3, <2>4, <3>1 DEF SamePlace
  <2>5. GetByPlace(Finished(data, index, v), index[k].hash, index[k]) = index[k].hash
    BY <2>1, <2>2, <2>4, ReadsByPlace
  <2>6. QED
    BY <2>1, <2>3, <2>5
<1>2. QED
  BY <1>1, FormatInvAlways, PTL

=============================================================================
