---------------------------- MODULE PalantirProofs ----------------------------
(* Proofs about Palantir, for any number of chunks, shards, slots and       *)
(* features and any budget.                                                 *)
(*                                                                          *)
(* The operators that go through a sequence (Without, EnforceBudget,        *)
(* Filled) are recursive functions on 0 .. n.  Iteration says that such a   *)
(* function exists and UpTo is the induction for it, both for sets, not     *)
(* operators, and both from the least element of a set of naturals.  What   *)
(* then has to be known of a shard is Sound, and Exact while it never took  *)
(* a chunk twice; insertion, eviction and touch keep both.                  *)
EXTENDS Palantir, FiniteSetTheorems, WellFoundedInduction, TLAPS

S == INSTANCE SequenceTheorems

LEMMA Least ==
    ASSUME NEW V \in SUBSET Nat, V # {}
    PROVE  \E m \in V : \A k \in V : m <= k
<1> DEFINE R == {e \in Nat \X Nat : e[1] < e[2]}
<1>1. IsWellFoundedOn(R, Nat)
  BY NatLessThanWellFounded DEF OpToRel
<1> HIDE DEF R
<1>2. PICK m \in V : \A k \in V : ~(<<k, m>> \in R)
  BY <1>1, WFMin
<1>3. ASSUME NEW k \in V
      PROVE  m <= k
  <2>1. m \in Nat /\ k \in Nat
    OBVIOUS
  <2>2. ~(k < m)
    BY <1>2, <2>1 DEF R
  <2>3. QED
    BY <2>1, <2>2
<1>4. QED
  BY <1>3

LEMMA UpTo ==
    ASSUME NEW N \in Nat, NEW G,
           0 \in G, \A n \in 1 .. N : n - 1 \in G => n \in G
    PROVE  \A n \in 0 .. N : n \in G
<1> DEFINE V == {n \in 0 .. N : n \notin G}
<1>1. CASE V # {}
  <2>0. V \in SUBSET Nat
    OBVIOUS
  <2>1. PICK m \in V : \A k \in V : m <= k
    <3> HIDE DEF V
    <3>1. QED
      BY <1>1, <2>0, Least
  <2>2. m \in 1 .. N /\ m - 1 \in 0 .. N
    BY <2>1
  <2>3. m - 1 \in G
    <3>1. ~(m <= m - 1)
      BY <2>2
    <3>2. QED
      BY <2>1, <2>2, <3>1
  <2>4. QED
    BY <2>1, <2>2, <2>3
<1>2. QED
  BY <1>1

(* A function can be defined step by step on an initial segment of Nat.     *)
LEMMA Iteration ==
    ASSUME NEW X, NEW b \in X, NEW N \in Nat, NEW s \in [1 .. N -> [X -> X]]
    PROVE  \E f \in [0 .. N -> X] : f[0] = b /\ \A n \in 1 .. N : f[n] = s[n][f[n - 1]]
<1> DEFINE Goes(f, m) == f[0] = b /\ \A n \in 1 .. m : f[n] = s[n][f[n - 1]]
           G == {m \in 0 .. N : \E f \in [0 .. m -> X] : Goes(f, m)}
<1>1. 0 \in G
  <2> DEFINE f == [n \in 0 .. 0 |-> b]
  <2>1. f \in [0 .. 0 -> X] /\ Goes(f, 0)
    OBVIOUS
  <2> HIDE DEF f
  <2>2. QED
    BY <2>1
<1>2. ASSUME NEW m \in 1 .. N, m - 1 \in G
      PROVE  m \in G
  <2>1. PICK f \in [0 .. (m - 1) -> X] : Goes(f, m - 1)
    BY <1>2
  <2> DEFINE g == [n \in 0 .. m |-> IF n = m THEN s[m][f[m - 1]] ELSE f[n]]
  <2>2. m \in Nat \ {0} /\ m - 1 \in 0 .. (m - 1) /\ 0 \in 0 .. (m - 1)
    OBVIOUS
  <2>3. f[m - 1] \in X
    BY <2>1, <2>2
  <2>4. s[m][f[m - 1]] \in X
    BY <2>3
  <2>5. \A n \in 0 .. m : n # m => n \in 0 .. (m - 1)
    BY <2>2
  <2>6. g \in [0 .. m -> X]
    BY <2>1, <2>4, <2>5
  <2>7. \A n \in 0 .. (m - 1) : g[n] = f[n]
    BY <2>2
  <2>8. g[m] = s[m][f[m - 1]]
    BY <2>2
  <2> HIDE DEF g
  <2>9. g[0] = b
    BY <2>1, <2>2, <2>7
  <2>10. ASSUME NEW n \in 1 .. m
         PROVE  g[n] = s[n][g[n - 1]]
    <3>1. n - 1 \in 0 .. (m - 1)
      BY <2>2
    <3>2. g[n - 1] = f[n - 1]
      BY <2>7, <3>1
    <3>3. CASE n = m
      BY <2>8, <3>2, <3>3
    <3>4. CASE n # m
      <4>1. n \in 1 .. (m - 1) /\ n \in 0 .. (m - 1)
        BY <2>2, <3>4
      <4>2. f[n] = s[n][f[n - 1]]
        BY <2>1, <4>1
      <4>3. QED
        BY <2>7, <3>2, <4>1, <4>2
    <3>5. QED
      BY <3>3, <3>4
  <2>11. Goes(g, m)
    BY <2>9, <2>10
  <2>12. m \in 0 .. N
    OBVIOUS
  <2>13. QED
    BY <2>6, <2>11, <2>12
<1>3. N \in G
  <2> HIDE DEF G
  <2>1. \A n \in 0 .. N : n \in G
    BY <1>1, <1>2, UpTo
  <2>2. QED
    BY <2>1
<1>4. QED
  BY <1>3

LEMMA WithoutSteps ==
    ASSUME NEW P, NEW seq \in Seq(P), NEW h
    PROVE  \E kept \in [0 .. Len(seq) -> Seq(P)] :
              /\ kept[0] = <<>>
              /\ \A n \in 1 .. Len(seq) :
                    kept[n] = IF seq[n] = h THEN kept[n - 1] ELSE Append(kept[n - 1], seq[n])
              /\ Without(seq, h) = kept[Len(seq)]
<1> DEFINE L == Len(seq)
           Body(k) == [n \in 0 .. L |->
                         IF n = 0 THEN <<>>
                         ELSE IF seq[n] = h THEN k[n - 1] ELSE Append(k[n - 1], seq[n])]
           kept == CHOOSE k : k = Body(k)
           step == [n \in 1 .. L |->
                      [q \in Seq(P) |-> IF seq[n] = h THEN q ELSE Append(q, seq[n])]]
<1>1. Without(seq, h) = kept[L]
  BY DEF Without
<1>2. L \in Nat /\ \A n \in 1 .. L : seq[n] \in P
  BY S!LenProperties, S!ElementOfSeq
<1>3. step \in [1 .. L -> [Seq(P) -> Seq(P)]]
  <2>1. \A n \in 1 .. L : \A q \in Seq(P) : Append(q, seq[n]) \in Seq(P)
    BY <1>2
  <2> HIDE DEF L
  <2>2. QED
    BY <2>1
<1>4. <<>> \in Seq(P)
  OBVIOUS
<1>5. PICK f \in [0 .. L -> Seq(P)] : f[0] = <<>> /\ \A n \in 1 .. L : f[n] = step[n][f[n - 1]]
  <2> DEFINE X == Seq(P)
             b == <<>>
  <2>1. step \in [1 .. L -> [X -> X]] /\ b \in X /\ L \in Nat
    BY <1>2, <1>3, <1>4
  <2> HIDE DEF L, step, X, b
  <2>2. \E f \in [0 .. L -> X] : f[0] = b /\ \A n \in 1 .. L : f[n] = step[n][f[n - 1]]
    BY <2>1, Iteration
  <2>3. QED
    BY <2>2 DEF X, b
<1>6. \A n \in 1 .. L : f[n] = IF seq[n] = h THEN f[n - 1] ELSE Append(f[n - 1], seq[n])
  <2>1. ASSUME NEW n \in 1 .. L
        PROVE  f[n] = IF seq[n] = h THEN f[n - 1] ELSE Append(f[n - 1], seq[n])
    <3>1. n - 1 \in 0 .. L
      BY <1>2
    <3>2. f[n - 1] \in Seq(P)
      BY <1>5, <3>1
    <3> HIDE DEF L
    <3>3. step[n][f[n - 1]] = IF seq[n] = h THEN f[n - 1] ELSE Append(f[n - 1], seq[n])
      BY <3>2
    <3>4. QED
      BY <1>5, <3>3
  <2>2. QED
    BY <2>1
<1>7. f = Body(f)
  <2> HIDE DEF L
  <2>1. ASSUME NEW n \in 0 .. L
        PROVE  f[n] = Body(f)[n]
    <3>1. CASE n = 0
      BY <1>5, <3>1
    <3>2. CASE n # 0
      <4>1. n \in 1 .. L
        BY <1>2, <3>2
      <4>2. QED
        BY <1>6, <3>2, <4>1
    <3>3. QED
      BY <3>1, <3>2
  <2>2. QED
    BY <2>1, <1>5
<1>8. kept = Body(kept)
  BY <1>7
<1> HIDE DEF kept, L
<1>9. kept[0] = <<>> /\ \A n \in 1 .. L :
         kept[n] = IF seq[n] = h THEN kept[n - 1] ELSE Append(kept[n - 1], seq[n])
  <2>1. \A n \in 0 .. L : kept[n] = Body(kept)[n]
    BY <1>8
  <2>2. 0 \in 0 .. L /\ \A n \in 1 .. L : n \in 0 .. L /\ n # 0
    BY <1>2
  <2>3. Body(kept)[0] = <<>>
    BY <2>2
  <2>4. QED
    BY <2>1, <2>2, <2>3
<1> DEFINE G == {n \in 0 .. L : kept[n] \in Seq(P)}
<1>10. \A n \in 0 .. L : n \in G
  <2>1. 0 \in G
    <3>1. 0 \in 0 .. L
      BY <1>2
    <3>2. QED
      BY <1>4, <1>9, <3>1
  <2>2. \A n \in 1 .. L : n - 1 \in G => n \in G
    <3>1. ASSUME NEW n \in 1 .. L, kept[n - 1] \in Seq(P)
          PROVE  kept[n] \in Seq(P)
      <4>1. Append(kept[n - 1], seq[n]) \in Seq(P)
        BY <1>2, <3>1
      <4>2. QED
        BY <1>9, <3>1, <4>1
    <3>2. \A n \in 1 .. L : n \in 0 .. L
      BY <1>2
    <3>3. QED
      BY <3>1, <3>2
  <2> HIDE DEF G
  <2>3. QED
    BY <1>2, <2>1, <2>2, UpTo
<1>11. kept \in [0 .. L -> Seq(P)]
  BY <1>8, <1>10
<1>12. QED
  BY <1>1, <1>9, <1>11 DEF L

(* The entries of a sequence of chunks, and the pairs of them.              *)
LEMMA EntriesOf ==
    ASSUME NEW q \in Seq(Hash)
    PROVE  /\ Len(q) \in Nat
           /\ \A i \in 1 .. Len(q) : q[i] \in Hash
           /\ \A x : x \in ToSet(q) <=> \E i \in 1 .. Len(q) : x = q[i]
           /\ \A a, b : <<a, b>> \in Pairs(q)
                        <=> \E j, k \in 1 .. Len(q) : j < k /\ a = q[j] /\ b = q[k]
           /\ \A p \in Pairs(q) : p = <<p[1], p[2]>>
<1>1. Len(q) \in Nat /\ DOMAIN q = 1 .. Len(q) /\ \A i \in 1 .. Len(q) : q[i] \in Hash
  BY S!LenProperties, S!ElementOfSeq
<1>2. ToSet(q) = {q[i] : i \in 1 .. Len(q)}
  BY <1>1 DEF ToSet
<1>3. \A a, b : <<a, b>> \in Pairs(q)
                <=> \E j, k \in 1 .. Len(q) : j < k /\ a = q[j] /\ b = q[k]
  <2>1. ASSUME NEW a, NEW b, <<a, b>> \in Pairs(q)
        PROVE  \E j, k \in 1 .. Len(q) : j < k /\ a = q[j] /\ b = q[k]
    BY <1>1, <2>1 DEF Pairs
  <2>2. ASSUME NEW j \in 1 .. Len(q), NEW k \in 1 .. Len(q), j < k
        PROVE  <<q[j], q[k]>> \in Pairs(q)
    <3>1. <<q[j], q[k]>> \in Hash \X Hash
      BY <1>1
    <3>2. QED
      BY <1>1, <2>2, <3>1 DEF Pairs
  <2>3. ASSUME NEW a, NEW b, NEW j \in 1 .. Len(q), NEW k \in 1 .. Len(q),
               j < k, a = q[j], b = q[k]
        PROVE  <<a, b>> \in Pairs(q)
    <3>1. <<a, b>> = <<q[j], q[k]>>
      BY <2>3
    <3>2. QED
      BY <2>2, <2>3, <3>1
  <2>4. ASSUME NEW a, NEW b
        PROVE  <<a, b>> \in Pairs(q)
               <=> \E j, k \in 1 .. Len(q) : j < k /\ a = q[j] /\ b = q[k]
    BY <2>1, <2>3
  <2>5. QED
    BY <2>4
<1>4. \A p \in Pairs(q) : p = <<p[1], p[2]>>
  BY DEF Pairs
<1>5. QED
  BY <1>1, <1>2, <1>3, <1>4

(* Two sets of pairs are the same when they have the same pairs.            *)
LEMMA SamePairs ==
    ASSUME NEW A, NEW B,
           \A p \in A : p = <<p[1], p[2]>>, \A p \in B : p = <<p[1], p[2]>>,
           \A a, b : <<a, b>> \in A <=> <<a, b>> \in B
    PROVE  A = B
<1>1. ASSUME NEW p \in A
      PROVE  p \in B
  <2>1. p = <<p[1], p[2]>> /\ <<p[1], p[2]>> \in A
    OBVIOUS
  <2>2. <<p[1], p[2]>> \in B
    BY <2>1
  <2>3. QED
    BY <2>1, <2>2
<1>2. ASSUME NEW p \in B
      PROVE  p \in A
  <2>1. p = <<p[1], p[2]>> /\ <<p[1], p[2]>> \in B
    OBVIOUS
  <2>2. <<p[1], p[2]>> \in A
    BY <2>1
  <2>3. QED
    BY <2>1, <2>2
<1>3. QED
  BY <1>1, <1>2

LEMMA UsedLastPairs ==
    ASSUME NEW order, \A p \in order : p = <<p[1], p[2]>>, NEW h, NEW kept
    PROVE  /\ \A p \in UsedLast(order, h, kept) : p = <<p[1], p[2]>>
           /\ \A a, b : <<a, b>> \in UsedLast(order, h, kept)
                 <=> \/ <<a, b>> \in order /\ a \in kept /\ b \in kept /\ a # h /\ b # h
                     \/ a \in kept /\ a # h /\ b = h
<1>1. \A a, b : <<a, b>> \in (kept \ {h}) \X {h} <=> a \in kept /\ a # h /\ b = h
  OBVIOUS
<1>2. \A p \in (kept \ {h}) \X {h} : p = <<p[1], p[2]>>
  OBVIOUS
<1>3. \A a, b : <<a, b>>[1] = a /\ <<a, b>>[2] = b
  OBVIOUS
<1>4. QED
  BY <1>1, <1>2, <1>3 DEF UsedLast, Among

(* No chunk is twice in the sequence.                                       *)
NoRepeat(q) == \A p \in Pairs(q) : p[1] # p[2]

LEMMA NoRepeatEntries ==
    ASSUME NEW q \in Seq(Hash)
    PROVE  NoRepeat(q) <=> \A j, k \in 1 .. Len(q) : j < k => q[j] # q[k]
<1>1. \A j, k \in 1 .. Len(q) : j < k => <<q[j], q[k]>> \in Pairs(q)
  BY EntriesOf
<1>2. ASSUME NEW p \in Pairs(q)
      PROVE  \E j, k \in 1 .. Len(q) : j < k /\ p[1] = q[j] /\ p[2] = q[k]
  <2>1. <<p[1], p[2]>> \in Pairs(q)
    BY EntriesOf
  <2>2. QED
    BY <2>1, EntriesOf
<1>3. ASSUME NoRepeat(q), NEW j \in 1 .. Len(q), NEW k \in 1 .. Len(q), j < k
      PROVE  q[j] # q[k]
  <2>1. <<q[j], q[k]>>[1] # <<q[j], q[k]>>[2]
    BY <1>1, <1>3 DEF NoRepeat
  <2>2. QED
    BY <2>1
<1>4. QED
  BY <1>2, <1>3 DEF NoRepeat

LEMMA AppendEntry ==
    ASSUME NEW q \in Seq(Hash), NEW h \in Hash
    PROVE  /\ Append(q, h) \in Seq(Hash)
           /\ Len(Append(q, h)) = Len(q) + 1
           /\ ToSet(Append(q, h)) = ToSet(q) \cup {h}
           /\ \A a, b : <<a, b>> \in Pairs(Append(q, h))
                 <=> <<a, b>> \in Pairs(q) \/ (a \in ToSet(q) /\ b = h)
<1> DEFINE n == Len(q)
           r == Append(q, h)
<1>1. r \in Seq(Hash) /\ Len(r) = n + 1 /\ r[n + 1] = h /\ \A i \in 1 .. n : r[i] = q[i]
  BY S!AppendProperties
<1>2. n \in Nat
  BY EntriesOf
<1>3. \A x : x \in ToSet(q) <=> \E i \in 1 .. n : x = q[i]
  BY EntriesOf
<1>4. \A x : x \in ToSet(r) <=> \E i \in 1 .. (n + 1) : x = r[i]
  <2>1. r \in Seq(Hash) /\ Len(r) = n + 1
    BY <1>1
  <2> HIDE DEF r, n
  <2>2. QED
    BY <2>1, EntriesOf
<1>5. \A a, b : <<a, b>> \in Pairs(q)
                <=> \E j, k \in 1 .. n : j < k /\ a = q[j] /\ b = q[k]
  BY EntriesOf
<1>6. \A a, b : <<a, b>> \in Pairs(r)
                <=> \E j, k \in 1 .. (n + 1) : j < k /\ a = r[j] /\ b = r[k]
  <2> DEFINE m == Len(r)
  <2>1. m = n + 1 /\ r \in Seq(Hash)
    BY <1>1
  <2>2. \A a, b : <<a, b>> \in Pairs(r)
                   <=> \E j, k \in 1 .. m : j < k /\ a = r[j] /\ b = r[k]
    <3> HIDE DEF r
    <3>1. QED
      BY <2>1, EntriesOf
  <2> HIDE DEF m, n, r
  <2>3. ASSUME NEW a, NEW b
        PROVE  <<a, b>> \in Pairs(r)
               <=> \E j, k \in 1 .. (n + 1) : j < k /\ a = r[j] /\ b = r[k]
    <3>1. <<a, b>> \in Pairs(r)
          <=> \E j, k \in 1 .. m : j < k /\ a = r[j] /\ b = r[k]
      BY <2>2
    <3>2. QED
      BY <2>1, <3>1
  <2>4. QED
    BY <2>3
<1> HIDE DEF n, r
<1>7. \A i \in 1 .. (n + 1) : i \in 1 .. n \/ i = n + 1
  BY <1>2
<1>8. n + 1 \in 1 .. (n + 1) /\ \A i \in 1 .. n : i \in 1 .. (n + 1) /\ i < n + 1
  BY <1>2
<1>9. ToSet(r) = ToSet(q) \cup {h}
  BY <1>1, <1>3, <1>4, <1>7, <1>8
<1>10. ASSUME NEW a, NEW b, <<a, b>> \in Pairs(r)
       PROVE  <<a, b>> \in Pairs(q) \/ (a \in ToSet(q) /\ b = h)
  <2>1. PICK j, k \in 1 .. (n + 1) : j < k /\ a = r[j] /\ b = r[k]
    BY <1>6, <1>10
  <2>2. j \in 1 .. n
    BY <1>2, <2>1
  <2>3. a = q[j] /\ a \in ToSet(q)
    BY <1>1, <1>3, <2>1, <2>2
  <2>4. CASE k = n + 1
    BY <1>1, <2>1, <2>3, <2>4
  <2>5. CASE k \in 1 .. n
    BY <1>1, <1>5, <2>1, <2>2, <2>3, <2>5
  <2>6. QED
    BY <1>7, <2>4, <2>5
<1>11. ASSUME NEW a, NEW b, <<a, b>> \in Pairs(q)
       PROVE  <<a, b>> \in Pairs(r)
  <2>1. PICK j, k \in 1 .. n : j < k /\ a = q[j] /\ b = q[k]
    BY <1>5, <1>11
  <2>2. j \in 1 .. (n + 1) /\ k \in 1 .. (n + 1) /\ a = r[j] /\ b = r[k]
    BY <1>1, <1>8, <2>1
  <2>3. QED
    BY <1>6, <2>1, <2>2
<1>12. ASSUME NEW a \in ToSet(q)
       PROVE  <<a, h>> \in Pairs(r)
  <2>1. PICK j \in 1 .. n : a = q[j]
    BY <1>3
  <2>2. j \in 1 .. (n + 1) /\ j < n + 1 /\ a = r[j] /\ h = r[n + 1]
    BY <1>1, <1>8, <2>1
  <2>3. QED
    BY <1>6, <1>8, <2>2
<1>13. QED
  BY <1>1, <1>9, <1>10, <1>11, <1>12 DEF n, r

LEMMA WithoutEntries ==
    ASSUME NEW q \in Seq(Hash), NEW h
    PROVE  /\ Without(q, h) \in Seq(Hash)
           /\ Len(Without(q, h)) <= Len(q)
           /\ h \in ToSet(q) => Len(Without(q, h)) < Len(q)
           /\ ToSet(Without(q, h)) = ToSet(q) \ {h}
           /\ \A a, b : <<a, b>> \in Pairs(Without(q, h))
                        <=> <<a, b>> \in Pairs(q) /\ a # h /\ b # h
<1>1. PICK kept \in [0 .. Len(q) -> Seq(Hash)] :
         /\ kept[0] = <<>>
         /\ \A n \in 1 .. Len(q) :
               kept[n] = IF q[n] = h THEN kept[n - 1] ELSE Append(kept[n - 1], q[n])
         /\ Without(q, h) = kept[Len(q)]
  BY WithoutSteps
<1> DEFINE L == Len(q)
           Short(n) == /\ Len(kept[n]) <= n
                       /\ (\E i \in 1 .. n : q[i] = h) => Len(kept[n]) < n
           Set(n) == \A x : x \in ToSet(kept[n]) <=> x # h /\ \E i \in 1 .. n : x = q[i]
           Order(n) == \A a, b : <<a, b>> \in Pairs(kept[n])
                          <=> /\ a # h /\ b # h
                              /\ \E j, k \in 1 .. n : j < k /\ a = q[j] /\ b = q[k]
           G == {n \in 0 .. L : Short(n) /\ Set(n) /\ Order(n)}
<1>2. L \in Nat /\ (\A i \in 1 .. L : q[i] \in Hash) /\ DOMAIN q = 1 .. L
  BY EntriesOf, S!LenProperties
<1> HIDE DEF L
<1>3. \A n \in 0 .. L : kept[n] \in Seq(Hash) /\ Len(kept[n]) \in Nat
  <2>1. \A n \in 0 .. L : kept[n] \in Seq(Hash)
    BY <1>1 DEF L
  <2>2. QED
    BY <2>1, EntriesOf
<1>4. 0 \in G
  <2>0. kept[0] \in Seq(Hash) /\ kept[0] = <<>> /\ 0 \in 0 .. L
    BY <1>1, <1>2, <1>3
  <2>1. Len(kept[0]) = 0
    BY <2>0
  <2>2. Short(0)
    BY <2>1
  <2>3. Set(0) /\ Order(0)
    <3>1. \A i : i \notin 1 .. Len(kept[0])
      BY <2>1
    <3>2. (\A x : x \notin ToSet(kept[0])) /\ \A a, b : <<a, b>> \notin Pairs(kept[0])
      BY <2>0, <3>1, EntriesOf
    <3>3. \A i : i \notin 1 .. 0
      OBVIOUS
    <3>4. QED
      BY <3>2, <3>3
  <2>4. QED
    BY <2>0, <2>2, <2>3
<1>5. ASSUME NEW n \in 1 .. L, n - 1 \in G
      PROVE  n \in G
  <2>1. n - 1 \in 0 .. L /\ n \in 0 .. L /\ n \in Nat /\ n - 1 \in Nat
    BY <1>2
  <2>2. kept[n - 1] \in Seq(Hash) /\ Len(kept[n - 1]) \in Nat /\ q[n] \in Hash
    BY <1>2, <1>3, <2>1
  <2>3. \A i \in 1 .. n : i \in 1 .. (n - 1) \/ i = n
    BY <2>1
  <2>4. n \in 1 .. n /\ \A i \in 1 .. (n - 1) : i \in 1 .. n /\ i < n
    BY <2>1
  <2>5. \A j, k \in 1 .. n : j < k => j \in 1 .. (n - 1)
    BY <2>1
  <2>6. Short(n - 1) /\ Set(n - 1) /\ Order(n - 1)
    BY <1>5
  <2>7. CASE q[n] = h
    <3>1. kept[n] = kept[n - 1]
      BY <1>1, <2>7 DEF L
    <3>2. Len(kept[n]) <= n /\ Len(kept[n]) < n
      <4>1. Len(kept[n - 1]) <= n - 1
        BY <2>6
      <4>2. QED
        BY <2>1, <2>2, <3>1, <4>1
    <3>3. Set(n)
      BY <2>3, <2>4, <2>6, <2>7, <3>1
    <3>4. Order(n)
      <4>1. ASSUME NEW a, NEW b, a # h, b # h,
                   NEW j \in 1 .. n, NEW k \in 1 .. n, j < k, a = q[j], b = q[k]
            PROVE  <<a, b>> \in Pairs(kept[n])
        <5>1. k # n /\ k \in 1 .. (n - 1) /\ j \in 1 .. (n - 1)
          BY <2>3, <2>5, <2>7, <4>1
        <5>2. QED
          BY <2>6, <3>1, <4>1, <5>1
      <4>2. ASSUME NEW a, NEW b, <<a, b>> \in Pairs(kept[n])
            PROVE  /\ a # h /\ b # h
                   /\ \E j, k \in 1 .. n : j < k /\ a = q[j] /\ b = q[k]
        BY <2>4, <2>6, <3>1, <4>2
      <4>3. ASSUME NEW a, NEW b
            PROVE  <<a, b>> \in Pairs(kept[n])
                   <=> /\ a # h /\ b # h
                       /\ \E j, k \in 1 .. n : j < k /\ a = q[j] /\ b = q[k]
        BY <4>1, <4>2
      <4>4. QED
        BY <4>3
    <3>5. QED
      BY <2>1, <3>2, <3>3, <3>4
  <2>8. CASE q[n] # h
    <3>1. kept[n] = Append(kept[n - 1], q[n])
      BY <1>1, <2>8 DEF L
    <3>2. /\ Len(kept[n]) = Len(kept[n - 1]) + 1
          /\ ToSet(kept[n]) = ToSet(kept[n - 1]) \cup {q[n]}
          /\ \A a, b : <<a, b>> \in Pairs(kept[n])
                <=> <<a, b>> \in Pairs(kept[n - 1]) \/ (a \in ToSet(kept[n - 1]) /\ b = q[n])
      BY <2>2, <3>1, AppendEntry
    <3>3. Short(n)
      <4>1. Len(kept[n]) <= n
        <5>1. Len(kept[n - 1]) <= n - 1
          BY <2>6
        <5>2. QED
          BY <2>1, <2>2, <3>2, <5>1
      <4>2. ASSUME NEW i \in 1 .. n, q[i] = h
            PROVE  Len(kept[n]) < n
        <5>1. i \in 1 .. (n - 1)
          BY <2>3, <2>8, <4>2
        <5>2. Len(kept[n - 1]) < n - 1
          BY <2>6, <4>2, <5>1
        <5>3. QED
          BY <2>1, <2>2, <3>2, <5>2
      <4>3. QED
        BY <4>1, <4>2
    <3>4. Set(n)
      BY <2>3, <2>4, <2>6, <2>8, <3>2
    <3>5. Order(n)
      <4>1. ASSUME NEW a, NEW b, a # h, b # h,
                   NEW j \in 1 .. n, NEW k \in 1 .. n, j < k, a = q[j], b = q[k]
            PROVE  <<a, b>> \in Pairs(kept[n])
        <5>1. j \in 1 .. (n - 1)
          BY <2>5, <4>1
        <5>2. a \in ToSet(kept[n - 1])
          BY <2>6, <4>1, <5>1
        <5>3. CASE k = n
          BY <3>2, <4>1, <5>2, <5>3
        <5>4. CASE k \in 1 .. (n - 1)
          <6>1. <<a, b>> \in Pairs(kept[n - 1])
            BY <2>6, <4>1, <5>1, <5>4
          <6>2. QED
            BY <3>2, <6>1
        <5>5. QED
          BY <2>3, <5>3, <5>4
      <4>2. ASSUME NEW a, NEW b, <<a, b>> \in Pairs(kept[n])
            PROVE  /\ a # h /\ b # h
                   /\ \E j, k \in 1 .. n : j < k /\ a = q[j] /\ b = q[k]
        <5>1. ASSUME <<a, b>> \in Pairs(kept[n - 1])
              PROVE  /\ a # h /\ b # h
                     /\ \E j, k \in 1 .. n : j < k /\ a = q[j] /\ b = q[k]
          BY <2>4, <2>6, <5>1
        <5>2. ASSUME a \in ToSet(kept[n - 1]), b = q[n]
              PROVE  /\ a # h /\ b # h
                     /\ \E j, k \in 1 .. n : j < k /\ a = q[j] /\ b = q[k]
          BY <2>4, <2>6, <2>8, <5>2
        <5>3. QED
          BY <3>2, <4>2, <5>1, <5>2
      <4>3. ASSUME NEW a, NEW b
            PROVE  <<a, b>> \in Pairs(kept[n])
                   <=> /\ a # h /\ b # h
                       /\ \E j, k \in 1 .. n : j < k /\ a = q[j] /\ b = q[k]
        BY <4>1, <4>2
      <4>4. QED
        BY <4>3
    <3>6. QED
      BY <2>1, <3>3, <3>4, <3>5
  <2>9. QED
    BY <2>7, <2>8
<1>6. L \in G
  <2> HIDE DEF G
  <2>1. \A n \in 0 .. L : n \in G
    BY <1>2, <1>4, <1>5, UpTo
  <2>2. QED
    BY <1>2, <2>1
<1>7. Short(L) /\ Set(L) /\ Order(L)
  BY <1>6
<1>8. Without(q, h) = kept[L] /\ kept[L] \in Seq(Hash)
  BY <1>1, <1>2, <1>3 DEF L
<1>9. \A x : x \in ToSet(q) <=> \E i \in 1 .. L : x = q[i]
  BY EntriesOf DEF L
<1>10. \A a, b : <<a, b>> \in Pairs(q)
                 <=> \E j, k \in 1 .. L : j < k /\ a = q[j] /\ b = q[k]
  BY EntriesOf DEF L
<1>11. ToSet(kept[L]) = ToSet(q) \ {h}
  BY <1>7, <1>9
<1>12. h \in ToSet(q) => Len(kept[L]) < L
  BY <1>7, <1>9
<1>13. QED
  BY <1>7, <1>8, <1>10, <1>11, <1>12 DEF L

-----------------------------------------------------------------------------
(* One shard.                                                               *)
Index == [signatures : SUBSET Hash, lru : Seq(Hash), count : Nat,
          lists : [Slot -> [Features -> Seq(Hash)]]]

(* What holds of a shard whatever was inserted in it.                       *)
Sound(x) ==
    /\ x \in Index
    /\ IsFiniteSet(x.signatures)
    /\ ToSet(x.lru) = x.signatures
    /\ Cardinality(x.signatures) <= x.count
    /\ \A s \in Slot, f \in Features :
          ToSet(x.lists[s][f]) = {h \in x.signatures : Feature[h][s] = f}

(* What holds in addition while no chunk was inserted twice.                *)
Exact(x) == x.count = Cardinality(x.signatures) /\ NoRepeat(x.lru)

(* A shard has room for one entry at least.                                 *)
Fits(x) == Cardinality(x.signatures) <= 1 \/ Cardinality(x.signatures) <= ShardBudget

LEMMA SoundParts ==
    ASSUME NEW x, Sound(x)
    PROVE  /\ x.signatures \subseteq Hash /\ x.lru \in Seq(Hash) /\ x.count \in Nat
           /\ \A s \in Slot, f \in Features : x.lists[s][f] \in Seq(Hash)
           /\ Cardinality(x.signatures) \in Nat
           /\ x = [signatures |-> x.signatures, lru |-> x.lru, count |-> x.count,
                   lists |-> x.lists]
           /\ x.lists \in [Slot -> [Features -> Seq(Hash)]]
BY FS_CardinalityType DEF Sound, Index

LEMMA RemovedSound ==
    ASSUME NEW x, Sound(x), NEW h \in x.signatures
    PROVE  /\ Sound(Removed(x, h))
           /\ Removed(x, h).signatures = x.signatures \ {h}
           /\ Exact(x) => Exact(Removed(x, h))
           /\ Len(Removed(x, h).lru) < Len(x.lru)
           /\ \A a, b : <<a, b>> \in Pairs(Removed(x, h).lru)
                        <=> <<a, b>> \in Pairs(x.lru) /\ a # h /\ b # h
<1> DEFINE y == Removed(x, h)
<1>1. /\ y.signatures = x.signatures \ {h} /\ y.lru = Without(x.lru, h)
      /\ y.count = x.count - 1
      /\ y.lists = [s \in Slot |-> [f \in Features |-> Without(x.lists[s][f], h)]]
      /\ y = [signatures |-> y.signatures, lru |-> y.lru, count |-> y.count,
              lists |-> y.lists]
  BY DEF Removed
<1> HIDE DEF y
<1>2. /\ x.signatures \subseteq Hash /\ x.lru \in Seq(Hash) /\ x.count \in Nat
      /\ \A s \in Slot, f \in Features : x.lists[s][f] \in Seq(Hash)
      /\ Cardinality(x.signatures) \in Nat
  BY SoundParts
<1>3. /\ IsFiniteSet(x.signatures) /\ ToSet(x.lru) = x.signatures
      /\ Cardinality(x.signatures) <= x.count
      /\ \A s \in Slot, f \in Features :
            ToSet(x.lists[s][f]) = {g \in x.signatures : Feature[g][s] = f}
  BY DEF Sound
<1>4. /\ y.lru \in Seq(Hash) /\ ToSet(y.lru) = x.signatures \ {h}
      /\ Len(y.lru) < Len(x.lru)
      /\ \A a, b : <<a, b>> \in Pairs(y.lru) <=> <<a, b>> \in Pairs(x.lru) /\ a # h /\ b # h
  <2> DEFINE q == x.lru
             r == Without(q, h)
  <2>1. q \in Seq(Hash) /\ ToSet(q) = x.signatures /\ h \in ToSet(q) /\ y.lru = r
    BY <1>1, <1>2, <1>3
  <2> HIDE DEF q
  <2>2. /\ r \in Seq(Hash) /\ ToSet(r) = ToSet(q) \ {h} /\ Len(r) < Len(q)
        /\ \A a, b : <<a, b>> \in Pairs(r) <=> <<a, b>> \in Pairs(q) /\ a # h /\ b # h
    BY <2>1, WithoutEntries
  <2> HIDE DEF r
  <2>3. QED
    BY <2>1, <2>2 DEF q
<1>5. \A s \in Slot, f \in Features :
         /\ y.lists[s][f] \in Seq(Hash)
         /\ ToSet(y.lists[s][f]) = {g \in y.signatures : Feature[g][s] = f}
  <2>1. ASSUME NEW s \in Slot, NEW f \in Features
        PROVE  /\ y.lists[s][f] \in Seq(Hash)
               /\ ToSet(y.lists[s][f]) = {g \in y.signatures : Feature[g][s] = f}
    <3>1. y.lists[s][f] = Without(x.lists[s][f], h)
      BY <1>1
    <3>2. y.lists[s][f] \in Seq(Hash) /\ ToSet(y.lists[s][f]) = ToSet(x.lists[s][f]) \ {h}
      BY <1>2, <3>1, WithoutEntries
    <3>3. QED
      BY <1>1, <1>3, <3>2
  <2>2. QED
    BY <2>1
<1>6. /\ IsFiniteSet(y.signatures)
      /\ Cardinality(y.signatures) = Cardinality(x.signatures) - 1
  BY <1>1, <1>3, FS_RemoveElement
<1>7. Cardinality(y.signatures) \in Nat
  BY <1>6, FS_CardinalityType
<1>8. y.count \in Nat /\ Cardinality(y.signatures) <= y.count
  BY <1>1, <1>2, <1>3, <1>6, <1>7
<1>9. y.lists \in [Slot -> [Features -> Seq(Hash)]]
  <2>1. \A s \in Slot : \A f \in Features : Without(x.lists[s][f], h) \in Seq(Hash)
    BY <1>2, WithoutEntries
  <2>2. QED
    BY <1>1, <2>1
<1>10. y \in Index
  BY <1>1, <1>2, <1>4, <1>8, <1>9 DEF Index
<1>11. Sound(y)
  BY <1>1, <1>4, <1>5, <1>6, <1>8, <1>10 DEF Sound
<1>12. ASSUME Exact(x)
       PROVE  Exact(y)
  <2>1. y.count = Cardinality(y.signatures)
    BY <1>1, <1>2, <1>6, <1>12 DEF Exact
  <2>2. NoRepeat(y.lru)
    <3>1. ASSUME NEW p \in Pairs(y.lru)
          PROVE  p[1] # p[2]
      <4>1. p = <<p[1], p[2]>>
        BY <1>4, EntriesOf
      <4>2. <<p[1], p[2]>> \in Pairs(x.lru)
        BY <1>4, <4>1
      <4>3. p \in Pairs(x.lru)
        BY <4>1, <4>2
      <4>4. QED
        BY <1>12, <4>3 DEF Exact, NoRepeat
    <3>2. QED
      BY <3>1 DEF NoRepeat
  <2>3. QED
    BY <2>1, <2>2 DEF Exact
<1>13. QED
  BY <1>1, <1>4, <1>11, <1>12 DEF y

(* What is left of a shard when entries were evicted.                       *)
Shrunk(x, y) ==
    /\ Sound(y)
    /\ y.signatures \subseteq x.signatures
    /\ Exact(x) => Exact(y)
    /\ \A a, b : <<a, b>> \in Pairs(y.lru)
                 <=> <<a, b>> \in Pairs(x.lru) /\ a \in y.signatures /\ b \in y.signatures

LEMMA PairsAreEntries ==
    ASSUME NEW x, Sound(x), NEW a, NEW b, <<a, b>> \in Pairs(x.lru)
    PROVE  a \in x.signatures /\ b \in x.signatures
<1>1. x.lru \in Seq(Hash) /\ ToSet(x.lru) = x.signatures
  BY SoundParts DEF Sound
<1>2. QED
  BY <1>1, EntriesOf

LEMMA EvictOldestShrinks ==
    ASSUME NEW x, Sound(x)
    PROVE  /\ Shrunk(x, EvictOldest(x))
           /\ ~Full(x) => EvictOldest(x) = x
           /\ Full(x) /\ x.lru # <<>> => Len(EvictOldest(x).lru) < Len(x.lru)
<1>1. Shrunk(x, x)
  BY PairsAreEntries DEF Shrunk
<1>2. CASE Full(x) /\ x.lru # <<>>
  <2> DEFINE h == Head(x.lru)
  <2>0. EvictOldest(x) = Removed(x, h)
    BY <1>2 DEF EvictOldest
  <2>1. h \in x.signatures
    <3>1. x.lru \in Seq(Hash) /\ ToSet(x.lru) = x.signatures
      BY SoundParts DEF Sound
    <3>2. Len(x.lru) \in Nat \ {0}
      BY <1>2, <3>1, S!EmptySeq
    <3>3. h = x.lru[1]
      BY <1>2, <3>1
    <3>4. 1 \in 1 .. Len(x.lru)
      BY <3>2
    <3>5. QED
      BY <3>1, <3>3, <3>4, EntriesOf
  <2> HIDE DEF h
  <2> DEFINE y == Removed(x, h)
  <2>2. /\ Sound(y) /\ y.signatures = x.signatures \ {h} /\ (Exact(x) => Exact(y))
        /\ Len(y.lru) < Len(x.lru)
        /\ \A a, b : <<a, b>> \in Pairs(y.lru)
                     <=> <<a, b>> \in Pairs(x.lru) /\ a # h /\ b # h
    BY <2>1, RemovedSound
  <2> HIDE DEF y
  <2>3. Shrunk(x, y)
    BY <2>2, PairsAreEntries DEF Shrunk
  <2>4. QED
    BY <1>2, <2>0, <2>2, <2>3 DEF y
<1>3. CASE ~(Full(x) /\ x.lru # <<>>)
  <2>1. EvictOldest(x) = x
    BY <1>3 DEF EvictOldest
  <2>2. QED
    BY <1>1, <1>3, <2>1
<1>4. QED
  BY <1>2, <1>3

LEMMA EnforceSteps ==
    ASSUME NEW x, Sound(x)
    PROVE  \E after :
              /\ \A n \in 0 .. Len(x.lru) : Sound(after[n])
              /\ after[0] = x
              /\ \A n \in 1 .. Len(x.lru) : after[n] = EvictOldest(after[n - 1])
              /\ EnforceBudget(x) = after[Len(x.lru)]
<1> DEFINE L == Len(x.lru)
           Body(k) == [n \in 0 .. L |-> IF n = 0 THEN x ELSE EvictOldest(k[n - 1])]
           after == CHOOSE k : k = Body(k)
           X == {z \in Index : Sound(z)}
           step == [n \in 1 .. L |-> [z \in X |-> EvictOldest(z)]]
<1>1. EnforceBudget(x) = after[L]
  BY DEF EnforceBudget
<1>2. L \in Nat
  BY SoundParts, EntriesOf
<1> HIDE DEF L
<1>3. x \in X
  BY DEF Sound
<1>4. \A z \in X : EvictOldest(z) \in X
  BY EvictOldestShrinks DEF Shrunk, Sound
<1> HIDE DEF X
<1>5. step \in [1 .. L -> [X -> X]]
  BY <1>4
<1>6. PICK f \in [0 .. L -> X] : f[0] = x /\ \A n \in 1 .. L : f[n] = step[n][f[n - 1]]
  <2> HIDE DEF step
  <2>1. QED
    BY <1>2, <1>3, <1>5, Iteration
<1>7. ASSUME NEW n \in 1 .. L
      PROVE  f[n] = EvictOldest(f[n - 1])
  <2>1. n - 1 \in 0 .. L
    BY <1>2
  <2>2. f[n - 1] \in X
    BY <1>6, <2>1
  <2>3. step[n][f[n - 1]] = EvictOldest(f[n - 1])
    BY <2>2
  <2>4. QED
    BY <1>6, <2>3
<1>8. f = Body(f)
  <2>1. ASSUME NEW n \in 0 .. L
        PROVE  f[n] = Body(f)[n]
    <3>1. CASE n = 0
      BY <1>6, <3>1
    <3>2. CASE n # 0
      <4>1. n \in 1 .. L
        BY <1>2, <3>2
      <4>2. QED
        BY <1>7, <3>2, <4>1
    <3>3. QED
      BY <3>1, <3>2
  <2>2. QED
    BY <2>1, <1>6
<1>9. after = Body(after)
  BY <1>8
<1> HIDE DEF after
<1>10. after[0] = x /\ \A n \in 1 .. L : after[n] = EvictOldest(after[n - 1])
  <2>1. \A n \in 0 .. L : after[n] = Body(after)[n]
    BY <1>9
  <2>2. 0 \in 0 .. L /\ \A n \in 1 .. L : n \in 0 .. L /\ n # 0
    BY <1>2
  <2>3. Body(after)[0] = x
    BY <2>2
  <2>4. QED
    BY <2>1, <2>2, <2>3
<1> DEFINE G == {n \in 0 .. L : Sound(after[n])}
<1>11. \A n \in 0 .. L : n \in G
  <2>1. 0 \in G
    BY <1>2, <1>10
  <2>2. ASSUME NEW n \in 1 .. L, n - 1 \in G
        PROVE  n \in G
    <3>1. Sound(EvictOldest(after[n - 1]))
      BY <2>2, EvictOldestShrinks DEF Shrunk
    <3>2. n \in 0 .. L
      BY <1>2
    <3>3. QED
      BY <1>10, <3>1, <3>2
  <2> HIDE DEF G
  <2>3. QED
    BY <1>2, <2>1, <2>2, UpTo
<1>12. QED
  BY <1>1, <1>10, <1>11 DEF L

LEMMA EnforceShrinks ==
    ASSUME NEW x, Sound(x)
    PROVE  /\ Shrunk(x, EnforceBudget(x))
           /\ ~Full(x) => EnforceBudget(x) = x
           /\ ~Full(EnforceBudget(x)) \/ EnforceBudget(x).lru = <<>>
<1>1. PICK after :
         /\ \A n \in 0 .. Len(x.lru) : Sound(after[n])
         /\ after[0] = x
         /\ \A n \in 1 .. Len(x.lru) : after[n] = EvictOldest(after[n - 1])
         /\ EnforceBudget(x) = after[Len(x.lru)]
  BY EnforceSteps
<1> DEFINE L == Len(x.lru)
           Rest(n) == /\ Shrunk(x, after[n])
                      /\ ~Full(x) => after[n] = x
                      /\ ~Full(after[n]) \/ Len(after[n].lru) <= L - n
           G == {n \in 0 .. L : Rest(n)}
<1>2. L \in Nat
  BY SoundParts, EntriesOf
<1>3. 0 \in G
  <2>1. Shrunk(x, x)
    BY PairsAreEntries DEF Shrunk
  <2>2. Rest(0)
    BY <1>1, <1>2, <2>1
  <2>3. QED
    BY <1>2, <2>2
<1> HIDE DEF L
<1>4. ASSUME NEW n \in 1 .. L, n - 1 \in G
      PROVE  n \in G
  <2> DEFINE y == after[n - 1]
             z == after[n]
  <2>1. n - 1 \in 0 .. L /\ n \in 0 .. L /\ n \in Nat
    BY <1>2
  <2>2. Sound(y) /\ Sound(z) /\ z = EvictOldest(y)
    BY <1>1, <2>1 DEF L
  <2>3. Rest(n - 1)
    BY <1>4
  <2>4. /\ Shrunk(y, z) /\ (~Full(y) => z = y)
        /\ (Full(y) /\ y.lru # <<>> => Len(z.lru) < Len(y.lru))
    BY <2>2, EvictOldestShrinks
  <2>5. Shrunk(x, z)
    BY <2>3, <2>4 DEF Shrunk
  <2>6. ~Full(x) => z = x
    BY <2>3, <2>4
  <2>7. Len(y.lru) \in Nat /\ Len(z.lru) \in Nat
    BY <2>2, SoundParts, EntriesOf
  <2>8. ~Full(z) \/ Len(z.lru) <= L - n
    <3>1. CASE ~Full(y)
      BY <2>4, <3>1
    <3>2. CASE Full(y)
      <4>1. Len(y.lru) <= L - (n - 1)
        BY <2>3, <3>2
      <4>2. CASE y.lru = <<>>
        <5>1. z.signatures = {} /\ y.signatures = {}
          <6>1. y.signatures = {}
            <7>1. ToSet(y.lru) = y.signatures /\ y.lru \in Seq(Hash)
              BY <2>2, SoundParts DEF Sound
            <7>2. Len(y.lru) = 0
              BY <4>2
            <7>3. \A i : i \notin 1 .. Len(y.lru)
              BY <7>2
            <7>4. QED
              BY <7>1, <7>3, EntriesOf
          <6>2. QED
            BY <2>4, <6>1 DEF Shrunk
        <5>2. Len(z.lru) = 0
          <6>1. z.lru \in Seq(Hash) /\ ToSet(z.lru) = {}
            BY <2>2, <5>1, SoundParts DEF Sound
          <6>2. \A i \in 1 .. Len(z.lru) : z.lru[i] \in ToSet(z.lru)
            BY <6>1, EntriesOf
          <6>3. 1 \notin 1 .. Len(z.lru)
            BY <6>1, <6>2
          <6>4. QED
            BY <2>7, <6>3
        <5>3. L - n \in Nat
          BY <1>2, <2>1
        <5>4. QED
          BY <5>2, <5>3
      <4>3. CASE y.lru # <<>>
        <5>1. Len(z.lru) < Len(y.lru)
          BY <2>4, <3>2, <4>3
        <5>2. QED
          BY <1>2, <2>1, <2>7, <4>1, <5>1
      <4>4. QED
        BY <4>2, <4>3
    <3>3. QED
      BY <3>1, <3>2
  <2>9. Rest(n)
    BY <2>5, <2>6, <2>8
  <2>10. QED
    BY <2>1, <2>9
<1>5. L \in G
  <2> HIDE DEF G
  <2>1. \A n \in 0 .. L : n \in G
    BY <1>2, <1>3, <1>4, UpTo
  <2>2. QED
    BY <1>2, <2>1
<1>6. Rest(L) /\ EnforceBudget(x) = after[L]
  BY <1>1, <1>5 DEF L
<1> DEFINE y == after[L]
<1>7. ~Full(y) \/ y.lru = <<>>
  <2>1. y.lru \in Seq(Hash)
    BY <1>6, SoundParts DEF Shrunk
  <2>2. Len(y.lru) \in Nat
    BY <2>1, EntriesOf
  <2>3. ~Full(y) \/ Len(y.lru) = 0
    BY <1>2, <1>6, <2>2
  <2>4. Len(y.lru) = 0 => y.lru = <<>>
    BY <2>1, S!EmptySeq
  <2>5. QED
    BY <2>3, <2>4
<1>8. QED
  BY <1>6, <1>7

LEMMA ShardBudgetNat == ShardBudget \in Nat
<1>1. Cardinality(Shard) \in Nat /\ Cardinality(Shard) # 0
  BY ShardAssumption, FS_CardinalityType, FS_EmptySet
<1>2. QED
  BY <1>1, SizeAssumption DEF ShardBudget

(* What insert does to a shard.                                             *)
LEMMA InsertedSound ==
    ASSUME NEW x, Sound(x), NEW h \in Hash
    PROVE  /\ Sound(Inserted(x, h)) /\ Fits(Inserted(x, h))
           /\ h \in Inserted(x, h).signatures
           /\ Inserted(x, h).signatures \subseteq x.signatures \cup {h}
           /\ ~Full(x) => x.signatures \subseteq Inserted(x, h).signatures
           /\ Exact(x) /\ h \notin x.signatures =>
                 /\ Exact(Inserted(x, h))
                 /\ Pairs(Inserted(x, h).lru)
                    = UsedLast(Pairs(x.lru), h, Inserted(x, h).signatures)
<1> DEFINE y == EnforceBudget(x)
           z == Inserted(x, h)
<1>1. /\ z.signatures = y.signatures \cup {h} /\ z.lru = Append(y.lru, h)
      /\ z.count = y.count + 1 /\ z.lists = Listed(y.lists, h)
      /\ z = [signatures |-> z.signatures, lru |-> z.lru, count |-> z.count,
              lists |-> z.lists]
  BY DEF Inserted
<1>2. Shrunk(x, y) /\ (~Full(x) => y = x) /\ (~Full(y) \/ y.lru = <<>>)
  BY EnforceShrinks
<1> HIDE DEF y, z
<1>3. Sound(y) /\ y.signatures \subseteq x.signatures /\ (Exact(x) => Exact(y))
  BY <1>2 DEF Shrunk
<1>4. /\ y.signatures \subseteq Hash /\ y.lru \in Seq(Hash) /\ y.count \in Nat
      /\ \A s \in Slot, f \in Features : y.lists[s][f] \in Seq(Hash)
      /\ Cardinality(y.signatures) \in Nat
  BY <1>3, SoundParts
<1>5. /\ IsFiniteSet(y.signatures) /\ ToSet(y.lru) = y.signatures
      /\ Cardinality(y.signatures) <= y.count
      /\ \A s \in Slot, f \in Features :
            ToSet(y.lists[s][f]) = {g \in y.signatures : Feature[g][s] = f}
  BY <1>3 DEF Sound
<1>6. /\ z.lru \in Seq(Hash) /\ ToSet(z.lru) = z.signatures
      /\ \A a, b : <<a, b>> \in Pairs(z.lru)
            <=> <<a, b>> \in Pairs(y.lru) \/ (a \in y.signatures /\ b = h)
  <2> DEFINE q == y.lru
             r == Append(q, h)
  <2>1. q \in Seq(Hash) /\ ToSet(q) = y.signatures /\ z.lru = r
    BY <1>1, <1>4, <1>5
  <2> HIDE DEF q
  <2>2. /\ r \in Seq(Hash) /\ ToSet(r) = ToSet(q) \cup {h}
        /\ \A a, b : <<a, b>> \in Pairs(r) <=> <<a, b>> \in Pairs(q) \/ (a \in ToSet(q) /\ b = h)
    BY <2>1, AppendEntry
  <2> HIDE DEF r
  <2>3. QED
    BY <1>1, <2>1, <2>2 DEF q
<1>7. \A s \in Slot, f \in Features :
         /\ z.lists[s][f] \in Seq(Hash)
         /\ ToSet(z.lists[s][f]) = {g \in z.signatures : Feature[g][s] = f}
  <2>1. ASSUME NEW s \in Slot, NEW f \in Features
        PROVE  /\ z.lists[s][f] \in Seq(Hash)
               /\ ToSet(z.lists[s][f]) = {g \in z.signatures : Feature[g][s] = f}
    <3> DEFINE q == y.lists[s][f]
    <3>1. z.lists[s][f] = IF f = Feature[h][s] THEN Append(q, h) ELSE q
      BY <1>1 DEF Listed
    <3>2. q \in Seq(Hash) /\ ToSet(q) = {g \in y.signatures : Feature[g][s] = f}
      BY <1>4, <1>5
    <3> HIDE DEF q
    <3>3. CASE f = Feature[h][s]
      <4>1. z.lists[s][f] \in Seq(Hash) /\ ToSet(z.lists[s][f]) = ToSet(q) \cup {h}
        BY <3>1, <3>2, <3>3, AppendEntry
      <4>2. QED
        BY <1>1, <3>2, <3>3, <4>1
    <3>4. CASE f # Feature[h][s]
      BY <1>1, <3>1, <3>2, <3>4
    <3>5. QED
      BY <3>3, <3>4
  <2>2. QED
    BY <2>1
<1>8. /\ IsFiniteSet(z.signatures)
      /\ Cardinality(z.signatures) = IF h \in y.signatures THEN Cardinality(y.signatures)
                                     ELSE Cardinality(y.signatures) + 1
  <2> DEFINE T == y.signatures
  <2>1. IsFiniteSet(T) /\ z.signatures = T \cup {h}
    BY <1>1, <1>5
  <2> HIDE DEF T
  <2>2. /\ IsFiniteSet(T \cup {h})
        /\ Cardinality(T \cup {h}) = IF h \in T THEN Cardinality(T) ELSE Cardinality(T) + 1
    BY <2>1, FS_AddElement
  <2>3. QED
    BY <2>1, <2>2 DEF T
<1>9. z.count \in Nat /\ Cardinality(z.signatures) <= z.count
  BY <1>1, <1>4, <1>5, <1>8
<1>10. z.lists \in [Slot -> [Features -> Seq(Hash)]]
  <2>1. z.lists = [s \in Slot |-> [f \in Features |->
                     IF f = Feature[h][s] THEN Append(y.lists[s][f], h) ELSE y.lists[s][f]]]
    BY <1>1 DEF Listed
  <2>2. \A s \in Slot : \A f \in Features :
           (IF f = Feature[h][s] THEN Append(y.lists[s][f], h) ELSE y.lists[s][f]) \in Seq(Hash)
    BY <1>4, AppendEntry
  <2>3. QED
    BY <2>1, <2>2
<1>11. z \in Index
  BY <1>1, <1>4, <1>6, <1>9, <1>10 DEF Index
<1>12. Sound(z)
  BY <1>6, <1>7, <1>8, <1>9, <1>11 DEF Sound
<1>13. Fits(z)
  <2>1. CASE y.lru = <<>>
    <3>1. y.signatures = {}
      <4>1. Len(y.lru) = 0
        BY <2>1
      <4>2. \A i : i \notin 1 .. Len(y.lru)
        BY <4>1
      <4>3. QED
        BY <1>4, <1>5, <4>2, EntriesOf
    <3>2. Cardinality(y.signatures) = 0
      BY <3>1, FS_EmptySet
    <3>3. QED
      BY <1>8, <3>2 DEF Fits
  <2>2. CASE ~Full(y)
    <3>1. y.count = 0 \/ y.count < ShardBudget
      BY <1>4, <2>2, ShardBudgetNat DEF Full
    <3>2. QED
      BY <1>4, <1>5, <1>8, <3>1, ShardBudgetNat DEF Fits
  <2>3. QED
    BY <1>2, <2>1, <2>2
<1>14. ASSUME Exact(x), h \notin x.signatures
       PROVE  Exact(z) /\ Pairs(z.lru) = UsedLast(Pairs(x.lru), h, z.signatures)
  <2>1. h \notin y.signatures /\ y.count = Cardinality(y.signatures) /\ NoRepeat(y.lru)
    BY <1>3, <1>14 DEF Exact
  <2>2. z.count = Cardinality(z.signatures)
    BY <1>1, <1>8, <2>1
  <2>3. NoRepeat(z.lru)
    <3>1. ASSUME NEW p \in Pairs(z.lru)
          PROVE  p[1] # p[2]
      <4>1. p = <<p[1], p[2]>>
        BY <1>6, EntriesOf
      <4>2. <<p[1], p[2]>> \in Pairs(y.lru) \/ (p[1] \in y.signatures /\ p[2] = h)
        BY <1>6, <4>1
      <4>3. CASE <<p[1], p[2]>> \in Pairs(y.lru)
        <5>1. p \in Pairs(y.lru)
          BY <4>1, <4>3
        <5>2. QED
          BY <2>1, <5>1 DEF NoRepeat
      <4>4. QED
        BY <2>1, <4>2, <4>3
    <3>2. QED
      BY <3>1 DEF NoRepeat
  <2>4. Pairs(z.lru) = UsedLast(Pairs(x.lru), h, z.signatures)
    <3>0. \A p \in Pairs(x.lru) : p = <<p[1], p[2]>>
      BY DEF Pairs
    <3>1. \A a, b : <<a, b>> \in UsedLast(Pairs(x.lru), h, z.signatures)
             <=> \/ <<a, b>> \in Pairs(x.lru) /\ a \in z.signatures /\ b \in z.signatures
                    /\ a # h /\ b # h
                 \/ a \in z.signatures /\ a # h /\ b = h
      BY <3>0, UsedLastPairs
    <3>2. \A a, b : <<a, b>> \in Pairs(y.lru)
             <=> <<a, b>> \in Pairs(x.lru) /\ a \in y.signatures /\ b \in y.signatures
      BY <1>2 DEF Shrunk
    <3>3. \A a : a \in y.signatures <=> a \in z.signatures /\ a # h
      BY <1>1, <2>1
    <3>4. \A a, b : <<a, b>> \in Pairs(z.lru)
                    <=> <<a, b>> \in UsedLast(Pairs(x.lru), h, z.signatures)
      BY <1>6, <3>1, <3>2, <3>3
    <3>5. \A p \in UsedLast(Pairs(x.lru), h, z.signatures) : p = <<p[1], p[2]>>
      BY <3>0, UsedLastPairs
    <3>6. \A p \in Pairs(z.lru) : p = <<p[1], p[2]>>
      BY DEF Pairs
    <3>7. QED
      BY <3>4, <3>5, <3>6, SamePairs
  <2>5. QED
    BY <2>2, <2>3, <2>4 DEF Exact
<1>15. ~Full(x) => x.signatures \subseteq z.signatures
  BY <1>1, <1>2
<1>16. h \in z.signatures /\ z.signatures \subseteq x.signatures \cup {h}
  BY <1>1, <1>3
<1>17. QED
  BY <1>12, <1>13, <1>14, <1>15, <1>16 DEF z

-----------------------------------------------------------------------------
(* The queue when an entry is used.                                         *)
LEMMA RemoveAtEntries ==
    ASSUME NEW P, NEW s \in Seq(P), NEW i \in 1 .. Len(s)
    PROVE  /\ RemoveAt(s, i) \in Seq(P)
           /\ Len(RemoveAt(s, i)) = Len(s) - 1
           /\ \A k \in 1 .. (Len(s) - 1) :
                 RemoveAt(s, i)[k] = IF k < i THEN s[k] ELSE s[k + 1]
<1> DEFINE n == Len(s)
           a == SubSeq(s, 1, i - 1)
           b == SubSeq(s, i + 1, n)
<1>1. n \in Nat /\ i \in 1 .. n
  BY S!LenProperties
<1>2. \A k \in 1 .. n : s[k] \in P
  BY S!ElementOfSeq
<1> HIDE DEF n
<1>3. \A k \in 1 .. (i - 1) : s[k] \in P
  BY <1>1, <1>2
<1>4. \A k \in (i + 1) .. n : s[k] \in P
  BY <1>1, <1>2
<1>5. a \in Seq(P) /\ Len(a) = (IF 1 <= i - 1 THEN (i - 1) - 1 + 1 ELSE 0)
      /\ \A k \in 1 .. ((i - 1) - 1 + 1) : a[k] = s[1 + k - 1]
  <2>1. 1 \in Int /\ i - 1 \in Int
    BY <1>1
  <2>2. QED
    BY ONLY <1>3, <2>1, S!SubSeqProperties
<1>6. b \in Seq(P) /\ Len(b) = (IF i + 1 <= n THEN n - (i + 1) + 1 ELSE 0)
      /\ \A k \in 1 .. (n - (i + 1) + 1) : b[k] = s[(i + 1) + k - 1]
  <2>1. i + 1 \in Int /\ n \in Int
    BY <1>1
  <2>2. QED
    BY ONLY <1>4, <2>1, S!SubSeqProperties
<1> HIDE DEF a, b
<1>7. Len(a) = i - 1 /\ Len(b) = n - i
  BY <1>1, <1>5, <1>6
<1>8. \A k \in 1 .. (i - 1) : a[k] = s[k]
  BY <1>1, <1>5
<1>9. \A k \in 1 .. (n - i) : b[k] = s[i + k]
  BY <1>1, <1>6
<1>10. a \o b \in Seq(P) /\ Len(a \o b) = Len(a) + Len(b)
       /\ \A k \in 1 .. (Len(a) + Len(b)) :
             (a \o b)[k] = IF k <= Len(a) THEN a[k] ELSE b[k - Len(a)]
  BY <1>5, <1>6, S!ConcatProperties
<1>11. RemoveAt(s, i) = a \o b
  BY DEF RemoveAt, a, b, n
<1> DEFINE r == a \o b
<1>12. r \in Seq(P) /\ Len(r) = n - 1
  BY <1>1, <1>7, <1>10
<1>13. ASSUME NEW k \in 1 .. (n - 1)
       PROVE  r[k] = IF k < i THEN s[k] ELSE s[k + 1]
  <2>1. r[k] = IF k <= i - 1 THEN a[k] ELSE b[k - (i - 1)]
    BY <1>1, <1>7, <1>10, <1>13
  <2> HIDE DEF r
  <2>2. CASE k < i
    BY <1>1, <1>8, <1>13, <2>1, <2>2
  <2>3. CASE ~(k < i)
    <3>1. k - (i - 1) \in 1 .. (n - i) /\ i + (k - (i - 1)) = k + 1 /\ ~(k <= i - 1)
      BY <1>1, <1>13, <2>3
    <3>2. QED
      BY <1>9, <2>1, <2>3, <3>1
  <2>4. QED
    BY <2>2, <2>3
<1>14. QED
  BY <1>11, <1>12, <1>13 DEF n


(* An entry moved to the end of the queue.                                  *)
LEMMA MovedToEnd ==
    ASSUME NEW q \in Seq(Hash), NEW i \in 1 .. Len(q)
    PROVE  LET r == Append(RemoveAt(q, i), q[i]) IN
           /\ r \in Seq(Hash) /\ ToSet(r) = ToSet(q)
           /\ NoRepeat(q) => NoRepeat(r) /\ Pairs(r) = UsedLast(Pairs(q), q[i], ToSet(q))
<1> DEFINE L == Len(q)
           g == q[i]
           t == RemoveAt(q, i)
           r == Append(t, g)
           from(k) == IF k < i THEN k ELSE k + 1
<1>1. /\ L \in Nat /\ i \in 1 .. L /\ g \in Hash
      /\ \A x : x \in ToSet(q) <=> \E k \in 1 .. L : x = q[k]
      /\ \A a, b : <<a, b>> \in Pairs(q)
            <=> \E j, k \in 1 .. L : j < k /\ a = q[j] /\ b = q[k]
      /\ \A p \in Pairs(q) : p = <<p[1], p[2]>>
  BY EntriesOf
<1>2. t \in Seq(Hash) /\ Len(t) = L - 1
      /\ \A k \in 1 .. (L - 1) : t[k] = IF k < i THEN q[k] ELSE q[k + 1]
  BY RemoveAtEntries
<1> HIDE DEF t, g
<1> DEFINE m == Len(t)
<1>3. /\ \A x : x \in ToSet(t) <=> \E k \in 1 .. m : x = t[k]
      /\ \A a, b : <<a, b>> \in Pairs(t)
            <=> \E j, k \in 1 .. m : j < k /\ a = t[j] /\ b = t[k]
  BY <1>2, EntriesOf
<1>4. /\ r \in Seq(Hash) /\ ToSet(r) = ToSet(t) \cup {g}
      /\ \A a, b : <<a, b>> \in Pairs(r)
            <=> <<a, b>> \in Pairs(t) \/ (a \in ToSet(t) /\ b = g)
  BY <1>1, <1>2, AppendEntry
<1>5. m = L - 1
  BY <1>2
<1> HIDE DEF m, r
<1>6. \A k \in 1 .. m : from(k) \in 1 .. L /\ from(k) # i /\ t[k] = q[from(k)]
  BY <1>1, <1>2, <1>5
<1>7. \A j, k \in 1 .. m : j < k => from(j) < from(k)
  BY <1>1, <1>5
<1>8. ASSUME NEW k \in 1 .. L, k # i
      PROVE  \E j \in 1 .. m : from(j) = k /\ j = IF k < i THEN k ELSE k - 1
  <2>1. CASE k < i
    <3>1. k \in 1 .. m /\ from(k) = k
      BY <1>1, <1>5, <2>1
    <3>2. QED
      BY <2>1, <3>1
  <2>2. CASE ~(k < i)
    <3>1. k - 1 \in 1 .. m /\ ~(k - 1 < i) /\ (k - 1) + 1 = k
      BY <1>1, <1>5, <1>8, <2>2
    <3>2. QED
      BY <2>2, <3>1
  <2>3. QED
    BY <2>1, <2>2
<1>9. ToSet(r) = ToSet(q)
  <2>1. ASSUME NEW x \in ToSet(q), x # g
        PROVE  x \in ToSet(t)
    <3>1. PICK k \in 1 .. L : x = q[k]
      BY <1>1
    <3>2. k # i
      BY <2>1, <3>1 DEF g
    <3>3. PICK j \in 1 .. m : from(j) = k
      BY <1>8, <3>2
    <3>4. x = t[j]
      BY <1>6, <3>1, <3>3
    <3>5. QED
      BY <1>3, <3>4
  <2>2. ASSUME NEW x \in ToSet(t)
        PROVE  x \in ToSet(q)
    <3>1. PICK j \in 1 .. m : x = t[j]
      BY <1>3
    <3>2. x = q[from(j)] /\ from(j) \in 1 .. L
      BY <1>6, <3>1
    <3>3. QED
      BY <1>1, <3>2
  <2>3. g \in ToSet(q)
    BY <1>1 DEF g
  <2>4. QED
    BY <1>4, <2>1, <2>2, <2>3
<1>10. ASSUME NoRepeat(q)
       PROVE  NoRepeat(r) /\ Pairs(r) = UsedLast(Pairs(q), g, ToSet(q))
  <2>1. \A j, k \in 1 .. L : j < k => q[j] # q[k]
    BY <1>10, NoRepeatEntries DEF L
  <2>2. \A k \in 1 .. L : q[k] = g => k = i
    <3>1. ASSUME NEW k \in 1 .. L, q[k] = q[i]
          PROVE  k = i
      BY <1>1, <2>1, <3>1
    <3>2. QED
      BY <3>1 DEF g
  <2>3. \A x : x \in ToSet(t) <=> x \in ToSet(q) /\ x # g
    <3>1. ASSUME NEW x \in ToSet(t)
          PROVE  x \in ToSet(q) /\ x # g
      <4>1. PICK j \in 1 .. m : x = t[j]
        BY <1>3
      <4>2. x = q[from(j)] /\ from(j) \in 1 .. L /\ from(j) # i
        BY <1>6, <4>1
      <4>3. x # g
        BY <2>2, <4>2
      <4>4. QED
        BY <1>1, <4>2, <4>3
    <3>2. ASSUME NEW x \in ToSet(q), x # g
          PROVE  x \in ToSet(t)
      BY <1>4, <1>9, <3>2
    <3>3. QED
      BY <3>1, <3>2
  <2>4. ASSUME NEW a, NEW b, <<a, b>> \in Pairs(t)
        PROVE  <<a, b>> \in Pairs(q) /\ a # g /\ b # g
    <3>1. PICK j, k \in 1 .. m : j < k /\ a = t[j] /\ b = t[k]
      BY <1>3, <2>4
    <3>2. /\ from(j) \in 1 .. L /\ from(k) \in 1 .. L /\ from(j) < from(k)
          /\ a = q[from(j)] /\ b = q[from(k)] /\ from(j) # i /\ from(k) # i
      BY <1>6, <1>7, <3>1
    <3>3. a # g /\ b # g
      BY <2>2, <3>2
    <3>4. <<a, b>> \in Pairs(q)
      BY <1>1, <3>2
    <3>5. QED
      BY <3>3, <3>4
  <2>5. ASSUME NEW a, NEW b, <<a, b>> \in Pairs(q), a # g, b # g
        PROVE  <<a, b>> \in Pairs(t)
    <3>1. PICK j, k \in 1 .. L : j < k /\ a = q[j] /\ b = q[k]
      BY <1>1, <2>5
    <3>2. j # i /\ k # i
      BY <2>5, <3>1 DEF g
    <3>3. PICK u \in 1 .. m : from(u) = j /\ u = IF j < i THEN j ELSE j - 1
      BY <1>8, <3>2
    <3>4. PICK v \in 1 .. m : from(v) = k /\ v = IF k < i THEN k ELSE k - 1
      BY <1>8, <3>2
    <3>5. u < v
      BY <1>1, <3>1, <3>2, <3>3, <3>4
    <3>6. a = t[u] /\ b = t[v]
      BY <1>6, <3>1, <3>3, <3>4
    <3>7. QED
      BY <1>3, <3>5, <3>6
  <2>6. Pairs(r) = UsedLast(Pairs(q), g, ToSet(q))
    <3>1. \A a, b : <<a, b>> \in Pairs(q) => a \in ToSet(q) /\ b \in ToSet(q)
      BY EntriesOf
    <3>2. \A a, b : <<a, b>> \in UsedLast(Pairs(q), g, ToSet(q))
             <=> \/ <<a, b>> \in Pairs(q) /\ a \in ToSet(q) /\ b \in ToSet(q)
                    /\ a # g /\ b # g
                 \/ a \in ToSet(q) /\ a # g /\ b = g
      BY <1>1, UsedLastPairs
    <3>3. ASSUME NEW a, NEW b
          PROVE  <<a, b>> \in Pairs(r) <=> <<a, b>> \in UsedLast(Pairs(q), g, ToSet(q))
      <4>1. <<a, b>> \in Pairs(t) <=> <<a, b>> \in Pairs(q) /\ a # g /\ b # g
        BY <2>4, <2>5
      <4>2. QED
        BY <1>4, <2>3, <3>1, <3>2, <4>1
    <3>4. \A p \in UsedLast(Pairs(q), g, ToSet(q)) : p = <<p[1], p[2]>>
      BY <1>1, UsedLastPairs
    <3>5. \A p \in Pairs(r) : p = <<p[1], p[2]>>
      BY DEF Pairs
    <3>6. QED
      BY <3>3, <3>4, <3>5, SamePairs
  <2>7. NoRepeat(r)
    <3>1. ASSUME NEW p \in Pairs(r)
          PROVE  p[1] # p[2]
      <4>1. p = <<p[1], p[2]>>
        BY DEF Pairs
      <4>2. <<p[1], p[2]>> \in Pairs(t) \/ (p[1] \in ToSet(t) /\ p[2] = g)
        BY <1>4, <4>1
      <4>3. CASE <<p[1], p[2]>> \in Pairs(t)
        <5>1. p \in Pairs(q)
          BY <2>4, <4>1, <4>3
        <5>2. QED
          BY <1>10, <5>1 DEF NoRepeat
      <4>4. QED
        BY <2>3, <4>2, <4>3
    <3>2. QED
      BY <3>1 DEF NoRepeat
  <2>8. QED
    BY <2>6, <2>7
<1>11. QED
  BY <1>4, <1>9, <1>10 DEF r, t, g

LEMMA TouchedSound ==
    ASSUME NEW x, Sound(x), NEW g \in x.signatures
    PROVE  /\ Sound(Touched(x, g))
           /\ Touched(x, g).signatures = x.signatures
           /\ Touched(x, g).count = x.count
           /\ Exact(x) => /\ Exact(Touched(x, g))
                          /\ Pairs(Touched(x, g).lru)
                             = UsedLast(Pairs(x.lru), g, x.signatures)
<1> DEFINE at == CHOOSE i \in DOMAIN x.lru :
                    x.lru[i] = g /\ \A j \in 1 .. (i - 1) : x.lru[j] # g
           y == Touched(x, g)
           q == x.lru
           r == Append(RemoveAt(q, at), g)
<1>1. x.signatures \subseteq Hash /\ q \in Seq(Hash) /\ ToSet(q) = x.signatures
  BY SoundParts DEF Sound
<1>2. at \in 1 .. Len(q) /\ q[at] = g
  <2> DEFINE V == {i \in 1 .. Len(q) : q[i] = g}
  <2>1. Len(q) \in Nat /\ DOMAIN q = 1 .. Len(q)
    BY <1>1, S!LenProperties
  <2>2. V # {}
    BY <1>1, EntriesOf
  <2>3. V \in SUBSET Nat
    BY <2>1
  <2>4. PICK i \in V : \A k \in V : i <= k
    <3> HIDE DEF V
    <3>1. QED
      BY <2>2, <2>3, Least
  <2>5. i \in 1 .. Len(q) /\ q[i] = g
    OBVIOUS
  <2>6. \A j \in 1 .. (i - 1) : q[j] # g
    BY <2>1, <2>4, <2>5
  <2>7. QED
    BY <2>1, <2>5, <2>6
<1>3. /\ y.signatures = x.signatures /\ y.lru = r /\ y.count = x.count
      /\ y.lists = x.lists
      /\ y = [signatures |-> y.signatures, lru |-> y.lru, count |-> y.count,
              lists |-> y.lists]
  <2>1. y = [x EXCEPT !.lru = r]
    BY DEF Touched
  <2>2. x = [signatures |-> x.signatures, lru |-> x.lru, count |-> x.count,
             lists |-> x.lists]
    BY SoundParts
  <2> HIDE DEF r, y
  <2>3. y = [signatures |-> x.signatures, lru |-> r, count |-> x.count,
             lists |-> x.lists]
    BY <2>1, <2>2
  <2>4. QED
    BY <2>3
<1> HIDE DEF at, y
<1>4. /\ r \in Seq(Hash) /\ ToSet(r) = ToSet(q)
      /\ NoRepeat(q) => NoRepeat(r) /\ Pairs(r) = UsedLast(Pairs(q), g, ToSet(q))
  <2> HIDE DEF q
  <2>1. QED
    BY <1>1, <1>2, MovedToEnd
<1> HIDE DEF r
<1>5. Sound(y)
  <2>1. y \in Index
    BY <1>3, <1>4, SoundParts DEF Index
  <2>2. QED
    BY <1>1, <1>3, <1>4, <2>1 DEF Sound
<1>6. QED
  BY <1>1, <1>3, <1>4, <1>5 DEF Exact, y

-----------------------------------------------------------------------------
(* All shards.                                                              *)
Shards == [Shard -> Index]

LEMMA EmptySound == Sound(Empty) /\ Exact(Empty) /\ Fits(Empty) /\ Pairs(Empty.lru) = {}
<1>1. /\ Empty.signatures = {} /\ Empty.lru = <<>> /\ Empty.count = 0
      /\ Empty.lists = [s \in Slot |-> [f \in Features |-> <<>>]]
      /\ Empty = [signatures |-> {}, lru |-> <<>>, count |-> 0,
                  lists |-> [s \in Slot |-> [f \in Features |-> <<>>]]]
  BY DEF Empty
<1> DEFINE e == <<>>
<1>2. e \in Seq(Hash) /\ Len(e) = 0
  OBVIOUS
<1>3. \A i : i \notin 1 .. Len(e)
  BY <1>2
<1>4. (\A x : x \notin ToSet(e)) /\ \A a, b : <<a, b>> \notin Pairs(e)
  <2> HIDE DEF e
  <2>1. QED
    BY <1>2, <1>3, EntriesOf
<1>5. ToSet(e) = {} /\ Pairs(e) = {}
  <2>1. \A p \in Pairs(e) : p = <<p[1], p[2]>>
    BY DEF Pairs
  <2> HIDE DEF e
  <2>2. QED
    BY <1>4, <2>1
<1>6. Empty.lists \in [Slot -> [Features -> Seq(Hash)]]
  BY <1>1
<1>7. Empty \in Index
  <2>1. {} \in SUBSET Hash /\ 0 \in Nat /\ <<>> \in Seq(Hash)
    OBVIOUS
  <2>2. QED
    BY <1>1, <1>6, <2>1 DEF Index
<1>8. IsFiniteSet({}) /\ Cardinality({}) = 0
  BY FS_EmptySet
<1>9. \A s \in Slot, f \in Features :
         ToSet(Empty.lists[s][f]) = {h \in Empty.signatures : Feature[h][s] = f}
  <2>1. \A s \in Slot, f \in Features : Empty.lists[s][f] = e
    BY <1>1
  <2>2. QED
    BY <1>1, <1>5, <2>1
<1>10. Sound(Empty)
  BY <1>1, <1>5, <1>7, <1>8, <1>9 DEF Sound
<1>11. QED
  BY <1>1, <1>5, <1>8, <1>10 DEF Exact, Fits, NoRepeat

(* Every shard by itself.                                                   *)
AllSound(v) ==
    /\ v \in Shards
    /\ \A i \in Shard : /\ Sound(v[i]) /\ Fits(v[i])
                        /\ v[i].signatures \subseteq {h \in Hash : ShardOf[h] = i}

InsertInto(v, h) == [v EXCEPT ![ShardOf[h]] = Inserted(v[ShardOf[h]], h)]

LEMMA InsertIntoSound ==
    ASSUME NEW v, AllSound(v), NEW h \in Hash
    PROVE  AllSound(InsertInto(v, h))
<1>1. ShardOf[h] \in Shard
  BY ShardAssumption
<1> DEFINE z == Inserted(v[ShardOf[h]], h)
           w == InsertInto(v, h)
<1>2. Sound(v[ShardOf[h]])
  BY <1>1 DEF AllSound
<1>3. /\ Sound(z) /\ Fits(z) /\ z.signatures \subseteq v[ShardOf[h]].signatures \cup {h}
  BY <1>2, InsertedSound
<1> HIDE DEF z
<1>4. v \in Shards
  BY DEF AllSound
<1>5. w \in Shards /\ \A i \in Shard : w[i] = IF i = ShardOf[h] THEN z ELSE v[i]
  <2>1. z \in Index
    BY <1>3 DEF Sound
  <2>2. QED
    BY <1>1, <1>4, <2>1 DEF Shards, InsertInto, z
<1> HIDE DEF w
<1>6. \A i \in Shard : /\ Sound(w[i]) /\ Fits(w[i])
                       /\ w[i].signatures \subseteq {g \in Hash : ShardOf[g] = i}
  BY <1>1, <1>3, <1>5 DEF AllSound
<1>7. QED
  BY <1>5, <1>6 DEF AllSound, w

LEMMA FilledSteps ==
    ASSUME NEW e \in Seq(Hash)
    PROVE  \E after :
              /\ \A n \in 0 .. Len(e) : AllSound(after[n])
              /\ after[0] = [i \in Shard |-> Empty]
              /\ \A n \in 1 .. Len(e) : after[n] = InsertInto(after[n - 1], e[n])
              /\ Filled(e) = after[Len(e)]
<1> DEFINE L == Len(e)
           none == [i \in Shard |-> Empty]
           Body(k) == [n \in 0 .. L |->
                         IF n = 0 THEN [i \in Shard |-> Empty]
                         ELSE [k[n - 1] EXCEPT ![ShardOf[e[n]]] =
                                   Inserted(k[n - 1][ShardOf[e[n]]], e[n])]]
           after == CHOOSE k : k = Body(k)
           X == {v \in Shards : AllSound(v)}
           step == [n \in 1 .. L |-> [v \in X |-> InsertInto(v, e[n])]]
<1>1. Filled(e) = after[L]
  BY DEF Filled
<1>2. L \in Nat /\ \A n \in 1 .. L : e[n] \in Hash
  BY EntriesOf
<1> HIDE DEF L
<1>3. none \in X
  <2>1. none \in Shards /\ \A i \in Shard : none[i] = Empty
    BY EmptySound DEF Shards, Sound
  <2>2. Empty.signatures = {}
    BY DEF Empty
  <2>3. AllSound(none)
    BY <2>1, <2>2, EmptySound DEF AllSound
  <2>4. QED
    BY <2>1, <2>3
<1>4. \A n \in 1 .. L : \A v \in X : InsertInto(v, e[n]) \in X
  BY <1>2, InsertIntoSound DEF AllSound
<1> HIDE DEF X, none
<1>5. step \in [1 .. L -> [X -> X]]
  BY <1>4
<1>6. PICK f \in [0 .. L -> X] : f[0] = none /\ \A n \in 1 .. L : f[n] = step[n][f[n - 1]]
  <2> HIDE DEF step
  <2>1. L \in Nat
    BY <1>2
  <2>2. \E f \in [0 .. L -> X] : f[0] = none /\ \A n \in 1 .. L : f[n] = step[n][f[n - 1]]
    BY ONLY <1>3, <1>5, <2>1, Iteration
  <2>3. QED
    BY <2>2
<1>7. ASSUME NEW n \in 1 .. L
      PROVE  f[n] = InsertInto(f[n - 1], e[n])
  <2>1. n - 1 \in 0 .. L
    BY <1>2
  <2>2. f[n - 1] \in X
    BY <1>6, <2>1
  <2>3. step[n][f[n - 1]] = InsertInto(f[n - 1], e[n])
    BY <2>2
  <2>4. QED
    BY <1>6, <2>3
<1>8. f = Body(f)
  <2>1. ASSUME NEW n \in 0 .. L
        PROVE  f[n] = Body(f)[n]
    <3>1. CASE n = 0
      BY <1>6, <3>1 DEF none
    <3>2. CASE n # 0
      <4>1. n \in 1 .. L
        BY <1>2, <3>2
      <4>2. QED
        BY <1>7, <3>2, <4>1 DEF InsertInto
    <3>3. QED
      BY <3>1, <3>2
  <2>2. QED
    BY <2>1, <1>6
<1>9. after = Body(after)
  BY <1>8
<1> HIDE DEF after
<1>10. after[0] = none /\ \A n \in 1 .. L : after[n] = InsertInto(after[n - 1], e[n])
  <2>1. \A n \in 0 .. L : after[n] = Body(after)[n]
    BY <1>9
  <2>2. 0 \in 0 .. L /\ \A n \in 1 .. L : n \in 0 .. L /\ n # 0
    BY <1>2
  <2>3. Body(after)[0] = none
    BY <2>2 DEF none
  <2>4. \A n \in 1 .. L : Body(after)[n] = InsertInto(after[n - 1], e[n])
    BY <2>2 DEF InsertInto
  <2>5. QED
    BY <2>1, <2>2, <2>3, <2>4
<1> DEFINE G == {n \in 0 .. L : AllSound(after[n])}
<1>11. \A n \in 0 .. L : n \in G
  <2>1. 0 \in G
    BY <1>2, <1>3, <1>10 DEF X
  <2>2. ASSUME NEW n \in 1 .. L, n - 1 \in G
        PROVE  n \in G
    <3>1. AllSound(InsertInto(after[n - 1], e[n]))
      BY <1>2, <2>2, InsertIntoSound
    <3>2. n \in 0 .. L
      BY <1>2
    <3>3. QED
      BY <1>10, <3>1, <3>2
  <2> HIDE DEF G
  <2>3. QED
    BY <1>2, <2>1, <2>2, UpTo
<1>12. QED
  BY <1>1, <1>10, <1>11 DEF L, none

(* A rebuild leaves each shard as if its entries had been inserted alone;   *)
(* where no chunk is given twice it is exact and in the order given.        *)
LEMMA FilledSound ==
    ASSUME NEW e \in Seq(Hash)
    PROVE  /\ AllSound(Filled(e))
           /\ \A i \in Shard :
                 (\A a \in Hash : ShardOf[a] = i => <<a, a>> \notin Pairs(e)) =>
                    /\ Exact(Filled(e)[i])
                    /\ Pairs(Filled(e)[i].lru) = Among(Pairs(e), Filled(e)[i].signatures)
<1>1. PICK after :
         /\ \A n \in 0 .. Len(e) : AllSound(after[n])
         /\ after[0] = [i \in Shard |-> Empty]
         /\ \A n \in 1 .. Len(e) : after[n] = InsertInto(after[n - 1], e[n])
         /\ Filled(e) = after[Len(e)]
  BY FilledSteps
<1> DEFINE L == Len(e)
<1>2. /\ L \in Nat /\ \A n \in 1 .. L : e[n] \in Hash
      /\ \A a, b : <<a, b>> \in Pairs(e)
            <=> \E j, k \in 1 .. L : j < k /\ a = e[j] /\ b = e[k]
      /\ \A p \in Pairs(e) : p = <<p[1], p[2]>>
  BY EntriesOf
<1> HIDE DEF L
<1>3. ASSUME NEW i \in Shard, \A a \in Hash : ShardOf[a] = i => <<a, a>> \notin Pairs(e)
      PROVE  Exact(after[L][i])
             /\ Pairs(after[L][i].lru) = Among(Pairs(e), after[L][i].signatures)
  <2> DEFINE x(n) == after[n][i]
             Given(n) == \A a \in x(n).signatures : \E j \in 1 .. n : a = e[j]
             Order(n) == \A a, b : <<a, b>> \in Pairs(x(n).lru)
                            <=> /\ a \in x(n).signatures /\ b \in x(n).signatures
                                /\ \E j, k \in 1 .. n : j < k /\ a = e[j] /\ b = e[k]
             G == {n \in 0 .. L : Exact(x(n)) /\ Given(n) /\ Order(n)}
  <2>1. 0 \in G
    <3>1. x(0) = Empty
      BY <1>1
    <3>2. Exact(Empty) /\ Pairs(Empty.lru) = {} /\ Empty.signatures = {}
      BY EmptySound DEF Empty
    <3>3. QED
      BY <1>2, <3>1, <3>2
  <2>2. ASSUME NEW n \in 1 .. L, n - 1 \in G
        PROVE  n \in G
    <3> DEFINE h == e[n]
               u == after[n - 1]
               w == after[n]
               y == u[i]
               z == w[i]
    <3>1. /\ n - 1 \in 0 .. L /\ n \in 0 .. L /\ n \in Nat /\ h \in Hash
          /\ \A j \in 1 .. n : j \in 1 .. (n - 1) \/ j = n
          /\ \A j \in 1 .. (n - 1) : j \in 1 .. n /\ j < n /\ j \in 1 .. L
          /\ n \in 1 .. n
          /\ \A j, k \in 1 .. n : j < k => j \in 1 .. (n - 1)
      BY <1>2
    <3>2. /\ AllSound(u) /\ AllSound(w) /\ w = InsertInto(u, h)
      BY <1>1, <3>1 DEF L
    <3>3. Exact(y) /\ Given(n - 1) /\ Order(n - 1)
      BY <2>2
    <3>4. /\ u \in Shards /\ Sound(y)
          /\ y.signatures \subseteq {g \in Hash : ShardOf[g] = i}
          /\ z.signatures \subseteq {g \in Hash : ShardOf[g] = i}
      BY <3>2 DEF AllSound
    <3> HIDE DEF u, w
    <3>5. CASE ShardOf[h] # i
      <4>1. z = y
        BY <3>2, <3>4, <3>5 DEF InsertInto, Shards
      <4>2. Given(n)
        BY <3>1, <3>3, <4>1 DEF u, w
      <4>3. h \notin z.signatures
        BY <3>4, <3>5
      <4>4. ASSUME NEW a, NEW b
            PROVE  <<a, b>> \in Pairs(z.lru)
                   <=> /\ a \in z.signatures /\ b \in z.signatures
                       /\ \E j, k \in 1 .. n : j < k /\ a = e[j] /\ b = e[k]
        <5>1. <<a, b>> \in Pairs(y.lru)
              <=> /\ a \in y.signatures /\ b \in y.signatures
                  /\ \E j, k \in 1 .. (n - 1) : j < k /\ a = e[j] /\ b = e[k]
          BY <3>3 DEF u
        <5>2. ASSUME b \in z.signatures,
                     NEW j \in 1 .. n, NEW k \in 1 .. n, j < k, a = e[j], b = e[k]
              PROVE  j \in 1 .. (n - 1) /\ k \in 1 .. (n - 1)
          BY <3>1, <4>3, <5>2
        <5>3. QED
          BY <3>1, <4>1, <5>1, <5>2
      <4>5. Order(n)
        BY <4>4 DEF w
      <4>6. QED
        BY <3>1, <3>3, <4>1, <4>2, <4>5 DEF u, w
    <3>6. CASE ShardOf[h] = i
      <4>1. z = Inserted(y, h)
        BY <3>2, <3>4, <3>6 DEF InsertInto, Shards
      <4>2. \A j \in 1 .. (n - 1) : e[j] # h
        <5>1. ASSUME NEW j \in 1 .. (n - 1), e[j] = h
              PROVE  FALSE
          <6>1. <<h, h>> \in Pairs(e)
            BY <1>2, <3>1, <5>1
          <6>2. QED
            BY <1>3, <3>1, <3>6, <6>1
        <5>2. QED
          BY <5>1
      <4>3. h \notin y.signatures
        BY <3>3, <4>2 DEF u
      <4>4. /\ Exact(z) /\ h \in z.signatures
            /\ z.signatures \subseteq y.signatures \cup {h}
            /\ Pairs(z.lru) = UsedLast(Pairs(y.lru), h, z.signatures)
        BY <3>1, <3>3, <3>4, <4>1, <4>3, InsertedSound
      <4>5. Given(n)
        <5>1. ASSUME NEW a \in z.signatures
              PROVE  \E j \in 1 .. n : a = e[j]
          BY <3>1, <3>3, <4>4 DEF u
        <5>2. QED
          BY <5>1 DEF w
      <4>6. \A a, b : <<a, b>> \in Pairs(z.lru)
               <=> \/ <<a, b>> \in Pairs(y.lru) /\ a \in z.signatures /\ b \in z.signatures
                      /\ a # h /\ b # h
                   \/ a \in z.signatures /\ a # h /\ b = h
        <5>1. \A p \in Pairs(y.lru) : p = <<p[1], p[2]>>
          BY DEF Pairs
        <5> DEFINE O == Pairs(y.lru)
                   T == z.signatures
        <5>2. Pairs(z.lru) = UsedLast(O, h, T)
          BY <4>4
        <5> HIDE DEF O, T, h
        <5>3. \A a, b : <<a, b>> \in UsedLast(O, h, T)
                 <=> \/ <<a, b>> \in O /\ a \in T /\ b \in T /\ a # h /\ b # h
                     \/ a \in T /\ a # h /\ b = h
          BY <5>1, UsedLastPairs DEF O
        <5>4. QED
          BY <5>2, <5>3 DEF O, T
      <4>7. ASSUME NEW a, NEW b
            PROVE  <<a, b>> \in Pairs(z.lru)
                   <=> /\ a \in z.signatures /\ b \in z.signatures
                       /\ \E j, k \in 1 .. n : j < k /\ a = e[j] /\ b = e[k]
        <5>1. <<a, b>> \in Pairs(y.lru)
              <=> /\ a \in y.signatures /\ b \in y.signatures
                  /\ \E j, k \in 1 .. (n - 1) : j < k /\ a = e[j] /\ b = e[k]
          BY <3>3 DEF u
        <5>2. ASSUME a \in z.signatures, b \in z.signatures,
                     NEW j \in 1 .. n, NEW k \in 1 .. n, j < k, a = e[j], b = e[k]
              PROVE  <<a, b>> \in Pairs(z.lru)
          <6>1. j \in 1 .. (n - 1) /\ a # h /\ a \in y.signatures
            BY <3>1, <4>2, <4>4, <5>2
          <6>2. CASE k = n
            BY <4>6, <5>2, <6>1, <6>2
          <6>3. CASE k \in 1 .. (n - 1)
            <7>1. b # h /\ b \in y.signatures
              BY <4>2, <4>4, <5>2, <6>3
            <7>2. QED
              BY <4>6, <5>1, <5>2, <6>1, <6>3, <7>1
          <6>4. QED
            BY <3>1, <6>2, <6>3
        <5>3. ASSUME <<a, b>> \in Pairs(z.lru)
              PROVE  /\ a \in z.signatures /\ b \in z.signatures
                     /\ \E j, k \in 1 .. n : j < k /\ a = e[j] /\ b = e[k]
          <6>1. CASE a \in z.signatures /\ a # h /\ b = h
            <7>1. PICK j \in 1 .. (n - 1) : a = e[j]
              BY <3>3, <4>4, <6>1 DEF u
            <7>2. j \in 1 .. n /\ j < n /\ b = e[n]
              BY <3>1, <6>1
            <7>3. QED
              BY <3>1, <4>4, <6>1, <7>1, <7>2
          <6>2. CASE <<a, b>> \in Pairs(y.lru) /\ a \in z.signatures /\ b \in z.signatures
            BY <3>1, <5>1, <6>2
          <6>3. QED
            BY <4>6, <5>3, <6>1, <6>2
        <5>4. QED
          BY <5>2, <5>3
      <4>8. Order(n)
        BY <4>7 DEF w
      <4>9. QED
        BY <3>1, <4>4, <4>5, <4>8 DEF w
    <3>7. QED
      BY <3>5, <3>6
  <2>3. L \in G
    <3> HIDE DEF G
    <3>1. \A n \in 0 .. L : n \in G
      BY <1>2, <2>1, <2>2, UpTo
    <3>2. QED
      BY <1>2, <3>1
  <2>4. Exact(x(L)) /\ Order(L)
    BY <2>3
  <2> DEFINE v == after[L][i]
  <2>5. \A a, b : <<a, b>> \in Pairs(v.lru) <=> <<a, b>> \in Among(Pairs(e), v.signatures)
    <3>1. \A a, b : <<a, b>> \in Among(Pairs(e), v.signatures)
             <=> <<a, b>> \in Pairs(e) /\ a \in v.signatures /\ b \in v.signatures
      BY DEF Among
    <3> HIDE DEF v
    <3>2. ASSUME NEW a, NEW b
          PROVE  <<a, b>> \in Pairs(v.lru) <=> <<a, b>> \in Among(Pairs(e), v.signatures)
      <4>1. <<a, b>> \in Pairs(v.lru)
            <=> /\ a \in v.signatures /\ b \in v.signatures
                /\ \E j, k \in 1 .. L : j < k /\ a = e[j] /\ b = e[k]
        BY <2>4 DEF v
      <4>2. <<a, b>> \in Pairs(e) <=> \E j, k \in 1 .. L : j < k /\ a = e[j] /\ b = e[k]
        BY <1>2
      <4>3. QED
        BY <3>1, <4>1, <4>2
    <3>3. QED
      BY <3>2
  <2>6. (\A p \in Pairs(v.lru) : p = <<p[1], p[2]>>)
        /\ \A p \in Among(Pairs(e), v.signatures) : p = <<p[1], p[2]>>
    BY DEF Pairs, Among
  <2>7. Pairs(v.lru) = Among(Pairs(e), v.signatures)
    BY <2>5, <2>6, SamePairs
  <2>8. QED
    BY <2>4, <2>7
<1>4. AllSound(after[L])
  BY <1>1, <1>2 DEF L
<1>5. QED
  BY <1>1, <1>3, <1>4 DEF L

-----------------------------------------------------------------------------
(* The inductive invariant.                                                 *)
PalantirInv ==
    /\ AllSound(shard)
    /\ outcome = Unique \/ outcome \in {NearDuplicate(h, t) : h \in Hash, t \in 1 .. 3}
    /\ before \in [Shard -> SUBSET (Hash \X Hash)]
    /\ twice \subseteq Shard
    /\ \A i \in Shard \ twice : Exact(shard[i]) /\ Pairs(shard[i].lru) = before[i]

LEMMA InvInit == Init => PalantirInv
<1> SUFFICES ASSUME Init
             PROVE  PalantirInv
  OBVIOUS
<1>1. shard = [i \in Shard |-> Empty] /\ outcome = Unique
      /\ before = [i \in Shard |-> {}] /\ twice = {}
  BY DEF Init
<1>2. \A i \in Shard : shard[i] = Empty /\ before[i] = {}
  BY <1>1
<1>3. Empty.signatures = {} /\ Empty \in Index
  BY EmptySound DEF Empty, Sound
<1>4. AllSound(shard)
  BY <1>1, <1>2, <1>3, EmptySound DEF AllSound, Shards
<1>5. before \in [Shard -> SUBSET (Hash \X Hash)]
  BY <1>1
<1>6. QED
  BY <1>1, <1>2, <1>4, <1>5, EmptySound DEF PalantirInv

(* A call changes one shard.                                                *)
OneShard(j, z, o) ==
    /\ Sound(z) /\ Fits(z) /\ z.signatures \subseteq {g \in Hash : ShardOf[g] = j}
    /\ o \in SUBSET (Hash \X Hash)
    /\ shard' = [shard EXCEPT ![j] = z]
    /\ before' = [before EXCEPT ![j] = o]
    /\ twice' = twice \/ twice' = twice \cup {j}
    /\ j \notin twice' => Exact(z) /\ Pairs(z.lru) = o
    /\ outcome' = Unique \/ outcome' \in {NearDuplicate(h, t) : h \in Hash, t \in 1 .. 3}

LEMMA OneShardKeepsInv ==
    ASSUME PalantirInv, NEW j \in Shard, NEW z, NEW o, OneShard(j, z, o)
    PROVE  /\ PalantirInv'
           /\ \A i \in Shard : i # j => shard'[i] = shard[i]
           /\ shard'[j] = z
<1>1. z \in Index /\ shard \in Shards /\ before \in [Shard -> SUBSET (Hash \X Hash)]
  BY DEF OneShard, Sound, PalantirInv, AllSound
<1>2. /\ shard' \in Shards /\ before' \in [Shard -> SUBSET (Hash \X Hash)]
      /\ \A i \in Shard : /\ shard'[i] = IF i = j THEN z ELSE shard[i]
                          /\ before'[i] = IF i = j THEN o ELSE before[i]
  BY <1>1 DEF OneShard, Shards
<1>3. AllSound(shard')
  BY <1>2 DEF PalantirInv, AllSound, OneShard
<1>4. twice' \subseteq Shard /\ twice \subseteq twice'
  BY DEF PalantirInv, OneShard
<1>5. \A i \in Shard \ twice' : Exact(shard'[i]) /\ Pairs(shard'[i].lru) = before'[i]
  <2>1. ASSUME NEW i \in Shard \ twice'
        PROVE  Exact(shard'[i]) /\ Pairs(shard'[i].lru) = before'[i]
    <3>1. CASE i = j
      BY <1>2, <2>1, <3>1 DEF OneShard
    <3>2. CASE i # j
      BY <1>2, <1>4, <2>1, <3>2 DEF PalantirInv
    <3>3. QED
      BY <3>1, <3>2
  <2>2. QED
    BY <2>1
<1>6. PalantirInv'
  BY <1>2, <1>3, <1>4, <1>5 DEF PalantirInv, OneShard
<1>7. QED
  BY <1>2, <1>6

LEMMA UsedLastType ==
    ASSUME NEW order \in SUBSET (Hash \X Hash), NEW h \in Hash, NEW kept \in SUBSET Hash
    PROVE  UsedLast(order, h, kept) \in SUBSET (Hash \X Hash)
BY DEF UsedLast, Among

(* What a shard keeps when a chunk is inserted.                             *)
KeepsUnlessFull(x, z) ==
    Exact(x) /\ ~(x.signatures \subseteq z.signatures)
    => Cardinality(x.signatures) >= ShardBudget

(* insert, as part of whatever call.                                        *)
LEMMA InsertedOnce ==
    ASSUME NEW x, Sound(x), NEW h \in Hash, x.signatures \subseteq {g \in Hash : ShardOf[g] = ShardOf[h]}
    PROVE  LET z == Inserted(x, h) IN
           /\ Sound(z) /\ Fits(z) /\ z.signatures \subseteq {g \in Hash : ShardOf[g] = ShardOf[h]}
           /\ z.signatures \in SUBSET Hash
           /\ KeepsUnlessFull(x, z)
           /\ Exact(x) /\ h \notin x.signatures =>
                 Exact(z) /\ Pairs(z.lru) = UsedLast(Pairs(x.lru), h, z.signatures)
<1> DEFINE z == Inserted(x, h)
<1>1. /\ Sound(z) /\ Fits(z)
      /\ z.signatures \subseteq x.signatures \cup {h}
      /\ ~Full(x) => x.signatures \subseteq z.signatures
      /\ Exact(x) /\ h \notin x.signatures =>
            Exact(z) /\ Pairs(z.lru) = UsedLast(Pairs(x.lru), h, z.signatures)
  BY InsertedSound
<1>2. KeepsUnlessFull(x, z)
  <2> SUFFICES ASSUME Exact(x), Full(x)
               PROVE  Cardinality(x.signatures) >= ShardBudget
    BY <1>1 DEF KeepsUnlessFull
  <2>1. QED
    BY DEF Exact, Full
<1>3. z.signatures \in SUBSET Hash /\ z.signatures \subseteq {g \in Hash : ShardOf[g] = ShardOf[h]}
  BY <1>1
<1>4. QED
  BY <1>1, <1>2, <1>3

(* A call on behalf of one chunk: the invariant is kept, and a shard that   *)
(* never took a chunk twice loses an entry only if it was full.             *)
CallKeeps(h) ==
    /\ PalantirInv'
    /\ \A i \in Shard \ (twice \cup twice') :
          ~(shard[i].signatures \subseteq shard'[i].signatures)
          => Cardinality(shard[i].signatures) >= ShardBudget

LEMMA OneShardCall ==
    ASSUME PalantirInv, NEW h \in Hash, NEW z, NEW o, OneShard(ShardOf[h], z, o),
           KeepsUnlessFull(shard[ShardOf[h]], z)
    PROVE  CallKeeps(h)
<1>1. ShardOf[h] \in Shard
  BY ShardAssumption
<1>2. /\ PalantirInv'
      /\ \A i \in Shard : i # ShardOf[h] => shard'[i] = shard[i]
      /\ shard'[ShardOf[h]] = z
  BY <1>1, OneShardKeepsInv
<1>3. ASSUME NEW i \in Shard \ (twice \cup twice'),
             ~(shard[i].signatures \subseteq shard'[i].signatures)
      PROVE  Cardinality(shard[i].signatures) >= ShardBudget
  <2>1. i = ShardOf[h]
    BY <1>2, <1>3
  <2>2. Exact(shard[i])
    BY <1>3 DEF PalantirInv
  <2>3. QED
    BY <1>2, <1>3, <2>1, <2>2 DEF KeepsUnlessFull
<1>4. QED
  BY <1>2, <1>3 DEF CallKeeps

LEMMA ShardParts ==
    ASSUME PalantirInv, NEW h \in Hash
    PROVE  LET x == shard[ShardOf[h]] IN
           /\ ShardOf[h] \in Shard /\ Sound(x) /\ Fits(x)
           /\ x.signatures \subseteq {g \in Hash : ShardOf[g] = ShardOf[h]}
           /\ x.signatures \in SUBSET Hash
           /\ before[ShardOf[h]] \in SUBSET (Hash \X Hash)
           /\ ShardOf[h] \notin twice =>
                 Exact(x) /\ Pairs(x.lru) = before[ShardOf[h]]
           /\ \A tier : BestCandidates(x, h, tier) \subseteq x.signatures
<1>1. ShardOf[h] \in Shard
  BY ShardAssumption
<1>2. \A tier : BestCandidates(shard[ShardOf[h]], h, tier) \subseteq shard[ShardOf[h]].signatures
  BY DEF BestCandidates, Candidates
<1>3. before[ShardOf[h]] \in SUBSET (Hash \X Hash)
  BY <1>1 DEF PalantirInv
<1>4. AllSound(shard)
  BY DEF PalantirInv
<1>5. /\ Sound(shard[ShardOf[h]]) /\ Fits(shard[ShardOf[h]])
      /\ shard[ShardOf[h]].signatures \subseteq {g \in Hash : ShardOf[g] = ShardOf[h]}
  BY <1>1, <1>4 DEF AllSound
<1>6. ShardOf[h] \notin twice =>
         Exact(shard[ShardOf[h]]) /\ Pairs(shard[ShardOf[h]].lru) = before[ShardOf[h]]
  BY <1>1 DEF PalantirInv
<1>7. QED
  BY <1>1, <1>2, <1>3, <1>5, <1>6

LEMMA NearKeeps ==
    ASSUME PalantirInv, NEW h \in Hash, ProcessNear(h)
    PROVE  CallKeeps(h)
<1> DEFINE j == ShardOf[h]
           x == shard[j]
<1>1. PICK tier \in Accepted : \E g \in BestCandidates(x, h, tier) :
         /\ shard' = [shard EXCEPT ![j] = Touched(x, g)]
         /\ before' = [before EXCEPT ![j] = UsedLast(@, g, x.signatures)]
         /\ outcome' = NearDuplicate(g, tier)
  BY DEF ProcessNear
<1>2. PICK g \in BestCandidates(x, h, tier) :
         /\ shard' = [shard EXCEPT ![j] = Touched(x, g)]
         /\ before' = [before EXCEPT ![j] = UsedLast(@, g, x.signatures)]
         /\ outcome' = NearDuplicate(g, tier)
  BY <1>1
<1>3. twice' = twice /\ tier \in 1 .. 3
  BY TierAssumption DEF ProcessNear
<1>4. /\ j \in Shard /\ Sound(x) /\ Fits(x) /\ x.signatures \in SUBSET Hash
      /\ x.signatures \subseteq {k \in Hash : ShardOf[k] = j}
      /\ before[j] \in SUBSET (Hash \X Hash)
      /\ j \notin twice => Exact(x) /\ Pairs(x.lru) = before[j]
      /\ g \in x.signatures
  BY ShardParts
<1> DEFINE z == Touched(x, g)
           o == UsedLast(before[j], g, x.signatures)
<1> HIDE DEF j, x
<1>5. /\ Sound(z) /\ z.signatures = x.signatures /\ z.count = x.count
      /\ Exact(x) => Exact(z) /\ Pairs(z.lru) = UsedLast(Pairs(x.lru), g, x.signatures)
  BY <1>4, TouchedSound
<1>6. g \in Hash
  BY <1>4
<1>7. o \in SUBSET (Hash \X Hash)
  BY <1>4, <1>6, UsedLastType
<1>8. shard' = [shard EXCEPT ![j] = z] /\ before' = [before EXCEPT ![j] = o]
  BY <1>2
<1>9. outcome' \in {NearDuplicate(k, t) : k \in Hash, t \in 1 .. 3}
  BY <1>2, <1>3, <1>6
<1>10. j \notin twice' => Exact(z) /\ Pairs(z.lru) = o
  BY <1>3, <1>4, <1>5
<1>11. Fits(z)
  BY <1>4, <1>5 DEF Fits
<1> HIDE DEF z, o
<1>12. OneShard(j, z, o)
  BY <1>3, <1>4, <1>5, <1>7, <1>8, <1>9, <1>10, <1>11 DEF OneShard
<1>13. KeepsUnlessFull(x, z)
  BY <1>5 DEF KeepsUnlessFull
<1>14. QED
  BY <1>12, <1>13, OneShardCall DEF j, x

LEMMA BelowKeeps ==
    ASSUME PalantirInv, NEW h \in Hash, ProcessBelow(h)
    PROVE  CallKeeps(h)
<1> DEFINE j == ShardOf[h]
           x == shard[j]
<1>1. PICK tier \in (1 .. 3) \ Accepted : \E g \in BestCandidates(x, h, tier) :
         /\ shard' = [shard EXCEPT ![j] = Inserted(Touched(x, g), h)]
         /\ before' = [before EXCEPT ![j] =
               UsedLast(UsedLast(@, g, x.signatures), h, Inserted(Touched(x, g), h).signatures)]
  BY DEF ProcessBelow
<1>2. PICK g \in BestCandidates(x, h, tier) :
         /\ shard' = [shard EXCEPT ![j] = Inserted(Touched(x, g), h)]
         /\ before' = [before EXCEPT ![j] =
               UsedLast(UsedLast(@, g, x.signatures), h, Inserted(Touched(x, g), h).signatures)]
  BY <1>1
<1>3. /\ twice' = (IF h \in x.signatures THEN twice \cup {j} ELSE twice)
      /\ outcome' = Unique
  BY DEF ProcessBelow, Insert
<1>4. /\ j \in Shard /\ Sound(x) /\ x.signatures \in SUBSET Hash
      /\ x.signatures \subseteq {k \in Hash : ShardOf[k] = j}
      /\ before[j] \in SUBSET (Hash \X Hash)
      /\ j \notin twice => Exact(x) /\ Pairs(x.lru) = before[j]
      /\ g \in x.signatures
  BY ShardParts
<1> DEFINE t == Touched(x, g)
           z == Inserted(t, h)
           u == UsedLast(before[j], g, x.signatures)
           o == UsedLast(u, h, z.signatures)
<1> HIDE DEF x
<1>5. /\ Sound(t) /\ t.signatures = x.signatures /\ t.count = x.count
      /\ Exact(x) => Exact(t) /\ Pairs(t.lru) = UsedLast(Pairs(x.lru), g, x.signatures)
  BY <1>4, TouchedSound
<1> HIDE DEF t
<1>6. /\ Sound(z) /\ Fits(z) /\ z.signatures \subseteq {k \in Hash : ShardOf[k] = j}
      /\ z.signatures \in SUBSET Hash
      /\ KeepsUnlessFull(t, z)
      /\ Exact(t) /\ h \notin t.signatures =>
            Exact(z) /\ Pairs(z.lru) = UsedLast(Pairs(t.lru), h, z.signatures)
  BY <1>4, <1>5, InsertedOnce
<1>7. g \in Hash
  BY <1>4
<1>8. u \in SUBSET (Hash \X Hash)
  BY <1>4, <1>7, UsedLastType
<1> HIDE DEF z
<1>9. o \in SUBSET (Hash \X Hash)
  <2> HIDE DEF u
  <2>1. QED
    BY <1>6, <1>8, UsedLastType
<1>10. shard' = [shard EXCEPT ![j] = z] /\ before' = [before EXCEPT ![j] = o]
  BY <1>2 DEF t, z
<1>11. j \notin twice' => Exact(z) /\ Pairs(z.lru) = o
  <2> SUFFICES ASSUME j \notin twice'
               PROVE  Exact(z) /\ Pairs(z.lru) = o
    OBVIOUS
  <2>1. j \notin twice /\ h \notin x.signatures
    BY <1>3
  <2>2. Exact(t) /\ Pairs(t.lru) = u
    BY <1>4, <1>5, <2>1
  <2>3. QED
    BY <1>5, <1>6, <2>1, <2>2
<1> HIDE DEF o, u, j
<1>12. OneShard(j, z, o)
  BY <1>3, <1>6, <1>9, <1>10, <1>11 DEF OneShard
<1>13. KeepsUnlessFull(x, z)
  BY <1>5, <1>6 DEF KeepsUnlessFull
<1>14. QED
  BY <1>12, <1>13, OneShardCall DEF j, x

LEMMA LoadKeeps ==
    ASSUME PalantirInv, NEW h \in Hash, Load(h),
           outcome' = Unique \/ outcome' = outcome
    PROVE  CallKeeps(h)
<1> DEFINE j == ShardOf[h]
           x == shard[j]
           z == Inserted(x, h)
           o == UsedLast(before[j], h, z.signatures)
<1>1. /\ shard' = [shard EXCEPT ![j] = z] /\ before' = [before EXCEPT ![j] = o]
      /\ twice' = (IF h \in x.signatures THEN twice \cup {j} ELSE twice)
  BY DEF Load, Insert
<1>2. /\ j \in Shard /\ Sound(x) /\ x.signatures \subseteq {k \in Hash : ShardOf[k] = j}
      /\ before[j] \in SUBSET (Hash \X Hash)
      /\ j \notin twice => Exact(x) /\ Pairs(x.lru) = before[j]
  BY ShardParts
<1> HIDE DEF x
<1>3. /\ Sound(z) /\ Fits(z) /\ z.signatures \subseteq {k \in Hash : ShardOf[k] = j}
      /\ z.signatures \in SUBSET Hash
      /\ KeepsUnlessFull(x, z)
      /\ Exact(x) /\ h \notin x.signatures =>
            Exact(z) /\ Pairs(z.lru) = UsedLast(Pairs(x.lru), h, z.signatures)
  BY <1>2, InsertedOnce
<1> HIDE DEF z
<1>4. o \in SUBSET (Hash \X Hash)
  BY <1>2, <1>3, UsedLastType
<1>5. j \notin twice' => Exact(z) /\ Pairs(z.lru) = o
  <2> SUFFICES ASSUME j \notin twice'
               PROVE  Exact(z) /\ Pairs(z.lru) = o
    OBVIOUS
  <2>1. j \notin twice /\ h \notin x.signatures
    BY <1>1
  <2>2. QED
    BY <1>2, <1>3, <2>1
<1>6. outcome' = Unique \/ outcome' \in {NearDuplicate(g, t) : g \in Hash, t \in 1 .. 3}
  BY DEF PalantirInv
<1> HIDE DEF o, j
<1>7. OneShard(j, z, o)
  BY <1>1, <1>3, <1>4, <1>5, <1>6 DEF OneShard
<1>8. QED
  BY <1>3, <1>7, OneShardCall DEF j, x

LEMMA RebuildKeeps ==
    ASSUME PalantirInv, NEW e \in Rebuilds, Rebuild(e)
    PROVE  PalantirInv'
<1>1. e \in Seq(Hash)
  BY RebuildAssumption
<1>2. /\ shard' = Filled(e)
      /\ before' = [i \in Shard |-> Among(Pairs(e), shard'[i].signatures)]
      /\ twice' = {ShardOf[p[1]] : p \in {q \in Pairs(e) : q[1] = q[2]}}
      /\ outcome' = outcome
  BY DEF Rebuild
<1>3. AllSound(shard')
  BY <1>1, <1>2, FilledSound
<1>4. before' \in [Shard -> SUBSET (Hash \X Hash)]
  BY <1>2 DEF Among, Pairs
<1>5. twice' \subseteq Shard
  BY <1>2, ShardAssumption DEF Pairs
<1>6. ASSUME NEW i \in Shard \ twice'
      PROVE  Exact(shard'[i]) /\ Pairs(shard'[i].lru) = before'[i]
  <2>1. ASSUME NEW a \in Hash, ShardOf[a] = i, <<a, a>> \in Pairs(e)
        PROVE  FALSE
    <3>1. <<a, a>> \in {q \in Pairs(e) : q[1] = q[2]} /\ <<a, a>>[1] = a
      BY <2>1
    <3>2. ShardOf[<<a, a>>[1]] \in twice'
      BY <1>2, <3>1
    <3>3. QED
      BY <1>6, <2>1, <3>1, <3>2
  <2>2. Exact(Filled(e)[i]) /\ Pairs(Filled(e)[i].lru) = Among(Pairs(e), Filled(e)[i].signatures)
    BY <1>1, <2>1, FilledSound
  <2>3. QED
    BY <1>2, <2>2
<1>7. QED
  BY <1>2, <1>3, <1>4, <1>5, <1>6 DEF PalantirInv

LEMMA OneChunkKeeps ==
    ASSUME PalantirInv, OneChunk
    PROVE  \E h \in Hash : CallKeeps(h)
<1>1. PICK h \in Hash : ProcessNear(h) \/ ProcessBelow(h) \/ ProcessUnique(h) \/ SetIndexEntry(h)
  BY DEF OneChunk
<1>2. CASE ProcessNear(h)
  BY <1>2, NearKeeps
<1>3. CASE ProcessBelow(h)
  BY <1>3, BelowKeeps
<1>4. CASE ProcessUnique(h)
  BY <1>4, LoadKeeps DEF ProcessUnique
<1>5. CASE SetIndexEntry(h)
  BY <1>5, LoadKeeps DEF SetIndexEntry
<1>6. QED
  BY <1>1, <1>2, <1>3, <1>4, <1>5

LEMMA InvNext == PalantirInv /\ [Next]_vars => PalantirInv'
<1> SUFFICES ASSUME PalantirInv, [Next]_vars
             PROVE  PalantirInv'
  OBVIOUS
<1>1. CASE OneChunk
  BY <1>1, OneChunkKeeps DEF CallKeeps
<1>2. ASSUME NEW e \in Rebuilds, Rebuild(e)
      PROVE  PalantirInv'
  BY <1>2, RebuildKeeps
<1>3. CASE UNCHANGED vars
  BY <1>3 DEF PalantirInv, vars, AllSound
<1>4. QED
  BY <1>1, <1>2, <1>3 DEF Next

LEMMA InvHolds == Spec => []PalantirInv
<1>1. QED
  BY InvInit, InvNext, PTL DEF Spec

-----------------------------------------------------------------------------
(* TypeOK.                                                                  *)
THEOREM TypeCorrect == Spec => []TypeOK
<1>1. PalantirInv => TypeOK
  <2> SUFFICES ASSUME PalantirInv
               PROVE  TypeOK
    OBVIOUS
  <2>1. ASSUME NEW i \in Shard
        PROVE  /\ shard[i].signatures \subseteq {h \in Hash : ShardOf[h] = i}
               /\ ToSet(shard[i].lru) = shard[i].signatures
               /\ shard[i].count \in Nat
    <3>1. Sound(shard[i]) /\ shard[i].signatures \subseteq {h \in Hash : ShardOf[h] = i}
      BY DEF PalantirInv, AllSound
    <3>2. QED
      BY <3>1, SoundParts DEF Sound
  <2>2. QED
    BY <2>1 DEF PalantirInv, TypeOK
<1>2. QED
  BY <1>1, InvHolds, PTL

(* StructuresAgree.                                                         *)
THEOREM StructuresAgreeHolds == Spec => []StructuresAgree
<1>1. PalantirInv => StructuresAgree
  <2> SUFFICES ASSUME PalantirInv
               PROVE  StructuresAgree
    OBVIOUS
  <2>1. \A i \in Shard : Sound(shard[i])
    BY DEF PalantirInv, AllSound
  <2>2. ListsMatchSignatures
    BY <2>1 DEF ListsMatchSignatures, Sound
  <2>3. CountIsEntries
    <3>1. ASSUME NEW i \in Shard
          PROVE  /\ shard[i].count >= Cardinality(shard[i].signatures)
                 /\ i \notin twice => shard[i].count = Cardinality(shard[i].signatures)
      <4>1. shard[i].count \in Nat /\ Cardinality(shard[i].signatures) \in Nat
            /\ Cardinality(shard[i].signatures) <= shard[i].count
        BY <2>1, SoundParts DEF Sound
      <4>2. QED
        BY <4>1 DEF PalantirInv, Exact
    <3>2. QED
      BY <3>1 DEF CountIsEntries
  <2>4. QueueIsUseOrder
    BY DEF QueueIsUseOrder, PalantirInv
  <2>5. QED
    BY <2>2, <2>3, <2>4 DEF StructuresAgree
<1>2. QED
  BY <1>1, InvHolds, PTL

(* The union of n sets of at most B elements has at most n * B.             *)
LEMMA UnionOfBounded ==
    ASSUME NEW I, IsFiniteSet(I), NEW B \in Nat, NEW f,
           \A i \in I : IsFiniteSet(f[i]) /\ Cardinality(f[i]) <= B
    PROVE  /\ IsFiniteSet(UNION {f[i] : i \in I})
           /\ Cardinality(UNION {f[i] : i \in I}) <= Cardinality(I) * B
<1> DEFINE N == Cardinality(I)
           All(T) == UNION {f[i] : i \in T}
           Bounded(n) == \A T \in SUBSET I : Cardinality(T) = n =>
                            IsFiniteSet(All(T)) /\ Cardinality(All(T)) <= n * B
           G == {n \in 0 .. N : Bounded(n)}
<1>1. N \in Nat
  BY FS_CardinalityType
<1> HIDE DEF N
<1>2. 0 \in G
  <2>1. ASSUME NEW T \in SUBSET I, Cardinality(T) = 0
        PROVE  IsFiniteSet(All(T)) /\ Cardinality(All(T)) <= 0 * B
    <3>1. T = {}
      BY <2>1, FS_Subset, FS_EmptySet
    <3>2. All(T) = {}
      BY <3>1
    <3> HIDE DEF All
    <3>3. QED
      BY <3>2, FS_EmptySet
  <2>2. QED
    BY <1>1, <2>1
<1>3. ASSUME NEW n \in 1 .. N, n - 1 \in G
      PROVE  n \in G
  <2>0. n \in Nat /\ n - 1 \in Nat /\ n \in 0 .. N
    BY <1>1
  <2>1. ASSUME NEW T \in SUBSET I, Cardinality(T) = n
        PROVE  IsFiniteSet(All(T)) /\ Cardinality(All(T)) <= n * B
    <3>1. IsFiniteSet(T)
      BY FS_Subset
    <3>2. PICK i \in T : TRUE
      BY <2>0, <2>1, <3>1, FS_EmptySet
    <3> DEFINE U == T \ {i}
    <3>3. Cardinality(U) = n - 1 /\ U \in SUBSET I
      BY <2>1, <3>1, <3>2, FS_RemoveElement
    <3>4. All(T) = All(U) \cup f[i]
      BY <3>2
    <3>5. Bounded(n - 1)
      BY <1>3
    <3> HIDE DEF U
    <3>6. IsFiniteSet(All(U)) /\ Cardinality(All(U)) <= (n - 1) * B
      BY <3>3, <3>5
    <3> HIDE DEF All
    <3>7. IsFiniteSet(f[i]) /\ Cardinality(f[i]) <= B
      OBVIOUS
    <3> DEFINE P == All(U)
               Q == f[i]
    <3>8. IsFiniteSet(P) /\ IsFiniteSet(Q)
      BY <3>6, <3>7
    <3> HIDE DEF P, Q
    <3>9. /\ IsFiniteSet(P \cup Q)
          /\ Cardinality(P \cup Q) = Cardinality(P) + Cardinality(Q) - Cardinality(P \cap Q)
      BY <3>8, FS_Union
    <3>10. Cardinality(P) \in Nat /\ Cardinality(Q) \in Nat /\ Cardinality(P \cap Q) \in Nat
      BY <3>8, FS_CardinalityType, FS_Intersection
    <3>11. (n - 1) * B + B = n * B /\ (n - 1) * B \in Nat /\ n * B \in Nat
      BY <2>0
    <3>12. Cardinality(P \cup Q) <= n * B
      <4>1. Cardinality(P) <= (n - 1) * B /\ Cardinality(Q) <= B
        BY <3>6, <3>7 DEF P, Q
      <4> DEFINE c == (n - 1) * B
                 d == n * B
      <4>2. c + B = d /\ c \in Nat /\ d \in Nat /\ Cardinality(P) <= c
        BY <3>11, <4>1
      <4> HIDE DEF c, d
      <4>3. Cardinality(P \cup Q) <= d
        BY <3>9, <3>10, <4>1, <4>2
      <4>4. QED
        BY <4>3 DEF d
    <3>13. QED
      BY <3>4, <3>9, <3>12 DEF P, Q
  <2>2. Bounded(n)
    BY <2>1
  <2>3. QED
    BY <2>0, <2>2
<1>4. Bounded(N)
  <2> HIDE DEF G
  <2>1. \A n \in 0 .. N : n \in G
    BY <1>1, <1>2, <1>3, UpTo
  <2>2. N \in G
    BY <1>1, <2>1
  <2>3. QED
    BY <2>2 DEF G
<1>5. QED
  BY <1>4 DEF N

(* WithinBudget, when the budget allows for an entry per shard.             *)
THEOREM WithinBudgetHolds ==
    ASSUME Budget >= Cardinality(Shard)
    PROVE  Spec => []WithinBudget
<1> DEFINE n == Cardinality(Shard)
<1>0. n \in Nat \ {0} /\ Budget \in Nat /\ Budget >= n
  <2>1. n \in Nat /\ n # 0
    BY ShardAssumption, FS_CardinalityType, FS_EmptySet
  <2>2. QED
    BY <2>1, SizeAssumption
<1>1. ShardBudget \in Nat /\ ShardBudget >= 1 /\ n * ShardBudget <= Budget
  <2>1. ShardBudget = Budget \div n
    BY DEF ShardBudget
  <2> HIDE DEF n
  <2>2. QED
    BY <1>0, <2>1
<1>2. PalantirInv => WithinBudget
  <2> SUFFICES ASSUME PalantirInv
               PROVE  WithinBudget
    OBVIOUS
  <2> DEFINE f == [i \in Shard |-> shard[i].signatures]
  <2>1. \A i \in Shard : IsFiniteSet(f[i]) /\ Cardinality(f[i]) <= ShardBudget
    <3>1. ASSUME NEW i \in Shard
          PROVE  IsFiniteSet(shard[i].signatures)
                 /\ Cardinality(shard[i].signatures) <= ShardBudget
      <4>1. Sound(shard[i]) /\ Fits(shard[i])
        BY DEF PalantirInv, AllSound
      <4>2. Cardinality(shard[i].signatures) \in Nat
        BY <4>1, SoundParts
      <4>3. QED
        BY <1>1, <4>1, <4>2 DEF Sound, Fits
    <3>2. QED
      BY <3>1
  <2>2. {f[i] : i \in Shard} = {shard[i].signatures : i \in Shard}
    OBVIOUS
  <2> HIDE DEF f
  <2> DEFINE U == UNION {f[i] : i \in Shard}
  <2>3. IsFiniteSet(U) /\ Cardinality(U) <= n * ShardBudget
    BY <1>1, <2>1, ShardAssumption, UnionOfBounded
  <2>4. Cardinality(U) \in Nat
    BY <2>3, FS_CardinalityType
  <2>5. Cardinality(U) <= Budget
    <3> DEFINE c == n * ShardBudget
    <3>1. c \in Nat /\ c <= Budget /\ Cardinality(U) <= c
      BY <1>0, <1>1, <2>3
    <3> HIDE DEF c, U
    <3>2. QED
      BY <1>0, <2>4, <3>1
  <2>6. QED
    BY <2>2, <2>5 DEF WithinBudget
<1>3. QED
  BY <1>2, InvHolds, PTL

(* EvictsWhenFull.                                                          *)
THEOREM EvictsWhenFullHolds == Spec => EvictsWhenFull
<1>1. PalantirInv /\ [Next]_vars =>
         [OneChunk =>
             \A i \in Shard \ (twice \cup twice') :
                 ~(shard[i].signatures \subseteq shard'[i].signatures)
                 => Cardinality(shard[i].signatures) >= ShardBudget]_vars
  BY OneChunkKeeps DEF CallKeeps
<1>2. QED
  BY <1>1, InvHolds, PTL DEF Spec, EvictsWhenFull

===============================================================================
