--------------------------- MODULE StoreLocksProofs ---------------------------
(***************************************************************************)
(* No threads of a process wait for locks in a circle (StoreLocks), for    *)
(* any number of threads, calls and deltas.                                *)
(***************************************************************************)
EXTENDS StoreLocks, SequenceTheorems, TLAPS

(* What a thread at s holds: the lock of the section it is in, and the one *)
(* it keeps.                                                               *)
HeldAt(s, in, l) == (in /\ Locked[s] = l) \/ Kept(s) = l

OwnerInv ==
    /\ \A l \in Lock, t \in Thread : owner[l] = t <=> HeldAt(at[t], inside[t], l)
    /\ \A t \in Thread : inside[t] => at[t] \in Locking
    /\ \A t \in Thread : op[t] = "none" => at[t] = "return"

Inv == TypeOK /\ OwnerInv

-----------------------------------------------------------------------------
(* The sections.                                                           *)

Sections == {"pending", "location", "scan", "append", "drain", "packed", "sign", "search",
             "load", "populate", "lookup", "swap", "cached", "fetch", "filter", "entry",
             "addfilter", "addentry", "ownfilter", "ownentry"}

LEMMA LockingIs == Locking = Sections
  BY DEF Locking, Locked, Sections

LEMMA LockedIs == \A s \in Locking : Locked[s] \in Lock
  BY LockingIs DEF Locked, Sections, Lock

LEMMA KeptIs == \A s : Kept(s) \in {"index", "state", None}
  BY DEF Kept

(* A lock that is kept is not the one of the section it is kept through.   *)
LEMMA KeptIsAnother == \A s \in Locking : Kept(s) # Locked[s]
  BY LockingIs, LockNames DEF Locked, Sections, Kept, Lock

(* A section that keeps a lock takes one that is never kept.               *)
LEMMA KeeperTakesLast ==
    \A s \in Locking : Kept(s) \in Lock => Locked[s] \in {"bloom", "map"}
  BY LockingIs, LockNames DEF Locked, Sections, Kept, Lock

LEMMA FirstIs == ASSUME NEW o \in Ops PROVE First(o) \in Locking /\ Kept(First(o)) = None
  BY LockingIs DEF First, Ops, Sections, Kept

(* What a section keeps the next one keeps, or what it took itself.        *)
LEMMA AfterKeeps ==
    ASSUME NEW o, NEW s \in Locking, NEW x \in After(o, s)
    PROVE  /\ Kept(s) \in Lock => Kept(x) = Kept(s)
           /\ Kept(s) \notin Lock => Kept(x) \in {None, Locked[s]}
<1>1. CASE s \in {"filter", "entry", "addfilter", "addentry"}
  BY <1>1, LockNames DEF After, Follows, Kept, Lock
<1>2. CASE s \in {"lookup", "populate"}
  <2>1. Locked["lookup"] = "index" /\ Locked["populate"] = "state"
    BY DEF Locked
  <2> QED
    BY <1>2, <2>1, LockNames DEF After, Follows, Kept, Lock
<1>3. CASE s \in {"pending", "location", "scan", "append", "drain", "packed", "sign", "search"}
  BY <1>3, LockNames DEF After, Follows, Kept, Lock
<1>4. CASE s \in {"load", "swap", "cached", "fetch", "ownfilter", "ownentry"}
  BY <1>4, LockNames DEF After, Follows, Kept, Lock
<1> QED
  BY <1>1, <1>2, <1>3, <1>4, LockingIs DEF Sections

(* Nothing is kept once the guard is dropped.                              *)
LEMMA AfterDrop ==
    ASSUME NEW o, NEW s \in {"lookedup", "populated"}
    PROVE  \A x \in After(o, s) : Kept(x) = None
  BY LockNames DEF After, Follows, FromLocation, Kept, Lock

-----------------------------------------------------------------------------
(* The calls get_inner is nested in: one more, one less.                   *)

LEMMA OneMore ==
    ASSUME NEW W, NEW q \in Seq(W), NEW e \in W
    PROVE  /\ Append(q, e) \in Seq(W) /\ Len(Append(q, e)) = Len(q) + 1
           /\ Len(q) \in Nat
  BY AppendProperties, LenProperties

LEMMA OneLess ==
    ASSUME NEW W, NEW q \in Seq(W), Len(q) > 0
    PROVE  /\ SubSeq(q, 1, Len(q) - 1) \in Seq(W)
           /\ Len(SubSeq(q, 1, Len(q) - 1)) = Len(q) - 1
           /\ Len(q) \in Nat
<1>1. Len(q) \in Nat
  BY LenProperties
<1>2. \A i \in 1 .. Len(q) - 1 : q[i] \in W
  BY <1>1, ElementOfSeq
<1>3. 1 \in Int /\ Len(q) - 1 \in Int
  BY <1>1
<1>4. /\ SubSeq(q, 1, Len(q) - 1) \in Seq(W)
      /\ Len(SubSeq(q, 1, Len(q) - 1)) = IF 1 <= Len(q) - 1 THEN Len(q) - 1 - 1 + 1 ELSE 0
  BY <1>2, <1>3, SubSeqProperties
<1>5. \A n \in Nat : n > 0 => (IF 1 <= n - 1 THEN n - 1 - 1 + 1 ELSE 0) = n - 1
  OBVIOUS
<1> QED
  BY <1>1, <1>4, <1>5, Zenon

-----------------------------------------------------------------------------
(* The invariant.                                                          *)

LEMMA InitInv == Init => Inv
<1>1. ASSUME Init  PROVE TypeOK
  BY <1>1, LockBounds DEF Init, TypeOK, Unlocked
<1>2. ASSUME Init  PROVE OwnerInv
  BY <1>2, LockNames DEF Init, OwnerInv, HeldAt, Kept
<1> QED
  BY <1>1, <1>2 DEF Inv

(* A step of t that hands locks over between t and nobody, after which t   *)
(* has the locks of the place it is at.                                    *)
LEMMA MoveInv ==
    ASSUME NEW t \in Thread, NEW s, NEW in, NEW o, Inv, TypeOK',
           op' = [op EXCEPT ![t] = o], at' = [at EXCEPT ![t] = s],
           inside' = [inside EXCEPT ![t] = in],
           in => s \in Locking, o = "none" => s = "return",
           \A l \in Lock : owner'[l] = owner[l] \/ (owner[l] \in {t, None} /\ owner'[l] \in {t, None}),
           \A l \in Lock : owner'[l] = t <=> HeldAt(s, in, l)
    PROVE  Inv'
<1>1. at'[t] = s /\ inside'[t] = in /\ op'[t] = o
  BY DEF Inv, TypeOK
<1>2. \A u \in Thread \ {t} : at'[u] = at[u] /\ inside'[u] = inside[u] /\ op'[u] = op[u]
  BY DEF Inv, TypeOK
<1>3. \A u \in Thread \ {t}, l \in Lock : owner'[l] = u <=> owner[l] = u
  BY LockNames
<1>4. \A l \in Lock, u \in Thread : owner'[l] = u <=> HeldAt(at'[u], inside'[u], l)
  BY <1>1, <1>2, <1>3 DEF Inv, OwnerInv
<1>5. \A u \in Thread : /\ inside'[u] => at'[u] \in Locking
                        /\ op'[u] = "none" => at'[u] = "return"
  BY <1>1, <1>2 DEF Inv, OwnerInv
<1> QED
  BY <1>4, <1>5 DEF Inv, OwnerInv

(* The same for a step between two places that hold no lock.               *)
LEMMA QuietInv ==
    ASSUME NEW t \in Thread, NEW s, NEW o, Inv, TypeOK',
           ~inside[t], Kept(at[t]) \notin Lock, Kept(s) \notin Lock,
           op' = [op EXCEPT ![t] = o], at' = [at EXCEPT ![t] = s],
           o = "none" => s = "return", UNCHANGED <<owner, inside>>
    PROVE  Inv'
<1>1. inside' = [inside EXCEPT ![t] = FALSE]
  BY DEF Inv, TypeOK
<1>2. \A l \in Lock : owner'[l] = owner[l] /\ (owner'[l] = t <=> HeldAt(s, FALSE, l))
  BY DEF Inv, OwnerInv, HeldAt
<1> QED
  BY <1>1, <1>2, MoveInv

LEMMA NothingKept ==
    \A s \in {"return", "location base", "scan base", "pending", "scan"} : Kept(s) \notin Lock
  BY LockNames DEF Kept

LEMMA NotInside ==
    ASSUME Inv, NEW t \in Thread, at[t] \in Unlocked  PROVE ~inside[t]
  BY LockingIs DEF Inv, OwnerInv, Unlocked, Sections

LEMMA CallInv ==
    ASSUME NEW t \in Thread, NEW o \in Ops, Inv, Call(t, o)  PROVE  Inv'
<1>1. calls' \in 0 .. MaxCalls
  <2>1. calls \in 0 .. MaxCalls /\ calls < MaxCalls /\ calls' = calls + 1
    BY DEF Inv, TypeOK, Call
  <2> QED
    BY <2>1, LockBounds
<1>2. left' \in [Thread -> 0 .. MaxEntries]
  <2>1. left \in [Thread -> 0 .. MaxEntries] /\ left' = [left EXCEPT ![t] = MaxEntries]
    BY DEF Inv, TypeOK, Call
  <2>2. MaxEntries \in 0 .. MaxEntries
    BY LockBounds
  <2> QED
    BY <2>1, <2>2
<1>3. TypeOK'
  BY <1>1, <1>2, FirstIs DEF Inv, TypeOK, Call
<1>4. at[t] = "return" /\ o # "none"
  BY DEF Inv, OwnerInv, Call, Ops
<1> QED
  BY <1>3, <1>4, QuietInv, FirstIs, NothingKept, NotInside, LockNames DEF Call, Unlocked

LEMMA EnterInv == ASSUME NEW t \in Thread, Inv, Enter(t)  PROVE  Inv'
<1> DEFINE l == Locked[at[t]]
<1>1. /\ l \in Lock /\ owner[l] = None /\ at[t] \in Locking /\ op[t] # "none" /\ ~inside[t]
      /\ owner' = [owner EXCEPT ![l] = t]
  BY LockedIs DEF Enter, Free
<1>2. TypeOK'
  BY <1>1 DEF Inv, TypeOK, Enter
<1>3. /\ op' = [op EXCEPT ![t] = op[t]] /\ at' = [at EXCEPT ![t] = at[t]]
      /\ inside' = [inside EXCEPT ![t] = TRUE]
  BY DEF Inv, TypeOK, Enter
<1>4. \A x \in Lock : owner'[x] = IF x = l THEN t ELSE owner[x]
  BY <1>1 DEF Inv, TypeOK
<1>5. \A x \in Lock : owner[x] = t <=> Kept(at[t]) = x
  BY <1>1 DEF Inv, OwnerInv, HeldAt
<1>6. \A x \in Lock : owner'[x] = t <=> HeldAt(at[t], TRUE, x)
  BY <1>4, <1>5 DEF HeldAt
<1>7. \A x \in Lock : owner'[x] = owner[x] \/ (owner[x] \in {t, None} /\ owner'[x] \in {t, None})
  BY <1>1, <1>4
<1> QED
  BY <1>1, <1>2, <1>3, <1>6, <1>7, MoveInv, Zenon

LEMMA LeaveInv == ASSUME NEW t \in Thread, Inv, Leave(t)  PROVE  Inv'
<1> DEFINE l == Locked[at[t]]
<1>1. at[t] \in Locking /\ owner[l] = t /\ l \in Lock
  BY LockedIs DEF Inv, OwnerInv, HeldAt, Leave
<1>2. PICK s \in After(op[t], at[t]) :
        /\ (s \in {"addfilter", "ownfilter"}) => left[t] > 0
        /\ left' = [left EXCEPT ![t] = IF s \in {"addfilter", "ownfilter"} THEN @ - 1 ELSE @]
        /\ at' = [at EXCEPT ![t] = s]
        /\ owner' = IF Kept(s) = l THEN owner ELSE [owner EXCEPT ![l] = None]
  BY DEF Leave
<1>3. left' \in [Thread -> 0 .. MaxEntries]
  <2>1. left \in [Thread -> 0 .. MaxEntries]
    BY DEF Inv, TypeOK
  <2>2. (IF s \in {"addfilter", "ownfilter"} THEN left[t] - 1 ELSE left[t]) \in 0 .. MaxEntries
    BY <1>2, <2>1, LockBounds
  <2> QED
    BY <1>2, <2>1, <2>2
<1>4. TypeOK'
  <2>1. s \in Locking \cup Unlocked
    BY <1>2 DEF After
  <2>2. at' \in [Thread -> Locking \cup Unlocked]
    BY <1>2, <2>1 DEF Inv, TypeOK
  <2>3. owner' \in [Lock -> Thread \cup {None}]
    BY <1>1, <1>2 DEF Inv, TypeOK
  <2> QED
    BY <1>3, <2>2, <2>3 DEF Inv, TypeOK, Leave
<1>5. /\ op' = [op EXCEPT ![t] = op[t]] /\ at' = [at EXCEPT ![t] = s]
      /\ inside' = [inside EXCEPT ![t] = FALSE]
  BY <1>2 DEF Inv, TypeOK, Leave
<1>6. /\ Kept(at[t]) \in Lock => Kept(s) = Kept(at[t])
      /\ Kept(at[t]) \notin Lock => Kept(s) \in {None, l}
      /\ Kept(at[t]) # l
  BY <1>1, AfterKeeps, KeptIsAnother
<1>7. \A x \in Lock : owner'[x] = IF x = l /\ Kept(s) # l THEN None ELSE owner[x]
  BY <1>1, <1>2 DEF Inv, TypeOK
<1>8. \A x \in Lock : owner[x] = t <=> x = l \/ Kept(at[t]) = x
  BY <1>1 DEF Inv, OwnerInv, HeldAt, Leave
<1>9. \A x \in Lock : owner'[x] = t <=> HeldAt(s, FALSE, x)
  BY <1>1, <1>6, <1>7, <1>8, LockNames DEF HeldAt
<1>10. op[t] # "none"
  BY <1>1, LockingIs DEF Inv, OwnerInv, Sections
<1>11. \A x \in Lock : owner'[x] = owner[x] \/ (owner[x] \in {t, None} /\ owner'[x] \in {t, None})
  BY <1>1, <1>7
<1> QED
  BY <1>4, <1>5, <1>9, <1>10, <1>11, MoveInv, Zenon

LEMMA DropGuardInv == ASSUME NEW t \in Thread, Inv, DropGuard(t)  PROVE  Inv'
<1> DEFINE k == Kept(at[t])
<1>1. k \in Lock /\ at[t] \in Unlocked /\ op[t] # "none"
  BY DEF DropGuard, Kept, Lock, Unlocked
<1>2. PICK s \in After(op[t], at[t]) : at' = [at EXCEPT ![t] = s]
  BY DEF DropGuard
<1>3. s \in Locking \cup Unlocked /\ Kept(s) = None
  BY <1>2, AfterDrop DEF After, DropGuard
<1>4. TypeOK'
  BY <1>1, <1>2, <1>3 DEF Inv, TypeOK, DropGuard
<1>5. /\ op' = [op EXCEPT ![t] = op[t]] /\ at' = [at EXCEPT ![t] = s]
      /\ inside' = [inside EXCEPT ![t] = FALSE]
  BY <1>1, <1>2, NotInside DEF Inv, TypeOK, DropGuard
<1>6. \A x \in Lock : owner'[x] = IF x = k THEN None ELSE owner[x]
  BY <1>1 DEF Inv, TypeOK, DropGuard
<1>7. \A x \in Lock : owner[x] = t <=> k = x
  BY <1>1, NotInside DEF Inv, OwnerInv, HeldAt
<1>8. \A x \in Lock : owner'[x] = t <=> HeldAt(s, FALSE, x)
  BY <1>3, <1>6, <1>7, LockNames DEF HeldAt
<1>9. \A x \in Lock : owner'[x] = owner[x] \/ (owner[x] \in {t, None} /\ owner'[x] \in {t, None})
  BY <1>6, <1>7
<1> QED
  BY <1>1, <1>4, <1>5, <1>8, <1>9, MoveInv, Zenon

LEMMA GetBaseInv == ASSUME NEW t \in Thread, Inv, GetBase(t)  PROVE  Inv'
<1> DEFINE Ways == {"location base", "scan base"}
<1>1. at[t] \in Ways /\ op[t] # "none"
  BY DEF Inv, OwnerInv, GetBase
<1>2. PICK s \in {"pending", "scan", "return"} : at' = [at EXCEPT ![t] = s]
  BY DEF GetBase
<1>3. TypeOK'
  <2>1. bases \in [Thread -> Seq(Ways)] /\ \A u \in Thread : Len(bases[u]) <= MaxDepth
    BY DEF Inv, TypeOK
  <2>2. CASE bases' = bases
    BY <1>2, <2>2, LockingIs DEF Inv, TypeOK, GetBase, Unlocked, Sections
  <2>3. CASE Len(bases[t]) < MaxDepth /\ bases' = [bases EXCEPT ![t] = Append(@, at[t])]
    <3>1. /\ Append(bases[t], at[t]) \in Seq(Ways)
          /\ Len(Append(bases[t], at[t])) = Len(bases[t]) + 1 /\ Len(bases[t]) \in Nat
      <4>1. bases[t] \in Seq(Ways) /\ at[t] \in Ways
        BY <1>1, <2>1
      <4> HIDE DEF Ways
      <4> QED
        BY <4>1, OneMore, Zenon
    <3>2. Len(bases[t]) + 1 <= MaxDepth
      <4> DEFINE len == Len(bases[t])
      <4>1. len \in Nat /\ len < MaxDepth /\ MaxDepth \in Nat
        BY <2>3, <3>1, LockBounds
      <4> HIDE DEF len
      <4>2. len + 1 <= MaxDepth
        BY <4>1
      <4> QED
        BY <4>2 DEF len
    <3>3. bases' \in [Thread -> Seq(Ways)] /\ \A u \in Thread : Len(bases'[u]) <= MaxDepth
      BY <2>1, <2>3, <3>1, <3>2
    <3>4. at' \in [Thread -> Locking \cup Unlocked]
      BY <1>2, LockingIs DEF Inv, TypeOK, Unlocked, Sections
    <3> QED
      BY <3>3, <3>4 DEF Inv, TypeOK, GetBase
  <2> QED
    BY <2>2, <2>3 DEF GetBase
<1>4. op' = [op EXCEPT ![t] = op[t]]
  BY DEF Inv, TypeOK, GetBase
<1> QED
  BY <1>1, <1>2, <1>3, <1>4, QuietInv, NothingKept, NotInside DEF GetBase, Unlocked

LEMMA ReturnBaseInv == ASSUME NEW t \in Thread, Inv, ReturnBase(t)  PROVE  Inv'
<1> DEFINE Ways == {"location base", "scan base"}
           n == Len(bases[t])
<1>1. at[t] = "return" /\ op[t] # "none"
  BY DEF ReturnBase
<1>2. PICK s \in {"scan", "return"} : at' = [at EXCEPT ![t] = s]
  <2>1. at' = at => at' = [at EXCEPT ![t] = "return"]
    BY <1>1 DEF Inv, TypeOK
  <2> QED
    BY <2>1 DEF ReturnBase
<1>3. TypeOK'
  <2>1. bases \in [Thread -> Seq(Ways)] /\ \A u \in Thread : Len(bases[u]) <= MaxDepth
    BY DEF Inv, TypeOK
  <2>2. n > 0 /\ bases' = [bases EXCEPT ![t] = SubSeq(@, 1, n - 1)]
    BY DEF ReturnBase
  <2>3. bases[t] \in Seq(Ways) /\ n <= MaxDepth
    BY <2>1
  <2>4. /\ SubSeq(bases[t], 1, n - 1) \in Seq(Ways) /\ n \in Nat
        /\ Len(SubSeq(bases[t], 1, n - 1)) <= MaxDepth
    <3>1. /\ SubSeq(bases[t], 1, n - 1) \in Seq(Ways) /\ n \in Nat
          /\ Len(SubSeq(bases[t], 1, n - 1)) = n - 1
      BY <2>2, <2>3, OneLess
    <3>2. \A x \in Nat : x <= MaxDepth => x - 1 <= MaxDepth
      BY LockBounds
    <3> QED
      BY <2>3, <3>1, <3>2, Zenon
  <2>5. bases' \in [Thread -> Seq(Ways)] /\ \A u \in Thread : Len(bases'[u]) <= MaxDepth
    BY <2>1, <2>2, <2>4
  <2>6. at' \in [Thread -> Locking \cup Unlocked]
    BY <1>2, LockingIs DEF Inv, TypeOK, Unlocked, Sections
  <2> QED
    BY <2>5, <2>6 DEF Inv, TypeOK, ReturnBase
<1>4. op' = [op EXCEPT ![t] = op[t]]
  BY DEF Inv, TypeOK, ReturnBase
<1> QED
  BY <1>1, <1>2, <1>3, <1>4, QuietInv, NothingKept, NotInside DEF ReturnBase, Unlocked

LEMMA ReturnInv == ASSUME NEW t \in Thread, Inv, Return(t)  PROVE  Inv'
<1>1. TypeOK'
  BY DEF Inv, TypeOK, Return
<1>2. op' = [op EXCEPT ![t] = "none"] /\ at' = [at EXCEPT ![t] = "return"]
  BY DEF Inv, TypeOK, Return
<1> QED
  BY <1>1, <1>2, QuietInv, NothingKept, NotInside DEF Return, Unlocked

LEMMA NextInv == Inv /\ [Next]_vars => Inv'
<1> SUFFICES ASSUME Inv, [Next]_vars PROVE Inv'
  OBVIOUS
<1>1. CASE UNCHANGED vars
  BY <1>1 DEF vars, Inv, TypeOK, OwnerInv, HeldAt
<1>2. ASSUME NEW t \in Thread, Step(t)  PROVE Inv'
  BY <1>2, EnterInv, LeaveInv, DropGuardInv, GetBaseInv, ReturnBaseInv, ReturnInv DEF Step
<1>3. ASSUME NEW t \in Thread, NEW o \in Ops, Call(t, o)  PROVE Inv'
  BY <1>3, CallInv
<1> QED
  BY <1>1, <1>2, <1>3 DEF Next

-----------------------------------------------------------------------------
(* The theorems.                                                           *)

(* The values of the state have their types, and the chain of deltas that  *)
(* get_inner follows is never longer than the depth it compares.           *)
THEOREM TypeCorrect == Spec => []TypeOK
<1>1. Inv => TypeOK
  BY DEF Inv
<1> QED
  BY <1>1, InitInv, NextInv, PTL DEF Spec

(* A thread in a circle is waited for, so it keeps a lock; it then waits   *)
(* for the filter or the map of the index, whose owner waits for nothing.  *)
LEMMA NoCircle == Inv => NoWaitCycle
<1> SUFFICES ASSUME Inv, NEW S \in SUBSET Thread, S # {},
                    \A t \in S : \E u \in S : WaitsFor(t, u)
             PROVE  FALSE
  BY DEF NoWaitCycle
<1>1. \A t, u \in S : WaitsFor(t, u) => Kept(at[u]) = Locked[at[t]]
  BY LockedIs DEF WaitsFor, Inv, OwnerInv, HeldAt
<1>2. \A u \in S : at[u] \in Locking
  BY DEF WaitsFor
<1>3. PICK t \in S, u \in S, v \in S : WaitsFor(t, u) /\ WaitsFor(u, v)
  OBVIOUS
<1>4. Kept(at[u]) \in Lock /\ Kept(at[v]) = Locked[at[u]]
  BY <1>1, <1>2, <1>3, LockedIs
<1>5. Kept(at[v]) \in {"bloom", "map"}
  BY <1>2, <1>4, KeeperTakesLast
<1> QED
  BY <1>4, <1>5, LockedIs, <1>2, KeptIs, LockNames DEF Lock

(* However many threads read, write and flush a store and its index, and   *)
(* however deep their deltas, none waits for itself and no threads wait    *)
(* for locks in a circle (NoWaitCycle).                                    *)
THEOREM NoWaitCycleHolds == Spec => []NoWaitCycle
  BY InitInv, NextInv, NoCircle, PTL DEF Spec

=============================================================================
