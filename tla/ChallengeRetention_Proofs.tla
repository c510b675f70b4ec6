--------------------- MODULE ChallengeRetention_Proofs ----------------------
(***************************************************************************)
(* The theorems about ChallengeRetention, for every set of sessions, deals *)
(* and generations, every epoch length and every cap: the inductive        *)
(* invariant, its preservation by opening and completing a session and by  *)
(* BeginBlock, that no check BeginBlock makes on the way can fail, and     *)
(* what follows.                                                           *)
(***************************************************************************)
EXTENDS ChallengeRetention, FiniteSetTheorems, TLAPS

(***************************************************************************)
(* Finite sets and epoch arithmetic.                                       *)
(***************************************************************************)
\* A part of a finite set is counted within it, and removing it subtracts.
LEMMA PartCounted ==
    ASSUME NEW S, IsFiniteSet(S), NEW T \in SUBSET S
    PROVE  /\ IsFiniteSet(T) /\ Cardinality(T) \in Nat /\ Cardinality(S) \in Nat
           /\ Cardinality(T) <= Cardinality(S)
           /\ Cardinality(T) = Cardinality(S) => T = S
           /\ T = {} <=> Cardinality(T) = 0
           /\ Cardinality(S \ T) = Cardinality(S) - Cardinality(T)
           /\ IsFiniteSet(S \ T) /\ Cardinality(S \ T) \in Nat
<1>1. IsFiniteSet(T) /\ Cardinality(T) <= Cardinality(S) /\ (Cardinality(S) = Cardinality(T) => S = T)
  BY FS_Subset, Zenon
<1>2. Cardinality(T) \in Nat /\ Cardinality(S) \in Nat
  BY <1>1, FS_CardinalityType, Zenon
<1>3. T = {} <=> Cardinality(T) = 0
  BY <1>1, FS_EmptySet, Zenon
<1>4. S \cap T = T
  BY Zenon
<1>5. Cardinality(S \ T) = Cardinality(S) - Cardinality(T)
  BY <1>4, FS_Difference, Zenon
<1>6. IsFiniteSet(S \ T) /\ Cardinality(S \ T) \in Nat
  BY FS_Difference, FS_CardinalityType, Zenon
<1> QED BY <1>1, <1>2, <1>3, <1>5, <1>6, Zenon

\* Adding a new element to a part of a finite set adds one to its count.
LEMMA OneMore ==
    ASSUME NEW S, IsFiniteSet(S), NEW x, x \notin S
    PROVE  IsFiniteSet(S \cup {x}) /\ Cardinality(S \cup {x}) = Cardinality(S) + 1
BY FS_AddElement, Zenon

\* epochIDAtHeight, isEpochStart and AuditWindow's anchor: an epoch number changes
\* exactly at its first height, which is its anchor, and anchors are distinct.
LEMMA EpochSteps ==
    /\ \A h \in Nat : /\ EpochOf(h) \in Int
                      /\ EpochOf(h + 1) \in 1..(h + 1)
                      /\ IsEpochStart(h + 1) => /\ EpochOf(h + 1) = EpochOf(h) + 1
                                                /\ EpochAnchor(EpochOf(h + 1)) = h + 1
                      /\ ~IsEpochStart(h + 1) => EpochOf(h + 1) = EpochOf(h)
    /\ \A a, b \in Int : EpochAnchor(a) = EpochAnchor(b) => a = b
    /\ \A a \in Int : EpochAnchor(a) \in Int
<1> USE RetentionConstants
<1>1. ASSUME NEW h \in Nat
      PROVE  /\ EpochOf(h) \in Int
             /\ EpochOf(h + 1) \in 1..(h + 1)
             /\ IsEpochStart(h + 1) => /\ EpochOf(h + 1) = EpochOf(h) + 1
                                       /\ EpochAnchor(EpochOf(h + 1)) = h + 1
             /\ ~IsEpochStart(h + 1) => EpochOf(h + 1) = EpochOf(h)
  <2> DEFINE q == h \div EpochLen
             r == h % EpochLen
  <2>1. q \in Nat /\ r \in 0..(EpochLen - 1) /\ h = EpochLen * q + r
    OBVIOUS
  <2>2. q <= h
    BY <2>1
  <2>3. (h - 1) \div EpochLen = IF r = 0 THEN q - 1 ELSE q
    BY <2>1
  <2>4. h + 1 - 1 = h
    OBVIOUS
  <2> QED BY <2>1, <2>2, <2>3, <2>4 DEF EpochOf, IsEpochStart, EpochAnchor
<1>2. ASSUME NEW a \in Int, NEW b \in Int, EpochAnchor(a) = EpochAnchor(b)
      PROVE  a = b
  BY <1>2 DEF EpochAnchor
<1>3. \A a \in Int : EpochAnchor(a) \in Int
  BY DEF EpochAnchor
<1> QED BY <1>1, <1>2, <1>3, Zenon

(***************************************************************************)
(* What is released and what stays.                                        *)
(***************************************************************************)
\* The sets counted by the bookkeeping are finite.
LEMMA FiniteKeys == IsFiniteSet(GenKeys) /\ IsFiniteSet(Audits) /\ IsFiniteSet(Epochs)
<1>1. IsFiniteSet(GenKeys)
  BY RetentionConstants, FS_Product, Zenon DEF GenKeys
<1> DEFINE P == (Deals \X Slots) \X Generations
           f == [a \in Audits |-> <<<<a[1], a[2]>>, a[3]>>]
<1>2. IsFiniteSet(Deals \X Slots)
  BY RetentionConstants, FS_Product, Zenon
<1>3. IsFiniteSet(P)
  BY <1>2, RetentionConstants, FS_Product, Zenon
<1>4. IsFiniteSet(Audits)
  <2>1. f \in [Audits -> P]
    BY Zenon DEF Audits
  <2>2. ASSUME NEW a \in Audits, NEW b \in Audits, f[a] = f[b]
        PROVE  a = b
    BY <2>2 DEF Audits
  <2>3. f \in Injection(Audits, P)
    BY <2>1, <2>2, Zenon DEF Injection, IsInjective
  <2> QED BY <1>3, <2>3, FS_Injection, Zenon
<1> QED BY <1>1, <1>4, FS_Interval, RetentionConstants DEF Epochs

(***************************************************************************)
(* Releasing a set E of retained sessions, at expiry or on completion.     *)
(***************************************************************************)
UsedGens(R) == {k \in GenKeys : Users(R, k) # {}}

\* The generations last used by E are those E empties.
LEMMA LastUsedExact ==
    ASSUME TypeOK, GenerationRefsExact, NEW E \in SUBSET Retained
    PROVE  /\ LastUsed(E) \subseteq UsedGens(Retained)
           /\ UsedGens(Retained \ E) = UsedGens(Retained) \ LastUsed(E)
           /\ \A k \in GenKeys : /\ Cardinality(Users(E, k)) <= genRefs[k]
                                 /\ genRefs[k] - Cardinality(Users(E, k))
                                      = Cardinality(Users(Retained \ E, k))
<1>1. IsFiniteSet(Retained)
  BY RetentionConstants, FS_Subset, Zenon DEF Retained, Stored
<1>2. ASSUME NEW k \in GenKeys
      PROVE  /\ IsFiniteSet(Users(Retained, k))
             /\ Users(E, k) \in SUBSET Users(Retained, k)
             /\ Users(Retained \ E, k) = Users(Retained, k) \ Users(E, k)
  <2>1. Users(Retained, k) \in SUBSET Retained
    BY Zenon DEF Users
  <2>2. IsFiniteSet(Users(Retained, k))
    BY <1>1, <2>1, FS_Subset, Zenon
  <2> QED BY <2>2, Zenon DEF Users
<1>3. ASSUME NEW k \in GenKeys
      PROVE  /\ genRefs[k] = Cardinality(Users(Retained, k))
             /\ Cardinality(Users(E, k)) <= genRefs[k]
             /\ Cardinality(Users(E, k)) = genRefs[k] <=> Users(E, k) = Users(Retained, k)
             /\ genRefs[k] - Cardinality(Users(E, k)) = Cardinality(Users(Retained \ E, k))
  <2>1. genRefs[k] = Cardinality(Users(Retained, k))
    BY Zenon DEF GenerationRefsExact
  <2> DEFINE U == Users(Retained, k)
             W == Users(E, k)
  <2>2. IsFiniteSet(U) /\ W \in SUBSET U /\ Users(Retained \ E, k) = U \ W
    BY <1>2, Zenon
  <2> HIDE DEF U, W
  <2>3. /\ Cardinality(W) <= Cardinality(U) /\ (Cardinality(W) = Cardinality(U) => W = U)
        /\ Cardinality(U \ W) = Cardinality(U) - Cardinality(W)
    BY <2>2, PartCounted, Zenon
  <2> QED BY <2>1, <2>2, <2>3, Zenon DEF U, W
<1>4. LastUsed(E) = {k \in GenKeys : Users(E, k) # {} /\ Users(E, k) = Users(Retained, k)}
  BY <1>3, Zenon DEF LastUsed
<1>5. LastUsed(E) \subseteq UsedGens(Retained)
  BY <1>4, Zenon DEF UsedGens
<1>6. UsedGens(Retained \ E) = UsedGens(Retained) \ LastUsed(E)
  <2>1. ASSUME NEW k \in GenKeys
        PROVE  Users(Retained \ E, k) # {} <=>
                 Users(Retained, k) # {} /\ ~(Users(E, k) # {} /\ Users(E, k) = Users(Retained, k))
    BY <1>2, Zenon
  <2> QED BY <2>1, <1>4, Zenon DEF UsedGens
<1> QED BY <1>3, <1>5, <1>6, Zenon

\* ReleaseGenerations keeps the generation counters exact.
LEMMA GenerationsReleased ==
    ASSUME TypeOK, GenerationRefsExact, NEW E \in SUBSET Retained
    PROVE  /\ \A k \in GenKeys : genRefs[k] - Cardinality(Users(E, k)) = Cardinality(Users(Retained \ E, k))
           /\ \A k \in GenKeys : Cardinality(Users(E, k)) <= genRefs[k]
           /\ \A k \in GenKeys : Cardinality(Users(Retained \ E, k)) \in Nat
           /\ \A d \in Deals :
                /\ Cardinality(OfDeal(LastUsed(E), d)) <= dealGens[d]
                /\ dealGens[d] - Cardinality(OfDeal(LastUsed(E), d))
                     = Cardinality({k \in GenKeys : k[1] = d /\ Users(Retained \ E, k) # {}})
                /\ Cardinality({k \in GenKeys : k[1] = d /\ Users(Retained \ E, k) # {}}) \in Nat
           /\ Cardinality(LastUsed(E)) <= gens
           /\ gens - Cardinality(LastUsed(E)) = Cardinality({k \in GenKeys : Users(Retained \ E, k) # {}})
           /\ Cardinality({k \in GenKeys : Users(Retained \ E, k) # {}}) \in Nat
<1>1. /\ LastUsed(E) \subseteq UsedGens(Retained)
      /\ UsedGens(Retained \ E) = UsedGens(Retained) \ LastUsed(E)
      /\ \A k \in GenKeys : /\ Cardinality(Users(E, k)) <= genRefs[k]
                            /\ genRefs[k] - Cardinality(Users(E, k))
                                 = Cardinality(Users(Retained \ E, k))
  BY LastUsedExact, Zenon
<1>2. IsFiniteSet(UsedGens(Retained))
  BY FiniteKeys, FS_Subset, Zenon DEF UsedGens
<1>3. \A k \in GenKeys : Cardinality(Users(Retained \ E, k)) \in Nat
  <2> SUFFICES ASSUME NEW k \in GenKeys PROVE Cardinality(Users(Retained \ E, k)) \in Nat
    BY Zenon
  <2>1. Users(Retained \ E, k) \in SUBSET Sessions
    BY Zenon DEF Users, Retained, Stored
  <2>2. IsFiniteSet(Users(Retained \ E, k))
    BY <2>1, RetentionConstants, FS_Subset, Zenon
  <2> QED BY <2>2, FS_CardinalityType, Zenon
<1>4. ASSUME NEW d \in Deals
      PROVE  /\ Cardinality(OfDeal(LastUsed(E), d)) <= dealGens[d]
             /\ dealGens[d] - Cardinality(OfDeal(LastUsed(E), d))
                  = Cardinality({k \in GenKeys : k[1] = d /\ Users(Retained \ E, k) # {}})
             /\ Cardinality({k \in GenKeys : k[1] = d /\ Users(Retained \ E, k) # {}}) \in Nat
  <2> DEFINE U == {k \in GenKeys : k[1] = d /\ Users(Retained, k) # {}}
             V == {k \in GenKeys : k[1] = d /\ Users(Retained \ E, k) # {}}
             W == OfDeal(LastUsed(E), d)
  <2>1. W \in SUBSET U /\ V = U \ W
    BY <1>1, Zenon DEF OfDeal, UsedGens
  <2>2. IsFiniteSet(U)
    BY FiniteKeys, FS_Subset, Zenon
  <2>3. dealGens[d] = Cardinality(U)
    BY Zenon DEF GenerationRefsExact
  <2>4. V \in SUBSET U
    BY <2>1, Zenon
  <2> HIDE DEF U, V, W
  <2>5. Cardinality(W) <= Cardinality(U) /\ Cardinality(V) = Cardinality(U) - Cardinality(W) /\ Cardinality(V) \in Nat
    BY <2>1, <2>2, <2>4, PartCounted, Zenon
  <2>6. Cardinality(W) <= dealGens[d] /\ dealGens[d] - Cardinality(W) = Cardinality(V) /\ Cardinality(V) \in Nat
    BY <2>3, <2>5, Zenon
  <2> QED BY <2>6, Zenon DEF V, W
<1>5. /\ Cardinality(LastUsed(E)) <= gens
      /\ gens - Cardinality(LastUsed(E)) = Cardinality(UsedGens(Retained \ E))
      /\ Cardinality(UsedGens(Retained \ E)) \in Nat
  <2>1. gens = Cardinality(UsedGens(Retained))
    BY Zenon DEF GenerationRefsExact, UsedGens
  <2> DEFINE U == UsedGens(Retained)
             W == LastUsed(E)
  <2>3. IsFiniteSet(U) /\ W \in SUBSET U /\ UsedGens(Retained \ E) = U \ W
    BY <1>1, <1>2, Zenon
  <2> HIDE DEF U, W
  <2>5. /\ Cardinality(W) <= Cardinality(U) /\ Cardinality(U \ W) \in Nat
        /\ Cardinality(U \ W) = Cardinality(U) - Cardinality(W)
    BY <2>3, PartCounted, Zenon
  <2> QED BY <2>1, <2>3, <2>5, Zenon DEF U, W
<1> QED BY <1>1, <1>3, <1>4, <1>5, Zenon DEF UsedGens

\* The rows A count the sessions R.
Counts(A, R) ==
    /\ A \in [Heights -> AnchorRows]
    /\ \A h \in Heights : /\ A[h].sess = Cardinality(Owners(R, h))
                          /\ A[h].stored <=> A[h].sess + A[h].audit > 0

\* B is A without the references of E, and otherwise the same.
Without(A, B, E) ==
    \A h \in Heights :
        /\ Owners(E, h) # {} => A[h].stored /\ Cardinality(Owners(E, h)) <= A[h].sess
        /\ B[h].audit = A[h].audit
        /\ B[h].seed = IF A[h].stored /\ ~B[h].stored THEN NoSeed ELSE A[h].seed
        /\ B[h].stored => A[h].stored

\* ReleasedAnchors takes E's references off the rows A and touches nothing else:
\* a row goes exactly when nothing references it any more.
LEMMA AnchorsReleased ==
    ASSUME NEW A, NEW R \in SUBSET Sessions, NEW E \in SUBSET R, Counts(A, R)
    PROVE  Counts(ReleasedAnchors(A, E), R \ E) /\ Without(A, ReleasedAnchors(A, E), E)
<1> DEFINE B == ReleasedAnchors(A, E)
<1> USE DEF Counts
<1>1. ASSUME NEW h \in Heights
      PROVE  /\ B[h] \in AnchorRows
             /\ Owners(E, h) # {} => A[h].stored /\ Cardinality(Owners(E, h)) <= A[h].sess
             /\ B[h].sess = Cardinality(Owners(R \ E, h))
             /\ B[h].audit = A[h].audit
             /\ B[h].stored <=> B[h].sess + B[h].audit > 0
             /\ B[h].seed = IF A[h].stored /\ ~B[h].stored THEN NoSeed ELSE A[h].seed
             /\ B[h].stored => A[h].stored
  <2> DEFINE U == Owners(R, h)
             W == Owners(E, h)
             a == A[h]
  <2>1. W \in SUBSET U /\ Owners(R \ E, h) = U \ W /\ U \in SUBSET Sessions
    BY Zenon DEF Owners
  <2>2. B[h] = IF W = {} THEN a ELSE Kept([a EXCEPT !.sess = @ - Cardinality(W)])
    BY Zenon DEF ReleasedAnchors
  <2>3. a \in AnchorRows /\ a.sess = Cardinality(U) /\ (a.stored <=> a.sess + a.audit > 0)
    BY Zenon
  <2> HIDE DEF U, W, a, B
  <2>4. IsFiniteSet(U)
    BY <2>1, RetentionConstants, FS_Subset, Zenon
  <2>5. /\ Cardinality(W) \in Nat /\ Cardinality(U) \in Nat /\ Cardinality(W) <= Cardinality(U)
        /\ Cardinality(U \ W) = Cardinality(U) - Cardinality(W) /\ Cardinality(U \ W) \in Nat
        /\ W = {} <=> Cardinality(W) = 0
    BY <2>1, <2>4, PartCounted, Zenon
  <2>6. CASE W = {}
    <3>1. B[h] = a /\ Cardinality(U \ W) = Cardinality(U)
      BY <2>2, <2>5, <2>6, Zenon
    <3> QED BY <2>1, <2>3, <2>6, <3>1, Zenon DEF W, a
  <2>7. CASE W # {}
    <3> DEFINE b == [a EXCEPT !.sess = @ - Cardinality(W)]
    <3>1. B[h] = Kept(b)
      BY <2>2, <2>7, Zenon
    <3>2. /\ b \in AnchorRows /\ b.sess = Cardinality(U \ W) /\ b.audit = a.audit
          /\ b.seed = a.seed /\ b.stored = a.stored /\ a.stored
      BY <2>3, <2>5, <2>7 DEF AnchorRows
    <3> HIDE DEF b
    <3>3. CASE b.sess = 0 /\ b.audit = 0
      <4>1. B[h] = NoAnchor
        BY <3>1, <3>3, Zenon DEF Kept
      <4>2. NoAnchor \in AnchorRows
        BY Zenon DEF NoAnchor, AnchorRows
      <4>3. B[h].sess = 0 /\ B[h].audit = 0 /\ B[h].seed = NoSeed /\ ~B[h].stored
        BY <4>1 DEF NoAnchor
      <4>4. B[h].sess = Cardinality(U \ W) /\ B[h].audit = a.audit
        BY <3>2, <3>3, <4>3, Zenon
      <4>5. ~(B[h].sess + B[h].audit > 0)
        BY <4>3
      <4> QED BY <2>1, <2>3, <2>5, <3>2, <4>1, <4>2, <4>3, <4>4, <4>5, Zenon DEF W, a
    <3>4. CASE ~(b.sess = 0 /\ b.audit = 0)
      <4>1. B[h] = b
        BY <3>1, <3>4, Zenon DEF Kept
      <4>2. b.sess \in Nat /\ b.audit \in Nat
        BY <3>2, Zenon DEF AnchorRows
      <4>3. B[h].sess + B[h].audit > 0
        BY <3>4, <4>1, <4>2
      <4>4. B[h].stored /\ a.stored
        BY <3>2, <4>1, Zenon
      <4> QED BY <2>1, <2>3, <2>5, <3>2, <4>1, <4>3, <4>4, Zenon DEF W, a
    <3> QED BY <3>3, <3>4, Zenon
  <2> QED BY <2>6, <2>7, Zenon
<1>2. B = [h \in Heights |-> B[h]]
  BY Zenon DEF ReleasedAnchors
<1>3. B \in [Heights -> AnchorRows]
  BY <1>1, <1>2, Zenon
<1>4. Counts(B, R \ E)
  BY <1>1, <1>3, Zenon
<1>5. Without(A, B, E)
  BY <1>1, Zenon DEF Without
<1> QED BY <1>4, <1>5, Zenon

(***************************************************************************)
(* Open preserves the invariant.                                           *)
(***************************************************************************)
\* The row written by an open and what it adds to each counted set.
LEMMA OpenEffect ==
    ASSUME IInv, NEW s \in Sessions, NEW k \in GenKeys, NEW deadline \in Heights,
           Open(s, k, deadline)
    PROVE  /\ s \notin Stored /\ s \notin Retained /\ terminal[s] = NoSeed
           /\ height \in Heights /\ height >= 1 /\ height + 1 \in Heights
           /\ height + 2 <= deadline /\ deadline < MaxHeight
           /\ session'[s] = [stored |-> TRUE, key |-> k, opened |-> height, deadline |-> deadline]
           /\ \A t \in Sessions : t # s => session'[t] = session[t]
           /\ Stored' = Stored \cup {s}
           /\ Retained' = Retained \cup {s}
           /\ \A h \in Heights :
                /\ (Owners(Retained, h))' = IF h = height + 1 THEN Owners(Retained, h) \cup {s}
                                            ELSE Owners(Retained, h)
                /\ {t \in Retained' : session'[t].deadline = h} =
                     IF h = deadline THEN {t \in Retained : session[t].deadline = h} \cup {s}
                     ELSE {t \in Retained : session[t].deadline = h}
           /\ \A x \in GenKeys : (Users(Retained, x))' = IF x = k THEN Users(Retained, x) \cup {s}
                                                        ELSE Users(Retained, x)
<1> USE DEF IInv
<1>1. s \notin Stored /\ s \notin Retained /\ terminal[s] = NoSeed
  BY Zenon DEF Open, Stored, Retained, MarksOK
<1>2. /\ height \in Heights /\ height >= 1 /\ height + 1 \in Heights
      /\ height + 2 <= deadline /\ deadline < MaxHeight
  BY RetentionConstants DEF Open, ValidWindow, TypeOK, Heights
<1>3. /\ session' = [session EXCEPT ![s] = [stored |-> TRUE, key |-> k,
                                            opened |-> height, deadline |-> deadline]]
      /\ expiryRefs' = expiryRefs \cup {<<deadline, s>>}
  BY Zenon DEF Open, Retain
<1>4. /\ session'[s] = [stored |-> TRUE, key |-> k, opened |-> height, deadline |-> deadline]
      /\ \A t \in Sessions : t # s => session'[t] = session[t]
  BY <1>3, Zenon DEF TypeOK
<1>5. Stored' = Stored \cup {s}
  BY <1>4 DEF Stored
<1>6. Retained' = Retained \cup {s}
  <2>1. ASSUME NEW t \in Stored, t # s
        PROVE  (ExpiryRef(t))' \in expiryRefs' <=> ExpiryRef(t) \in expiryRefs
    BY <1>3, <1>4, <2>1 DEF ExpiryRef, Stored
  <2>2. (ExpiryRef(s))' \in expiryRefs'
    BY <1>3, <1>4 DEF ExpiryRef
  <2> QED BY <1>1, <1>5, <2>1, <2>2, Zenon DEF Retained
<1>7. Retained \subseteq Sessions
  BY Zenon DEF Retained, Stored
<1>8. ASSUME NEW h \in Heights
      PROVE  /\ (Owners(Retained, h))' = IF h = height + 1 THEN Owners(Retained, h) \cup {s}
                                         ELSE Owners(Retained, h)
             /\ {t \in Retained' : session'[t].deadline = h} =
                  IF h = deadline THEN {t \in Retained : session[t].deadline = h} \cup {s}
                  ELSE {t \in Retained : session[t].deadline = h}
  <2>1. (Owners(Retained, h))' = IF h = height + 1 THEN Owners(Retained, h) \cup {s}
                                 ELSE Owners(Retained, h)
    BY <1>1, <1>4, <1>6, <1>7 DEF Owners, AnchorHeight
  <2>2. {t \in Retained' : session'[t].deadline = h} =
          IF h = deadline THEN {t \in Retained : session[t].deadline = h} \cup {s}
          ELSE {t \in Retained : session[t].deadline = h}
    BY <1>1, <1>4, <1>6, <1>7
  <2> QED BY <2>1, <2>2, Zenon
<1>9. ASSUME NEW x \in GenKeys
      PROVE  (Users(Retained, x))' = IF x = k THEN Users(Retained, x) \cup {s} ELSE Users(Retained, x)
  BY <1>1, <1>4, <1>6, <1>7 DEF Users
<1> QED BY <1>1, <1>2, <1>4, <1>5, <1>6, <1>8, <1>9, Zenon

\* The anchor rows after an open.
LEMMA OpenAnchors ==
    ASSUME TypeOK, NEW s \in Sessions, NEW k \in GenKeys, NEW deadline \in Heights,
           Open(s, k, deadline), height + 1 \in Heights
    PROVE  /\ anchor' \in [Heights -> AnchorRows]
           /\ anchor'[height + 1].stored
           /\ anchor'[height + 1].sess = anchor[height + 1].sess + 1
           /\ anchor'[height + 1].audit = anchor[height + 1].audit
           /\ anchor'[height + 1].seed = anchor[height + 1].seed
           /\ \A h \in Heights : h # height + 1 => anchor'[h] = anchor[h]
<1> DEFINE g == height + 1
           b == Referenced(anchor[g], 1, 0)
<1>1. anchor' = [anchor EXCEPT ![g] = b]
  BY Zenon DEF Open, Retain, TypeOK
<1>2. anchor[g] \in AnchorRows /\ g \in Heights
  BY Zenon DEF TypeOK
<1>3. /\ b \in AnchorRows /\ b.stored = TRUE /\ b.sess = anchor[g].sess + 1
      /\ b.audit = anchor[g].audit /\ b.seed = anchor[g].seed
  BY <1>2 DEF AnchorRows, Referenced
<1> HIDE DEF b
<1>4. anchor'[g] = b /\ \A h \in Heights : h # g => anchor'[h] = anchor[h]
  BY <1>1, <1>2, Zenon DEF TypeOK
<1>5. anchor' \in [Heights -> AnchorRows]
  BY <1>1, <1>2, <1>3, Zenon DEF TypeOK
<1> QED BY <1>3, <1>4, <1>5, Zenon

\* The counters after an open.
LEMMA OpenCounts ==
    ASSUME IInv, NEW s \in Sessions, NEW k \in GenKeys, NEW deadline \in Heights,
           Open(s, k, deadline)
    PROVE  IndexCountsExact' /\ GenerationRefsExact' /\ RetentionBounded'
<1> USE DEF IInv
<1> DEFINE Due(h) == {t \in Retained : session[t].deadline = h}
           Used == {x \in GenKeys : Users(Retained, x) # {}}
           UsedOf(d) == {x \in GenKeys : x[1] = d /\ Users(Retained, x) # {}}
           Opened(h) == {t \in Stored : h = height /\ session[t].opened = h}
<1>1. /\ s \notin Stored /\ s \notin Retained
      /\ height \in Heights
      /\ session'[s] = [stored |-> TRUE, key |-> k, opened |-> height, deadline |-> deadline]
      /\ \A t \in Sessions : t # s => session'[t] = session[t]
      /\ Stored' = Stored \cup {s}
      /\ Retained' = Retained \cup {s}
      /\ \A h \in Heights : {t \in Retained' : session'[t].deadline = h} =
                              IF h = deadline THEN Due(h) \cup {s} ELSE Due(h)
      /\ \A x \in GenKeys : (Users(Retained, x))' = IF x = k THEN Users(Retained, x) \cup {s}
                                                   ELSE Users(Retained, x)
  BY OpenEffect
<1>2. /\ IsFiniteSet(Retained) /\ Retained \subseteq Sessions /\ Stored \subseteq Sessions
      /\ \A h \in Heights : IsFiniteSet(Due(h)) /\ s \notin Due(h)
      /\ \A x \in GenKeys : IsFiniteSet(Users(Retained, x)) /\ s \notin Users(Retained, x)
      /\ \A h \in Heights : IsFiniteSet(Opened(h)) /\ s \notin Opened(h)
  BY <1>1, RetentionConstants, FS_Subset, Zenon DEF Retained, Stored, Users
<1>3. /\ HasCapacity(k, deadline)
      /\ liveCount' = liveCount + 1
      /\ openCount' = [openCount EXCEPT ![height] = @ + 1]
      /\ expiryCount' = [expiryCount EXCEPT ![deadline] = @ + 1]
      /\ genRefs' = [genRefs EXCEPT ![k] = @ + 1]
      /\ dealGens' = IF genRefs[k] = 0 THEN [dealGens EXCEPT ![k[1]] = @ + 1] ELSE dealGens
      /\ gens' = IF genRefs[k] = 0 THEN gens + 1 ELSE gens
      /\ UNCHANGED <<height, auditEpochs, frozen, auditGenRefs>>
  BY Zenon DEF Open, Retain, auditVars
<1>4. Cardinality(Retained') = Cardinality(Retained) + 1
  BY <1>1, <1>2, OneMore, Zenon
<1>5. ASSUME NEW h \in Heights
      PROVE  /\ Cardinality({t \in Retained' : session'[t].deadline = h}) =
                  IF h = deadline THEN Cardinality(Due(h)) + 1 ELSE Cardinality(Due(h))
             /\ Cardinality({t \in Stored' : h = height' /\ session'[t].opened = h}) =
                  IF h = height THEN Cardinality(Opened(h)) + 1 ELSE Cardinality(Opened(h))
  <2>1. {t \in Stored' : h = height' /\ session'[t].opened = h} =
           IF h = height THEN Opened(h) \cup {s} ELSE Opened(h)
    BY <1>1, <1>2, <1>3
  <2>2. CASE h = deadline
    BY <1>1, <1>2, <2>1, <2>2, OneMore, Zenon
  <2>3. CASE h # deadline
    BY <1>1, <1>2, <2>1, <2>3, OneMore, Zenon
  <2> QED BY <2>2, <2>3, Zenon
<1>6. IndexCountsExact'
  <2>1. liveCount' = Cardinality(Retained')
    BY <1>3, <1>4, Zenon DEF IndexCountsExact
  <2>2. ASSUME NEW h \in Heights
        PROVE  /\ expiryCount'[h] = Cardinality({t \in Retained' : session'[t].deadline = h})
               /\ openCount'[h] = Cardinality({t \in Stored' : h = height' /\ session'[t].opened = h})
    <3>1. /\ expiryCount'[h] = IF h = deadline THEN expiryCount[h] + 1 ELSE expiryCount[h]
          /\ openCount'[h] = IF h = height THEN openCount[h] + 1 ELSE openCount[h]
      BY <1>3, Zenon DEF TypeOK
    <3>2. expiryCount[h] = Cardinality(Due(h)) /\ openCount[h] = Cardinality(Opened(h))
      BY Zenon DEF IndexCountsExact
    <3> QED BY <1>5, <3>1, <3>2, Zenon
  <2> QED BY <2>1, <2>2, Zenon DEF IndexCountsExact
<1>7. ASSUME NEW x \in GenKeys
      PROVE  genRefs'[x] = Cardinality((Users(Retained, x))')
  <2>1. genRefs'[x] = IF x = k THEN genRefs[x] + 1 ELSE genRefs[x]
    BY <1>3, Zenon DEF TypeOK
  <2>2. genRefs[x] = Cardinality(Users(Retained, x))
    BY Zenon DEF GenerationRefsExact
  <2>3. CASE x = k
    <3>1. (Users(Retained, x))' = Users(Retained, x) \cup {s}
      BY <1>1, <2>3, Zenon
    <3>2. Cardinality(Users(Retained, x) \cup {s}) = Cardinality(Users(Retained, x)) + 1
      BY <1>2, OneMore, Zenon
    <3> QED BY <2>1, <2>2, <2>3, <3>1, <3>2, Zenon
  <2>4. CASE x # k
    BY <1>1, <2>1, <2>2, <2>4, Zenon
  <2> QED BY <2>3, <2>4, Zenon
<1>8. genRefs[k] = 0 <=> k \notin Used
  <2>1. genRefs[k] = Cardinality(Users(Retained, k))
    BY Zenon DEF GenerationRefsExact
  <2> QED BY <1>2, <2>1, FS_EmptySet, Zenon
<1>9. /\ {x \in GenKeys : (Users(Retained, x))' # {}} = Used \cup {k}
      /\ \A d \in Deals : {x \in GenKeys : x[1] = d /\ (Users(Retained, x))' # {}} =
                             IF d = k[1] THEN UsedOf(d) \cup {k} ELSE UsedOf(d)
  <2>1. \A x \in GenKeys : (Users(Retained, x))' # {} <=> (Users(Retained, x) # {} \/ x = k)
    BY <1>1, Zenon
  <2>2. {x \in GenKeys : (Users(Retained, x))' # {}} = Used \cup {k}
    BY <1>1, <2>1, Zenon
  <2>3. ASSUME NEW d \in Deals
        PROVE  {x \in GenKeys : x[1] = d /\ (Users(Retained, x))' # {}} =
                  IF d = k[1] THEN UsedOf(d) \cup {k} ELSE UsedOf(d)
    BY <1>1, <2>1, Zenon
  <2> QED BY <2>2, <2>3, Zenon
<1>10. IsFiniteSet(Used) /\ \A d \in Deals : IsFiniteSet(UsedOf(d))
  BY FiniteKeys, FS_Subset, Zenon
<1>11. /\ gens' = Cardinality({x \in GenKeys : (Users(Retained, x))' # {}})
       /\ gens' <= MaxGens
  <2>1. gens = Cardinality(Used)
    BY Zenon DEF GenerationRefsExact
  <2>2. gens <= MaxGens /\ (genRefs[k] = 0 => gens < MaxGens)
    BY <1>3, <2>1, Zenon DEF RetentionBounded, HasCapacity
  <2>3. gens \in Nat /\ MaxGens \in Nat
    BY RetentionConstants, Zenon DEF TypeOK
  <2> HIDE DEF Used
  <2>4. CASE k \in Used
    <3>1. Used \cup {k} = Used
      BY <2>4, Zenon
    <3> QED BY <1>3, <1>8, <1>9, <2>1, <2>2, <2>4, <3>1, Zenon
  <2>5. CASE k \notin Used
    <3>1. Cardinality(Used \cup {k}) = Cardinality(Used) + 1
      BY <1>10, <2>5, OneMore, Zenon
    <3>2. gens' = gens + 1 /\ gens < MaxGens
      BY <1>3, <1>8, <2>2, <2>5, Zenon
    <3>3. gens + 1 <= MaxGens
      BY <2>3, <3>2
    <3> QED BY <1>9, <2>1, <3>1, <3>2, <3>3, Zenon
  <2> QED BY <2>4, <2>5, Zenon
<1>12. ASSUME NEW d \in Deals
       PROVE  /\ dealGens'[d] = Cardinality({x \in GenKeys : x[1] = d /\ (Users(Retained, x))' # {}})
              /\ dealGens'[d] <= MaxGensPerDeal
  <2>1. dealGens[d] = Cardinality(UsedOf(d))
    BY Zenon DEF GenerationRefsExact
  <2>2. dealGens[d] <= MaxGensPerDeal /\ (d = k[1] /\ genRefs[k] = 0 => dealGens[d] < MaxGensPerDeal)
    BY <1>3, <2>1, Zenon DEF RetentionBounded, HasCapacity
  <2>3. dealGens[d] \in Nat /\ MaxGensPerDeal \in Nat
    BY RetentionConstants, Zenon DEF TypeOK
  <2>4. k \in UsedOf(d) <=> k \in Used /\ d = k[1]
    BY Zenon
  <2>5. dealGens'[d] = IF genRefs[k] = 0 /\ d = k[1] THEN dealGens[d] + 1 ELSE dealGens[d]
    BY <1>3, Zenon DEF TypeOK
  <2>6. {x \in GenKeys : x[1] = d /\ (Users(Retained, x))' # {}} =
          IF d = k[1] THEN UsedOf(d) \cup {k} ELSE UsedOf(d)
    BY <1>9, Zenon
  <2>7. IsFiniteSet(UsedOf(d))
    BY <1>10, Zenon
  <2> DEFINE U == UsedOf(d)
  <2> HIDE DEF U, Used
  <2>8. CASE d # k[1]
    BY <2>1, <2>2, <2>5, <2>6, <2>8, Zenon DEF U
  <2>9. CASE d = k[1] /\ k \in Used
    <3>1. UsedOf(d) \cup {k} = UsedOf(d)
      BY <2>4, <2>9, Zenon
    <3> QED BY <1>8, <2>1, <2>2, <2>5, <2>6, <2>9, <3>1, Zenon
  <2>10. CASE d = k[1] /\ k \notin Used
    <3>1. k \notin U /\ IsFiniteSet(U)
      BY <2>4, <2>7, <2>10, Zenon DEF U
    <3>2. Cardinality(U \cup {k}) = Cardinality(U) + 1
      BY <3>1, OneMore, Zenon
    <3>3. dealGens'[d] = dealGens[d] + 1 /\ dealGens[d] < MaxGensPerDeal
      BY <1>8, <2>2, <2>5, <2>10, Zenon
    <3>4. Cardinality({x \in GenKeys : x[1] = d /\ (Users(Retained, x))' # {}}) = Cardinality(U \cup {k})
      BY <2>6, <2>10, Zenon DEF U
    <3>5. dealGens[d] = Cardinality(U)
      BY <2>1, Zenon DEF U
    <3>6. dealGens[d] + 1 <= MaxGensPerDeal
      BY <2>3, <3>3
    <3> QED BY <3>2, <3>3, <3>4, <3>5, <3>6, Zenon
  <2> QED BY <2>8, <2>9, <2>10, Zenon
<1>13. GenerationRefsExact'
  <2>1. \A x \in GenKeys : auditGenRefs'[x] =
         Cardinality({ea \in auditEpochs' \X Audits : ea[2] \in frozen'[ea[1]] /\ <<ea[2][1], ea[2][3]>> = x})
    BY <1>3 DEF GenerationRefsExact
  <2> QED BY <1>7, <1>11, <1>12, <2>1, Zenon DEF GenerationRefsExact
<1>14. RetentionBounded'
  <2>1. Cardinality(Retained') <= MaxLive
    <3>1. liveCount = Cardinality(Retained) /\ liveCount \in Nat /\ liveCount < MaxLive
      BY <1>3, Zenon DEF IndexCountsExact, TypeOK, HasCapacity
    <3> QED BY <1>4, <3>1, RetentionConstants
  <2>2. ASSUME NEW h \in Heights
        PROVE  Cardinality({t \in Retained' : session'[t].deadline = h}) <= MaxExpiryRefsPerBlock
    <3>1. expiryCount[h] = Cardinality(Due(h)) /\ expiryCount[h] \in Nat
      BY Zenon DEF IndexCountsExact, TypeOK
    <3>2. expiryCount[h] <= MaxExpiryRefsPerBlock /\ (h = deadline => expiryCount[h] < MaxExpiryRefsPerBlock)
      BY <1>3, <3>1, Zenon DEF RetentionBounded, HasCapacity
    <3>3. Cardinality({t \in Retained' : session'[t].deadline = h}) =
            IF h = deadline THEN expiryCount[h] + 1 ELSE expiryCount[h]
      BY <1>5, <3>1, Zenon
    <3>4. (IF h = deadline THEN expiryCount[h] + 1 ELSE expiryCount[h]) <= MaxExpiryRefsPerBlock
      BY <3>1, <3>2, RetentionConstants
    <3> QED BY <3>3, <3>4, Zenon
  <2> QED BY <1>11, <1>12, <2>1, <2>2, Zenon DEF RetentionBounded
<1> QED BY <1>6, <1>13, <1>14, Zenon

\* An open that passes the admission checks keeps the inductive invariant: the anchor,
\* index and generation references it takes are the ones its session then owns.
LEMMA OpenPreserves ==
    ASSUME IInv, NEW s \in Sessions, NEW k \in GenKeys, NEW deadline \in Heights,
           Open(s, k, deadline)
    PROVE  IInv'
<1> USE DEF IInv
<1>1. /\ s \notin Stored /\ s \notin Retained /\ terminal[s] = NoSeed
      /\ height \in Heights /\ height >= 1 /\ height + 1 \in Heights
      /\ height + 2 <= deadline /\ deadline < MaxHeight
      /\ session'[s] = [stored |-> TRUE, key |-> k, opened |-> height, deadline |-> deadline]
      /\ \A t \in Sessions : t # s => session'[t] = session[t]
      /\ Stored' = Stored \cup {s}
      /\ Retained' = Retained \cup {s}
      /\ \A h \in Heights : (Owners(Retained, h))' = IF h = height + 1 THEN Owners(Retained, h) \cup {s}
                                                     ELSE Owners(Retained, h)
  BY OpenEffect
<1>2. IndexCountsExact' /\ GenerationRefsExact' /\ RetentionBounded'
  BY OpenCounts, Zenon
<1>3. /\ anchor' \in [Heights -> AnchorRows]
      /\ anchor'[height + 1].stored
      /\ anchor'[height + 1].sess = anchor[height + 1].sess + 1
      /\ anchor'[height + 1].audit = anchor[height + 1].audit
      /\ anchor'[height + 1].seed = anchor[height + 1].seed
      /\ \A h \in Heights : h # height + 1 => anchor'[h] = anchor[h]
  BY <1>1, OpenAnchors, Zenon
<1>4. /\ UNCHANGED <<height, halted, expired, terminal, auditEpochs, frozen, auditGenRefs>>
      /\ expiryRefs' = expiryRefs \cup {<<deadline, s>>}
      /\ pending' = IF anchor[height + 1].stored THEN pending ELSE pending \cup {height + 1}
      /\ liveCount' = liveCount + 1
      /\ openCount' = [openCount EXCEPT ![height] = @ + 1]
      /\ expiryCount' = [expiryCount EXCEPT ![deadline] = @ + 1]
      /\ genRefs' = [genRefs EXCEPT ![k] = @ + 1]
      /\ dealGens' = IF genRefs[k] = 0 THEN [dealGens EXCEPT ![k[1]] = @ + 1] ELSE dealGens
      /\ gens' = IF genRefs[k] = 0 THEN gens + 1 ELSE gens
      /\ session' = [session EXCEPT ![s] = [stored |-> TRUE, key |-> k,
                                            opened |-> height, deadline |-> deadline]]
  BY Zenon DEF Open, Retain, auditVars
<1>5. TypeOK'
  <2>1. session' \in [Sessions -> Contexts]
    BY <1>1, <1>4, Zenon DEF TypeOK, Contexts
  <2>2. /\ expiryRefs' \subseteq Heights \X Sessions /\ pending' \subseteq Heights
        /\ liveCount' \in Nat /\ gens' \in Nat
    BY <1>1, <1>4 DEF TypeOK
  <2>3. /\ openCount' \in [Heights -> Nat] /\ expiryCount' \in [Heights -> Nat]
        /\ genRefs' \in [GenKeys -> Nat] /\ dealGens' \in [Deals -> Nat]
    BY <1>1, <1>4 DEF TypeOK, GenKeys
  <2> QED BY <1>3, <1>4, <2>1, <2>2, <2>3, Zenon DEF TypeOK
<1>6. BeginBlockNeverFails'
  BY <1>4, Zenon DEF BeginBlockNeverFails
<1>7. WindowsOK'
  <2> SUFFICES ASSUME NEW t \in Stored'
               PROVE  /\ session'[t].opened \in 1..height'
                      /\ session'[t].opened + 2 <= session'[t].deadline
                      /\ session'[t].deadline < MaxHeight
    BY Zenon DEF WindowsOK
  <2>1. CASE t = s
    BY <1>1, <1>4, <2>1 DEF Heights
  <2>2. CASE t # s
    BY <1>1, <1>4, <2>2, Zenon DEF WindowsOK, Stored
  <2> QED BY <2>1, <2>2, Zenon
<1>8. MarksOK'
  <2>1. \A t \in Sessions : terminal'[t] # NoSeed => t \in Stored' \cap V3
    BY <1>1, <1>4, Zenon DEF MarksOK
  <2>2. ~(session'[s].deadline < height')
    BY <1>1, <1>4 DEF Heights
  <2>3. \A t \in Stored : session'[t] = session[t]
    BY <1>1, Zenon DEF Stored
  <2>4. expired' = {t \in Stored' \cap V3 : session'[t].deadline < height' /\ terminal'[t] = NoSeed}
    BY <1>1, <1>4, <2>2, <2>3, Zenon DEF MarksOK
  <2> QED BY <2>1, <2>4, Zenon DEF MarksOK
<1>9. HeldUntilReleased'
  <2>1. \A t \in Retained : session'[t] = session[t]
    BY <1>1, Zenon DEF Retained, Stored
  <2>2. expiryRefs' = {(ExpiryRef(t))' : t \in Retained'}
    BY <1>1, <1>4, <2>1 DEF HeldUntilReleased, ExpiryRef
  <2>3. ASSUME NEW t \in Stored'
        PROVE  t \in Retained' <=> height' <= session'[t].deadline /\ terminal'[t] = NoSeed
    <3>1. CASE t = s
      <4>1. height' <= session'[s].deadline
        BY <1>1, <1>4 DEF Heights
      <4> QED BY <1>1, <1>4, <3>1, <4>1, Zenon
    <3>2. CASE t # s
      BY <1>1, <1>4, <3>2, Zenon DEF HeldUntilReleased, Stored
    <3> QED BY <3>1, <3>2, Zenon
  <2> QED BY <2>2, <2>3, Zenon DEF HeldUntilReleased
<1>10. AnchorRefsExact'
  <2> SUFFICES ASSUME NEW h \in Heights
               PROVE  /\ anchor'[h].sess = Cardinality((Owners(Retained, h))')
                      /\ anchor'[h].audit = Cardinality(UNION {frozen'[e] : e \in {x \in auditEpochs' : EpochAnchor(x) = h}})
                      /\ anchor'[h].stored <=> anchor'[h].sess + anchor'[h].audit > 0
    BY Zenon DEF AnchorRefsExact, EpochAnchor
  <2>1. /\ anchor[h].sess = Cardinality(Owners(Retained, h))
        /\ anchor[h].audit = Cardinality(UNION {frozen[e] : e \in {x \in auditEpochs : EpochAnchor(x) = h}})
        /\ anchor[h].stored <=> anchor[h].sess + anchor[h].audit > 0
    BY Zenon DEF AnchorRefsExact
  <2>2. CASE h # height + 1
    <3>1. (Owners(Retained, h))' = Owners(Retained, h) /\ anchor'[h] = anchor[h]
      BY <1>1, <1>3, <2>2, Zenon
    <3>2. frozen' = frozen /\ auditEpochs' = auditEpochs
      BY <1>4, Zenon
    <3> QED BY <2>1, <3>1, <3>2, Zenon
  <2>3. CASE h = height + 1
    <3>1. s \notin Owners(Retained, h) /\ IsFiniteSet(Owners(Retained, h))
      BY <1>1, RetentionConstants, FS_Subset, Zenon DEF Owners, Retained, Stored
    <3>2. Cardinality((Owners(Retained, h))') = Cardinality(Owners(Retained, h)) + 1
      BY <1>1, <2>3, <3>1, OneMore, Zenon
    <3>3. anchor[h].sess \in Nat /\ anchor[h].audit \in Nat
      BY Zenon DEF TypeOK, AnchorRows
    <3>4. anchor'[h].sess + anchor'[h].audit > 0
      BY <1>3, <2>3, <3>3
    <3> QED BY <1>3, <1>4, <2>1, <2>3, <3>2, <3>4, Zenon
  <2> QED BY <2>2, <2>3, Zenon
<1>11. CaptureOK'
  <2>1. pending' = {h \in Heights : h = height' + 1 /\ anchor'[h].stored}
    BY <1>1, <1>3, <1>4, Zenon DEF CaptureOK
  <2>2. ASSUME NEW h \in Heights, h > height' \/ ~anchor'[h].stored
        PROVE  anchor'[h].seed = NoSeed
    <3>1. CASE h = height + 1
      BY <1>1, <1>3, <3>1 DEF CaptureOK, Heights
    <3>2. CASE h # height + 1
      BY <1>3, <1>4, <2>2, <3>2, Zenon DEF CaptureOK
    <3> QED BY <3>1, <3>2, Zenon
  <2> QED BY <2>1, <2>2, Zenon DEF CaptureOK
<1>12. AuditsRetained'
  BY <1>4, Zenon DEF AuditsRetained, EpochOf, EpochAnchor
<1> QED BY <1>2, <1>5, <1>6, <1>7, <1>8, <1>9, <1>10, <1>11, <1>12, Zenon

(***************************************************************************)
(* What a release does to the counted sets, whoever causes it.             *)
(***************************************************************************)
\* Fewer retained sessions stay within the bounds.
LEMMA BoundShrinks ==
    ASSUME RetentionBounded, NEW E \in SUBSET Retained, Retained' = Retained \ E, session' = session
    PROVE  RetentionBounded'
<1> DEFINE Due(R, h) == {t \in R : session[t].deadline = h}
           Used(R) == {x \in GenKeys : Users(R, x) # {}}
           UsedOf(R, d) == {x \in GenKeys : x[1] = d /\ Users(R, x) # {}}
<1>1. IsFiniteSet(Retained)
  BY RetentionConstants, FS_Subset, Zenon DEF Retained, Stored
<1>2. Cardinality(Retained \ E) <= MaxLive
  <2>1. /\ Cardinality(Retained \ E) = Cardinality(Retained) - Cardinality(E)
        /\ Cardinality(Retained) \in Nat /\ Cardinality(E) \in Nat
    BY <1>1, PartCounted, Zenon
  <2> QED BY <2>1, RetentionConstants DEF RetentionBounded
<1>3. ASSUME NEW A, IsFiniteSet(A), NEW B \in SUBSET A, NEW n \in Nat, Cardinality(A) <= n
      PROVE  Cardinality(B) <= n
  <2>1. Cardinality(B) <= Cardinality(A) /\ Cardinality(B) \in Nat /\ Cardinality(A) \in Nat
    BY <1>3, PartCounted, Zenon
  <2> QED BY <1>3, <2>1
<1>4. ASSUME NEW h \in Heights
      PROVE  Cardinality(Due(Retained \ E, h)) <= MaxExpiryRefsPerBlock
  <2>1. Due(Retained \ E, h) \in SUBSET Due(Retained, h)
    BY Zenon
  <2>2. IsFiniteSet(Due(Retained, h)) /\ Cardinality(Due(Retained, h)) <= MaxExpiryRefsPerBlock
    BY <1>1, FS_Subset, Zenon DEF RetentionBounded
  <2> HIDE DEF Due
  <2> QED BY <1>3, <2>1, <2>2, RetentionConstants, Zenon
<1>5. \A x \in GenKeys : Users(Retained \ E, x) \subseteq Users(Retained, x)
  BY Zenon DEF Users
<1>6. ASSUME NEW d \in Deals
      PROVE  Cardinality(UsedOf(Retained \ E, d)) <= MaxGensPerDeal
  <2>1. UsedOf(Retained \ E, d) \in SUBSET UsedOf(Retained, d)
    BY <1>5, Zenon
  <2>2. IsFiniteSet(UsedOf(Retained, d)) /\ Cardinality(UsedOf(Retained, d)) <= MaxGensPerDeal
    BY FiniteKeys, FS_Subset, Zenon DEF RetentionBounded
  <2> HIDE DEF UsedOf
  <2> QED BY <1>3, <2>1, <2>2, RetentionConstants, Zenon
<1>7. Cardinality(Used(Retained \ E)) <= MaxGens
  <2>1. Used(Retained \ E) \in SUBSET Used(Retained)
    BY <1>5, Zenon
  <2>2. IsFiniteSet(Used(Retained)) /\ Cardinality(Used(Retained)) <= MaxGens
    BY FiniteKeys, FS_Subset, Zenon DEF RetentionBounded
  <2> HIDE DEF Used
  <2> QED BY <1>3, <2>1, <2>2, RetentionConstants, Zenon
<1>8. \A x \in GenKeys : (Users(Retained, x))' = Users(Retained \ E, x)
  BY Zenon DEF Users
<1> QED BY <1>2, <1>4, <1>6, <1>7, <1>8, Zenon DEF RetentionBounded

\* ReleaseGenerations leaves exact counters for the sessions that remain.
LEMMA GenerationsExact ==
    ASSUME TypeOK, GenerationRefsExact, NEW E \in SUBSET Retained, ReleaseGenerations(E),
           Retained' = Retained \ E, session' = session
    PROVE  /\ \A x \in GenKeys : genRefs'[x] = Cardinality((Users(Retained, x))')
           /\ \A d \in Deals : dealGens'[d] = Cardinality({x \in GenKeys : x[1] = d /\ (Users(Retained, x))' # {}})
           /\ gens' = Cardinality({x \in GenKeys : (Users(Retained, x))' # {}})
           /\ genRefs' \in [GenKeys -> Nat] /\ dealGens' \in [Deals -> Nat] /\ gens' \in Nat
<1>1. \A x \in GenKeys : (Users(Retained, x))' = Users(Retained \ E, x)
  BY Zenon DEF Users
<1>2. /\ {x \in GenKeys : (Users(Retained, x))' # {}} = {x \in GenKeys : Users(Retained \ E, x) # {}}
      /\ \A d \in Deals : {x \in GenKeys : x[1] = d /\ (Users(Retained, x))' # {}} =
                            {x \in GenKeys : x[1] = d /\ Users(Retained \ E, x) # {}}
  BY <1>1, Zenon
<1>3. \A x \in GenKeys : genRefs'[x] = Cardinality(Users(Retained \ E, x)) /\ genRefs'[x] \in Nat
  BY GenerationsReleased, Zenon DEF ReleaseGenerations
<1>4. ASSUME NEW d \in Deals
      PROVE  dealGens'[d] = Cardinality({x \in GenKeys : x[1] = d /\ Users(Retained \ E, x) # {}}) /\ dealGens'[d] \in Nat
  BY GenerationsReleased, Zenon DEF ReleaseGenerations
<1>5. gens' = Cardinality({x \in GenKeys : Users(Retained \ E, x) # {}}) /\ gens' \in Nat
  BY GenerationsReleased, Zenon DEF ReleaseGenerations
<1>6. genRefs' \in [GenKeys -> Nat]
  BY <1>3, Zenon DEF ReleaseGenerations
<1>7. dealGens' \in [Deals -> Nat]
  BY <1>4, Zenon DEF ReleaseGenerations
<1> QED BY <1>1, <1>2, <1>3, <1>4, <1>5, <1>6, <1>7, Zenon

(***************************************************************************)
(* Completion.                                                             *)
(***************************************************************************)
\* The bookkeeping agrees to release any set of retained, seeded sessions.
LEMMA ReleaseAgreed ==
    ASSUME IInv, NEW E \in SUBSET Retained,
           \A s \in E : terminal[s] = NoSeed /\ anchor[AnchorHeight(s)].seed # NoSeed
    PROVE  TerminalOK(E)
<1> USE DEF IInv
<1>1. IsFiniteSet(Retained) /\ Retained \subseteq Sessions
  BY RetentionConstants, FS_Subset, Zenon DEF Retained, Stored
<1>2. \A s \in E : ExpiryRef(s) \in expiryRefs
  BY Zenon DEF Retained
<1>3. ASSUME NEW h \in Heights
      PROVE  Cardinality({s \in E : session[s].deadline = h}) <= expiryCount[h]
  <2> DEFINE U == {s \in Retained : session[s].deadline = h}
             W == {s \in E : session[s].deadline = h}
  <2>1. W \in SUBSET U /\ U \in SUBSET Retained /\ expiryCount[h] = Cardinality(U)
    BY Zenon DEF IndexCountsExact
  <2> HIDE DEF U, W
  <2>2. IsFiniteSet(U)
    BY <1>1, <2>1, FS_Subset, Zenon
  <2>3. Cardinality(W) <= Cardinality(U)
    BY <2>1, <2>2, PartCounted, Zenon
  <2> QED BY <2>1, <2>3, Zenon DEF W
<1>4. Cardinality(E) <= liveCount
  BY <1>1, PartCounted, Zenon DEF IndexCountsExact
<1>5. CanRelease(anchor, E)
  <2>1. \A h \in Heights : Owners(E, h) # {} => anchor[h].stored /\ Cardinality(Owners(E, h)) <= anchor[h].sess
    <3>1. Retained \in SUBSET Sessions
      BY <1>1, Zenon
    <3>2. Counts(anchor, Retained)
      BY Zenon DEF Counts, TypeOK, AnchorRefsExact
    <3>3. Without(anchor, ReleasedAnchors(anchor, E), E)
      BY <3>1, <3>2, AnchorsReleased, Zenon
    <3> QED BY <3>3, Zenon DEF Without
  <2>2. /\ \A x \in GenKeys : Cardinality(Users(E, x)) <= genRefs[x]
        /\ \A d \in Deals : Cardinality(OfDeal(LastUsed(E), d)) <= dealGens[d]
        /\ Cardinality(LastUsed(E)) <= gens
    BY GenerationsReleased, Zenon
  <2> QED BY <2>1, <2>2, Zenon DEF CanRelease
<1> QED BY <1>2, <1>3, <1>4, <1>5, Zenon DEF TerminalOK

\* The early release of completed sessions keeps the inductive invariant.
LEMMA CompletePreserves ==
    ASSUME IInv, NEW E \in SUBSET V3, Complete(E)
    PROVE  IInv'
<1> USE DEF IInv
<1>1. /\ E \subseteq Stored /\ E \subseteq V3 /\ E \subseteq Sessions
      /\ \A s \in E : session[s].opened + 2 <= height /\ height <= session[s].deadline
      /\ \A s \in E : terminal[s] = NoSeed
      /\ \A s \in E : anchor[AnchorHeight(s)].seed # NoSeed
      /\ anchor' = ReleasedAnchors(anchor, E)
      /\ ReleaseGenerations(E)
      /\ expiryRefs' = expiryRefs \ {ExpiryRef(s) : s \in E}
      /\ expiryCount' = [h \in Heights |->
                            expiryCount[h] - Cardinality({s \in E : session[s].deadline = h})]
      /\ liveCount' = liveCount - Cardinality(E)
      /\ terminal' = [s \in Sessions |->
                         IF s \in E THEN anchor[AnchorHeight(s)].seed ELSE terminal[s]]
      /\ UNCHANGED <<height, halted, session, expired, pending, openCount,
                     auditEpochs, frozen, auditGenRefs>>
  BY Zenon DEF Complete, InWindow, FirstResponse, ReleaseTerminal, TerminalOK, DropFromIndex, auditVars, Stored
<1>2. E \subseteq Retained
  BY <1>1, Zenon DEF HeldUntilReleased
<1>3. Stored' = Stored
  BY <1>1, Zenon DEF Stored
<1>4. Retained' = Retained \ E
  BY <1>1, <1>2, <1>3, Zenon DEF Retained, ExpiryRef
<1>5. IsFiniteSet(Retained) /\ Retained \subseteq Sessions
  BY RetentionConstants, FS_Subset, Zenon DEF Retained, Stored
<1>6. /\ anchor' \in [Heights -> AnchorRows]
      /\ \A h \in Heights :
           /\ anchor'[h].sess = Cardinality(Owners(Retained \ E, h))
           /\ anchor'[h].audit = anchor[h].audit
           /\ anchor'[h].stored <=> anchor'[h].sess + anchor'[h].audit > 0
           /\ anchor'[h].seed = IF anchor[h].stored /\ ~anchor'[h].stored THEN NoSeed ELSE anchor[h].seed
           /\ anchor'[h].stored => anchor[h].stored
  <2>1. Retained \in SUBSET Sessions /\ E \in SUBSET Retained
    BY <1>2, <1>5, Zenon
  <2>2. Counts(anchor, Retained)
    BY Zenon DEF Counts, TypeOK, AnchorRefsExact
  <2>3. Counts(anchor', Retained \ E) /\ Without(anchor, anchor', E)
    BY <1>1, <2>1, <2>2, AnchorsReleased, Zenon
  <2> QED BY <2>3, Zenon DEF Counts, Without
<1>7. /\ \A x \in GenKeys : genRefs'[x] = Cardinality((Users(Retained, x))')
      /\ \A d \in Deals : dealGens'[d] = Cardinality({x \in GenKeys : x[1] = d /\ (Users(Retained, x))' # {}})
      /\ gens' = Cardinality({x \in GenKeys : (Users(Retained, x))' # {}})
      /\ genRefs' \in [GenKeys -> Nat] /\ dealGens' \in [Deals -> Nat] /\ gens' \in Nat
  BY <1>1, <1>2, <1>4, GenerationsExact, Zenon
<1>8. RetentionBounded'
  BY <1>1, <1>2, <1>4, BoundShrinks, Zenon
<1>9. liveCount' = Cardinality(Retained') /\ liveCount' \in Nat
  <2>1. /\ Cardinality(Retained \ E) = Cardinality(Retained) - Cardinality(E)
        /\ Cardinality(Retained \ E) \in Nat
    BY <1>2, <1>5, PartCounted, Zenon
  <2>2. liveCount = Cardinality(Retained)
    BY Zenon DEF IndexCountsExact
  <2> QED BY <1>1, <1>4, <2>1, <2>2, Zenon
<1>10. ASSUME NEW h \in Heights
       PROVE  /\ expiryCount'[h] = Cardinality({s \in Retained' : session'[s].deadline = h})
              /\ expiryCount'[h] \in Nat
  <2> DEFINE U == {s \in Retained : session[s].deadline = h}
             W == {s \in E : session[s].deadline = h}
  <2>1. /\ W \in SUBSET U /\ U \in SUBSET Retained /\ expiryCount[h] = Cardinality(U)
        /\ {s \in Retained' : session'[s].deadline = h} = U \ W
        /\ expiryCount'[h] = expiryCount[h] - Cardinality(W)
    BY <1>1, <1>2, <1>4, Zenon DEF IndexCountsExact
  <2> HIDE DEF U, W
  <2>2. IsFiniteSet(U)
    BY <1>5, <2>1, FS_Subset, Zenon
  <2>3. Cardinality(U \ W) = Cardinality(U) - Cardinality(W) /\ Cardinality(U \ W) \in Nat
    BY <2>1, <2>2, PartCounted
  <2> QED BY <2>1, <2>3, Zenon
<1>11. IndexCountsExact'
  <2>1. ASSUME NEW h \in Heights
        PROVE  openCount'[h] = Cardinality({s \in Stored' : h = height' /\ session'[s].opened = h})
    BY <1>1, <1>3, Zenon DEF IndexCountsExact
  <2> QED BY <1>9, <1>10, <2>1, Zenon DEF IndexCountsExact
<1>12. TypeOK'
  <2>1. \A s \in E : anchor[AnchorHeight(s)].seed \in Seeds \cup {NoSeed}
    <3> SUFFICES ASSUME NEW s \in E PROVE AnchorHeight(s) \in Heights
      BY Zenon DEF TypeOK, AnchorRows
    <3>1. session[s].opened \in 1..height /\ session[s].opened + 2 <= session[s].deadline /\ session[s].deadline < MaxHeight
      BY <1>1, Zenon DEF WindowsOK
    <3>2. session[s].deadline \in Heights /\ height \in Heights
      BY <1>1, Zenon DEF TypeOK, Contexts
    <3> QED BY <3>1, <3>2, RetentionConstants DEF AnchorHeight, Heights
  <2>2. terminal' \in [Sessions -> Seeds \cup {NoSeed}]
    BY <1>1, <2>1, Zenon DEF TypeOK
  <2>3. expiryCount' \in [Heights -> Nat]
    BY <1>1, <1>10, Zenon
  <2>4. expiryRefs' \subseteq Heights \X Sessions
    BY <1>1, Zenon DEF TypeOK
  <2> QED BY <1>1, <1>6, <1>7, <1>9, <2>2, <2>3, <2>4, Zenon DEF TypeOK
<1>13. BeginBlockNeverFails' /\ WindowsOK'
  BY <1>1, <1>3, Zenon DEF BeginBlockNeverFails, WindowsOK
<1>14. MarksOK'
  <2>1. \A s \in Sessions : terminal'[s] # NoSeed => s \in Stored' \cap V3
    BY <1>1, <1>3, Zenon DEF MarksOK
  <2>2. \A s \in E : ~(session[s].deadline < height)
    <3> SUFFICES ASSUME NEW s \in E PROVE ~(session[s].deadline < height)
      BY Zenon
    <3>1. session[s].deadline \in Int /\ height \in Int /\ height <= session[s].deadline
      BY <1>1 DEF TypeOK, Contexts, Heights
    <3> QED BY <3>1
  <2>3. \A s \in Sessions \ E : terminal'[s] = terminal[s]
    BY <1>1, Zenon
  <2>4. expired' = {s \in Stored' \cap V3 : session'[s].deadline < height' /\ terminal'[s] = NoSeed}
    BY <1>1, <1>3, <2>2, <2>3, Zenon DEF MarksOK, Stored
  <2> QED BY <2>1, <2>4, Zenon DEF MarksOK
<1>15. HeldUntilReleased'
  <2>1. expiryRefs' = {(ExpiryRef(s))' : s \in Retained'}
    BY <1>1, <1>2, <1>4 DEF HeldUntilReleased, ExpiryRef
  <2>2. ASSUME NEW s \in Stored
        PROVE  s \in Retained' <=> height' <= session'[s].deadline /\ terminal'[s] = NoSeed
    BY <1>1, <1>2, <1>4, Zenon DEF HeldUntilReleased, Stored
  <2> QED BY <1>3, <2>1, <2>2, Zenon DEF HeldUntilReleased
<1>16. AnchorRefsExact'
  <2> SUFFICES ASSUME NEW h \in Heights
               PROVE  /\ anchor'[h].sess = Cardinality((Owners(Retained, h))')
                      /\ anchor'[h].audit = Cardinality(UNION {frozen'[e] : e \in {x \in auditEpochs' : EpochAnchor(x) = h}})
                      /\ anchor'[h].stored <=> anchor'[h].sess + anchor'[h].audit > 0
    BY Zenon DEF AnchorRefsExact, EpochAnchor
  <2>1. (Owners(Retained, h))' = Owners(Retained \ E, h)
    BY <1>1, <1>4, Zenon DEF Owners, AnchorHeight
  <2>2. anchor[h].audit = Cardinality(UNION {frozen[e] : e \in {x \in auditEpochs : EpochAnchor(x) = h}})
    BY Zenon DEF AnchorRefsExact
  <2>3. anchor'[h].audit = Cardinality(UNION {frozen'[e] : e \in {x \in auditEpochs' : EpochAnchor(x) = h}})
    BY <1>1, <1>6, <2>2
  <2> QED BY <1>6, <2>1, <2>3, Zenon
<1>17. GenerationRefsExact'
  <2>1. \A x \in GenKeys : auditGenRefs'[x] =
         Cardinality({ea \in auditEpochs' \X Audits : ea[2] \in frozen'[ea[1]] /\ <<ea[2][1], ea[2][3]>> = x})
    BY <1>1 DEF GenerationRefsExact
  <2> QED BY <1>7, <2>1, Zenon DEF GenerationRefsExact
<1>18. CaptureOK'
  <2>1. ASSUME NEW h \in Heights, h = height + 1
        PROVE  anchor'[h].stored <=> anchor[h].stored
    <3>1. Owners(E, h) = {}
      <4> SUFFICES ASSUME NEW s \in E PROVE AnchorHeight(s) # h
        BY Zenon DEF Owners
      <4>1. session[s].opened \in Int /\ height \in Int /\ session[s].opened + 2 <= height
        BY <1>1 DEF TypeOK, Contexts, Heights
      <4> QED BY <2>1, <4>1 DEF AnchorHeight
    <3> QED BY <1>1, <3>1, Zenon DEF ReleasedAnchors
  <2>2. pending' = {h \in Heights : h = height' + 1 /\ anchor'[h].stored}
    BY <1>1, <2>1, Zenon DEF CaptureOK
  <2>3. ASSUME NEW h \in Heights, h > height' \/ ~anchor'[h].stored
        PROVE  anchor'[h].seed = NoSeed
    BY <1>1, <1>6, <2>3, Zenon DEF CaptureOK
  <2> QED BY <2>2, <2>3, Zenon DEF CaptureOK
<1>19. AuditsRetained'
  BY <1>1, Zenon DEF AuditsRetained, EpochOf, EpochAnchor
<1> QED BY <1>8, <1>11, <1>12, <1>13, <1>14, <1>15, <1>16, <1>17, <1>18, <1>19, Zenon

(***************************************************************************)
(* Storage audits in BeginBlock.                                           *)
(***************************************************************************)
AuditRefs(x) == UNION {frozen[e] : e \in {y \in auditEpochs : EpochAnchor(y) = x}}
PairsIn(N, G, k) == {ea \in N \X Audits : ea[2] \in G[ea[1]] /\ <<ea[2][1], ea[2][3]>> = k}
NextEpochs(h) == (auditEpochs \ Prunable(h)) \cup (IF IsEpochStart(h) THEN {EpochOf(h)} ELSE {})
NextFrozen(h, inv) ==
    [e \in Epochs |-> IF e \in Prunable(h) THEN {}
                      ELSE IF IsEpochStart(h) /\ e = EpochOf(h) THEN inv ELSE frozen[e]]

\* An epoch's audits are the references of its anchor, and of no other.
LEMMA AuditRefsOfEpoch ==
    ASSUME TypeOK
    PROVE  /\ \A e \in auditEpochs : AuditRefs(EpochAnchor(e)) = frozen[e]
           /\ \A x \in Heights : (\A e \in auditEpochs : EpochAnchor(e) # x) => AuditRefs(x) = {}
<1>1. \A e \in auditEpochs : e \in Int
  BY RetentionConstants DEF TypeOK, Epochs
<1>2. \A e \in auditEpochs : {y \in auditEpochs : EpochAnchor(y) = EpochAnchor(e)} = {e}
  BY <1>1, EpochSteps
<1>3. \A e \in auditEpochs : AuditRefs(EpochAnchor(e)) = frozen[e]
  BY <1>2, Zenon DEF AuditRefs
<1> QED BY <1>3, Zenon DEF AuditRefs

\* The epoch pruned at an epoch start is the older of the two retained ones.
LEMMA PrunableEpoch ==
    ASSUME IInv, height + 1 \in Heights
    PROVE  /\ IsEpochStart(height + 1) =>
                /\ EpochOf(height + 1) = EpochOf(height) + 1
                /\ EpochOf(height + 1) \in Epochs \ auditEpochs
                /\ EpochAnchor(EpochOf(height + 1)) = height + 1
                /\ Prunable(height + 1) = auditEpochs \ {EpochOf(height)}
           /\ ~IsEpochStart(height + 1) => EpochOf(height + 1) = EpochOf(height) /\ Prunable(height + 1) = {}
           /\ Prunable(height + 1) \subseteq auditEpochs
           /\ \A e, f \in Prunable(height + 1) : e = f
           /\ \A e \in auditEpochs : EpochAnchor(e) # height + 1
<1> USE DEF IInv
<1>1. height \in Nat /\ height + 1 <= MaxHeight /\ MaxHeight \in Nat
  BY RetentionConstants DEF TypeOK, Heights
<1>2. \A e \in auditEpochs : /\ e \in Int
                             /\ e \in {EpochOf(height) - 1, EpochOf(height)}
                             /\ EpochAnchor(e) <= height /\ EpochAnchor(e) \in Int
  BY EpochSteps, RetentionConstants DEF AuditsRetained, TypeOK, Epochs
<1>3. \A e \in auditEpochs : EpochAnchor(e) # height + 1
  BY <1>1, <1>2
<1>4. EpochOf(height) \in Int /\ EpochOf(height + 1) \in 1..(height + 1)
  BY <1>1, EpochSteps, Zenon
<1>5. ASSUME IsEpochStart(height + 1)
      PROVE  /\ EpochOf(height + 1) = EpochOf(height) + 1
             /\ EpochOf(height + 1) \in Epochs \ auditEpochs
             /\ EpochAnchor(EpochOf(height + 1)) = height + 1
             /\ Prunable(height + 1) = auditEpochs \ {EpochOf(height)}
  <2>1. EpochOf(height + 1) = EpochOf(height) + 1 /\ EpochAnchor(EpochOf(height + 1)) = height + 1
    BY <1>1, <1>5, EpochSteps, Zenon
  <2>2. EpochOf(height + 1) \in Epochs
    BY <1>1, <1>4 DEF Epochs
  <2>3. EpochOf(height + 1) \notin auditEpochs
    BY <1>3, <2>1, Zenon
  <2>4. Prunable(height + 1) = {e \in auditEpochs : e = EpochOf(height) - 1}
    BY <1>4, <1>5, <2>1 DEF Prunable
  <2>5. Prunable(height + 1) = auditEpochs \ {EpochOf(height)}
    BY <1>2, <1>4, <2>4
  <2> QED BY <2>1, <2>2, <2>3, <2>5, Zenon
<1>6. ~IsEpochStart(height + 1) => EpochOf(height + 1) = EpochOf(height) /\ Prunable(height + 1) = {}
  BY <1>1, EpochSteps, Zenon DEF Prunable
<1>7. Prunable(height + 1) \subseteq auditEpochs /\ \A e, f \in Prunable(height + 1) : e = f
  BY Zenon DEF Prunable
<1> QED BY <1>3, <1>5, <1>6, <1>7, Zenon

\* Pruning takes all audit references off the pruned epoch's anchor.
LEMMA PrunedExact ==
    ASSUME IInv, height + 1 \in Heights
    PROVE  LET h == height + 1
               P == PrunedAnchors(h) IN
           /\ Counts(P, Retained)
           /\ \A x \in Heights :
                /\ P[x].audit = IF \E e \in Prunable(h) : EpochAnchor(e) = x THEN 0 ELSE anchor[x].audit
                /\ P[x].seed = NoSeed \/ P[x].seed = anchor[x].seed
                /\ ~P[x].stored => P[x].seed = NoSeed
                /\ P[x].stored => P[x].seed = anchor[x].seed
           /\ P[h] = anchor[h]
           /\ \A e \in Prunable(h) : PrunedAudits(h) = frozen[e]
<1> USE DEF IInv
<1> DEFINE h == height + 1
           P == PrunedAnchors(h)
<1>1. /\ Prunable(h) \subseteq auditEpochs
      /\ \A e, f \in Prunable(h) : e = f
      /\ \A e \in auditEpochs : EpochAnchor(e) # h
  BY PrunableEpoch, Zenon
<1>2. \A e \in Prunable(h) : PrunedAudits(h) = frozen[e]
  BY <1>1, Zenon DEF PrunedAudits
<1>3. P[h] = anchor[h]
  BY <1>1, Zenon DEF PrunedAnchors
<1>4. ASSUME NEW x \in Heights
      PROVE  /\ P[x] \in AnchorRows
             /\ P[x].sess = Cardinality(Owners(Retained, x))
             /\ P[x].stored <=> P[x].sess + P[x].audit > 0
             /\ P[x].audit = IF \E e \in Prunable(h) : EpochAnchor(e) = x THEN 0 ELSE anchor[x].audit
             /\ ~P[x].stored => P[x].seed = NoSeed
             /\ P[x].stored => P[x].seed = anchor[x].seed
  <2> DEFINE a == anchor[x]
  <2>1. /\ a \in AnchorRows /\ a.sess = Cardinality(Owners(Retained, x)) /\ a.audit = Cardinality(AuditRefs(x))
        /\ a.stored <=> a.sess + a.audit > 0
    BY Zenon DEF TypeOK, AnchorRefsExact, AuditRefs
  <2>2. ~a.stored => a.seed = NoSeed
    BY Zenon DEF CaptureOK
  <2>3. CASE \E e \in Prunable(h) : EpochAnchor(e) = x /\ frozen[e] # {}
    <3>1. PICK e \in Prunable(h) : EpochAnchor(e) = x /\ frozen[e] # {}
      BY <2>3, Zenon
    <3>2. a.audit = Cardinality(frozen[e])
      BY <1>1, <2>1, <3>1, AuditRefsOfEpoch, Zenon
    <3> DEFINE b == [a EXCEPT !.audit = @ - Cardinality(PrunedAudits(h))]
    <3>3. P[x] = Kept(b)
      BY <3>1, Zenon DEF PrunedAnchors
    <3>4. a.sess \in Nat /\ a.audit \in Nat
      BY <2>1, Zenon DEF AnchorRows
    <3>5. a.audit - Cardinality(PrunedAudits(h)) = 0
      BY <1>2, <3>2, <3>4
    <3>6. frozen[e] \in SUBSET Audits
      BY <1>1, Zenon DEF TypeOK
    <3>7. a.audit > 0
      <4>1. IsFiniteSet(frozen[e])
        BY <3>6, FiniteKeys, FS_Subset, Zenon
      <4>2. Cardinality(frozen[e]) # 0
        BY <3>1, <4>1, FS_EmptySet, Zenon
      <4> QED BY <3>2, <3>4, <4>2
    <3>8. a.stored
      BY <2>1, <3>4, <3>7
    <3>9. b \in AnchorRows /\ b.sess = a.sess /\ b.audit = 0 /\ b.seed = a.seed /\ b.stored
      BY <2>1, <3>5, <3>8 DEF AnchorRows
    <3> HIDE DEF b
    <3>10. CASE a.sess = 0
      <4>1. P[x] = NoAnchor
        BY <3>3, <3>9, <3>10, Zenon DEF Kept
      <4>2. NoAnchor \in AnchorRows /\ NoAnchor.sess = 0 /\ NoAnchor.audit = 0 /\ ~NoAnchor.stored /\ NoAnchor.seed = NoSeed
        BY Zenon DEF NoAnchor, AnchorRows
      <4>3. ~(P[x].sess + P[x].audit > 0)
        BY <4>1, <4>2
      <4> QED BY <2>1, <3>1, <3>10, <4>1, <4>2, <4>3, Zenon
    <3>11. CASE a.sess # 0
      <4>1. P[x] = b
        BY <3>3, <3>9, <3>11, Zenon DEF Kept
      <4>2. P[x].sess + P[x].audit > 0
        BY <3>4, <3>9, <3>11, <4>1
      <4> QED BY <2>1, <3>1, <3>9, <4>1, <4>2, Zenon
    <3> QED BY <3>10, <3>11, Zenon
  <2>4. CASE ~\E e \in Prunable(h) : EpochAnchor(e) = x /\ frozen[e] # {}
    <3>1. P[x] = a
      BY <2>4, Zenon DEF PrunedAnchors
    <3>2. ASSUME NEW e \in Prunable(h), EpochAnchor(e) = x
          PROVE  a.audit = 0
      <4>1. frozen[e] = {} /\ AuditRefs(x) = frozen[e]
        BY <1>1, <2>4, <3>2, AuditRefsOfEpoch, Zenon
      <4> QED BY <2>1, <4>1, FS_EmptySet, Zenon
    <3> QED BY <2>1, <2>2, <3>1, <3>2, Zenon
  <2> QED BY <2>3, <2>4, Zenon
<1>5. P \in [Heights -> AnchorRows]
  <2>1. P = [x \in Heights |-> P[x]]
    BY Zenon DEF PrunedAnchors
  <2> QED BY <1>4, <2>1, Zenon
<1>6. Counts(P, Retained)
  BY <1>4, <1>5, Zenon DEF Counts
<1> QED BY <1>2, <1>3, <1>4, <1>6, Zenon

\* Freezing an inventory and capturing the header hash change the row of the new
\* block alone, and the capture never meets a missing or captured row.
LEMMA BlockAnchorsExact ==
    ASSUME IInv, height + 1 \in Heights, NEW inv \in Inventories, NEW hash \in Seeds \cup {NoSeed}
    PROVE  LET h == height + 1
               F == FrozenAnchors(PrunedAnchors(h), h, inv)
               A == BlockAnchors(h, inv, hash) IN
           /\ Counts(A, Retained)
           /\ h \in PendingWith(h, inv) => F[h].stored /\ F[h].seed = NoSeed
           /\ PrunedAnchors(h)[h].audit = 0
           /\ A[h].audit = Cardinality(inv)
           /\ \A x \in Heights : /\ x # h => A[x] = PrunedAnchors(h)[x]
                                 /\ x > h \/ ~A[x].stored => A[x].seed = NoSeed
<1> USE DEF IInv
<1> DEFINE h == height + 1
           P == PrunedAnchors(h)
           F == FrozenAnchors(P, h, inv)
           A == BlockAnchors(h, inv, hash)
<1>1. /\ Counts(P, Retained) /\ P[h] = anchor[h]
      /\ \A x \in Heights : /\ ~P[x].stored => P[x].seed = NoSeed
                            /\ P[x].stored => P[x].seed = anchor[x].seed
  BY PrunedExact, Zenon
<1>2. P \in [Heights -> AnchorRows] /\ h \in Heights /\ height \in Int
  BY <1>1, RetentionConstants DEF Counts, TypeOK, Heights
<1> HIDE DEF P
<1>3. P[h].audit = 0
  <2>1. AuditRefs(h) = {}
    BY PrunableEpoch, AuditRefsOfEpoch, Zenon
  <2>2. anchor[h].audit = Cardinality(AuditRefs(h))
    BY Zenon DEF AnchorRefsExact, AuditRefs
  <2> QED BY <1>1, <2>1, <2>2, FS_EmptySet, Zenon
<1>4. P[h].seed = NoSeed /\ \A x \in Heights : x > h => P[x].seed = NoSeed
  <2>1. \A x \in Heights : x >= h => x > height
    BY <1>2 DEF Heights
  <2>2. h >= h /\ \A x \in Heights : x > h => x >= h
    BY <1>2 DEF Heights
  <2>3. \A x \in Heights : x > height => anchor[x].seed = NoSeed
    BY Zenon DEF CaptureOK
  <2> QED BY <1>1, <1>2, <2>1, <2>2, <2>3, Zenon
<1>5. IsFiniteSet(inv) /\ Cardinality(inv) \in Nat
  BY FiniteKeys, FS_Subset, FS_CardinalityType, Zenon DEF Inventories
<1>6. inv = {} <=> Cardinality(inv) = 0
  BY <1>5, FS_EmptySet, Zenon
<1>7. /\ F \in [Heights -> AnchorRows]
      /\ \A x \in Heights : x # h => F[x] = P[x]
      /\ F[h].sess = P[h].sess /\ F[h].audit = Cardinality(inv) /\ F[h].seed = NoSeed
      /\ inv # {} => F[h].stored
      /\ inv = {} => F[h] = P[h]
  <2>1. CASE inv = {}
    BY <1>2, <1>3, <1>4, <1>6, <2>1, Zenon DEF FrozenAnchors
  <2>2. CASE inv # {}
    <3> DEFINE b == Referenced(P[h], 0, Cardinality(inv))
    <3>1. P[h].sess \in Nat /\ P[h].audit \in Nat /\ P[h].seed \in Seeds \cup {NoSeed}
      BY <1>2, Zenon DEF AnchorRows
    <3>2. b.sess = P[h].sess /\ b.audit = Cardinality(inv) /\ b.seed = NoSeed /\ b.stored
      BY <1>3, <1>4, <1>5, <3>1 DEF Referenced
    <3>3. b \in AnchorRows
      BY <1>3, <1>5, <3>1 DEF Referenced, AnchorRows
    <3>4. F = [P EXCEPT ![h] = b]
      BY <2>2, Zenon DEF FrozenAnchors
    <3> HIDE DEF b, F
    <3> QED BY <1>2, <2>2, <3>2, <3>3, <3>4, Zenon
  <2> QED BY <2>1, <2>2, Zenon
<1>8. h \in PendingWith(h, inv) <=> F[h].stored
  <2>1. h \in pending <=> anchor[h].stored
    BY <1>2, Zenon DEF CaptureOK
  <2> QED BY <1>1, <1>7, <2>1, Zenon DEF PendingWith
<1>9. A = IF F[h].stored THEN [F EXCEPT ![h] = [F[h] EXCEPT !.seed = hash]] ELSE F
  BY <1>2, <1>7, <1>8, Zenon DEF BlockAnchors, CapturedAnchors, P
<1> HIDE DEF F, A
<1> DEFINE c == [F[h] EXCEPT !.seed = hash]
<1>10. F[h] \in AnchorRows
  BY <1>2, <1>7, Zenon
<1>11. /\ c \in AnchorRows /\ c.sess = F[h].sess /\ c.audit = F[h].audit
       /\ c.stored = F[h].stored /\ c.seed = hash
  BY <1>10, Zenon DEF AnchorRows
<1>12. A = IF F[h].stored THEN [F EXCEPT ![h] = c] ELSE F
  BY <1>9, Zenon
<1> HIDE DEF c
<1>13. /\ A \in [Heights -> AnchorRows]
       /\ \A x \in Heights : x # h => A[x] = P[x]
       /\ A[h].sess = P[h].sess /\ A[h].audit = Cardinality(inv) /\ A[h].stored = F[h].stored
       /\ ~A[h].stored => A[h].seed = NoSeed
  <2>1. CASE F[h].stored
    BY <1>2, <1>7, <1>11, <1>12, <2>1, Zenon
  <2>2. CASE ~F[h].stored
    BY <1>2, <1>7, <1>12, <2>2, Zenon
  <2> QED BY <2>1, <2>2, Zenon
<1>14. A[h].stored <=> A[h].sess + A[h].audit > 0
  <2>1. P[h].stored <=> P[h].sess + P[h].audit > 0
    BY <1>1, <1>2, Zenon DEF Counts
  <2>2. P[h].sess \in Nat
    BY <1>2, Zenon DEF AnchorRows
  <2>3. CASE inv = {}
    <3>1. A[h].stored = P[h].stored /\ A[h].audit = 0
      BY <1>6, <1>7, <1>13, <2>3, Zenon
    <3> QED BY <1>3, <1>13, <2>1, <3>1, Zenon
  <2>4. CASE inv # {}
    <3>1. A[h].stored /\ A[h].audit > 0
      BY <1>5, <1>6, <1>7, <1>13, <2>4
    <3>2. A[h].sess + A[h].audit > 0
      BY <1>5, <1>13, <2>2, <3>1
    <3> QED BY <3>1, <3>2, Zenon
  <2> QED BY <2>3, <2>4, Zenon
<1>15. Counts(A, Retained)
  BY <1>1, <1>2, <1>13, <1>14, Zenon DEF Counts
<1>16. \A x \in Heights : x > h \/ ~A[x].stored => A[x].seed = NoSeed
  <2>1. \A x \in Heights : x > h => x # h
    BY <1>2 DEF Heights
  <2> QED BY <1>1, <1>4, <1>13, <2>1, Zenon
<1> QED BY <1>3, <1>7, <1>8, <1>13, <1>15, <1>16, Zenon DEF A, F, P

\* One epoch's audits, counted as the pairs of GenerationRefsExact.
LEMMA EpochPairs ==
    ASSUME NEW e \in Epochs, NEW S \in SUBSET Audits, NEW k \in GenKeys
    PROVE  /\ IsFiniteSet(AuditsOf(S, k)) /\ Cardinality(AuditsOf(S, k)) \in Nat
           /\ IsFiniteSet({e} \X AuditsOf(S, k))
           /\ Cardinality({e} \X AuditsOf(S, k)) = Cardinality(AuditsOf(S, k))
           /\ Cardinality(AuditsOf(S, k)) <= Cardinality(S)
<1> DEFINE W == AuditsOf(S, k)
<1>1. W \in SUBSET S
  BY Zenon DEF AuditsOf
<1>2. IsFiniteSet(S)
  BY FiniteKeys, FS_Subset, Zenon
<1> HIDE DEF W
<1>3. IsFiniteSet(W) /\ Cardinality(W) \in Nat /\ Cardinality(W) <= Cardinality(S)
  BY <1>1, <1>2, PartCounted, Zenon
<1>4. IsFiniteSet({e}) /\ Cardinality({e}) = 1
  BY FS_Singleton, Zenon
<1>5. IsFiniteSet({e} \X W) /\ Cardinality({e} \X W) = Cardinality({e}) * Cardinality(W)
  BY <1>3, <1>4, FS_Product, Zenon
<1>6. Cardinality({e} \X W) = Cardinality(W)
  BY <1>3, <1>4, <1>5
<1> QED BY <1>3, <1>5, <1>6, Zenon DEF W

\* Pruning and freezing keep the audit generation counts exact and within two epochs
\* of audits.
LEMMA AuditGenerations ==
    ASSUME IInv, height + 1 \in Heights, NEW inv \in Inventories,
           inv # {} => IsEpochStart(height + 1), NEW k \in GenKeys
    PROVE  LET h == height + 1
               n == AuditGenRefs(h, inv)[k] IN
           /\ Cardinality(AuditsOf(PrunedAudits(h), k)) <= auditGenRefs[k]
           /\ n = Cardinality(PairsIn(NextEpochs(h), NextFrozen(h, inv), k))
           /\ n \in Nat
           /\ inv # {} => n <= 2 * MaxAudits
<1> USE DEF IInv
<1> DEFINE h == height + 1
           n == AuditGenRefs(h, inv)[k]
           Q == PairsIn(auditEpochs, frozen, k)
           X == {ea \in Q : ea[1] \in Prunable(h)}
           I == AuditsOf(inv, k)
           J == AuditsOf(PrunedAudits(h), k)
           M == PairsIn(NextEpochs(h), NextFrozen(h, inv), k)
<1>1. /\ Prunable(h) \subseteq auditEpochs
      /\ \A e, f \in Prunable(h) : e = f
      /\ \A e \in Prunable(h) : PrunedAudits(h) = frozen[e]
  BY PrunableEpoch, PrunedExact, Zenon
<1>2. auditEpochs \subseteq Epochs /\ frozen \in [Epochs -> SUBSET Audits] /\ inv \in SUBSET Audits
  BY Zenon DEF TypeOK, Inventories
<1>3. IsFiniteSet(Q)
  <2>1. IsFiniteSet(auditEpochs)
    BY <1>2, FiniteKeys, FS_Subset, Zenon
  <2>2. IsFiniteSet(auditEpochs \X Audits)
    BY <2>1, FiniteKeys, FS_Product, Zenon
  <2>3. Q \subseteq auditEpochs \X Audits
    BY Zenon DEF PairsIn
  <2> QED BY <2>2, <2>3, FS_Subset, Zenon
<1>4. auditGenRefs[k] = Cardinality(Q)
  BY Zenon DEF GenerationRefsExact, PairsIn
<1>5. n = auditGenRefs[k] - Cardinality(J) + Cardinality(I)
  BY Zenon DEF AuditGenRefs
<1>6. X \in SUBSET Q
  BY Zenon
<1>7. Cardinality(J) \in Nat /\ Cardinality(X) = Cardinality(J)
  <2>1. CASE Prunable(h) = {}
    <3>1. X = {} /\ J = {}
      BY <2>1, Zenon DEF PrunedAudits, AuditsOf
    <3>2. Cardinality({}) = 0
      BY FS_EmptySet, Zenon
    <3> HIDE DEF X, J
    <3> QED BY <3>1, <3>2
  <2>2. CASE Prunable(h) # {}
    <3>1. PICK e \in Prunable(h) : TRUE
      BY <2>2, Zenon
    <3>2. J = AuditsOf(frozen[e], k) /\ frozen[e] \in SUBSET Audits
      BY <1>1, <1>2, <3>1, Zenon
    <3>3. X = {e} \X AuditsOf(frozen[e], k)
      <4>1. ASSUME NEW ea \in X PROVE ea \in {e} \X AuditsOf(frozen[e], k)
        <5>1. ea \in auditEpochs \X Audits /\ ea[2] \in frozen[ea[1]] /\ <<ea[2][1], ea[2][3]>> = k /\ ea[1] \in Prunable(h)
          BY <4>1, Zenon DEF PairsIn
        <5>2. ea = <<ea[1], ea[2]>> /\ ea[1] = e
          BY <1>1, <3>1, <5>1
        <5> QED BY <5>1, <5>2, Zenon DEF AuditsOf
      <4>2. ASSUME NEW ea \in {e} \X AuditsOf(frozen[e], k) PROVE ea \in X
        <5>1. ea = <<e, ea[2]>> /\ ea[1] = e /\ ea[2] \in frozen[e] /\ <<ea[2][1], ea[2][3]>> = k
          BY <4>2 DEF AuditsOf
        <5>2. e \in auditEpochs /\ ea[2] \in Audits
          BY <1>1, <3>1, <3>2, <5>1, Zenon
        <5> QED BY <3>1, <5>1, <5>2, Zenon DEF PairsIn
      <4> QED BY <4>1, <4>2, Zenon
    <3>4. e \in Epochs
      BY <1>1, <1>2, <3>1, Zenon
    <3>5. /\ Cardinality(AuditsOf(frozen[e], k)) \in Nat
          /\ Cardinality({e} \X AuditsOf(frozen[e], k)) = Cardinality(AuditsOf(frozen[e], k))
      BY <3>2, <3>4, EpochPairs, Zenon
    <3> HIDE DEF X, J
    <3> QED BY <3>2, <3>3, <3>5, Zenon
  <2> QED BY <2>1, <2>2, Zenon
<1> HIDE DEF Q, X, J, M
<1>8. /\ Cardinality(X) <= Cardinality(Q) /\ Cardinality(Q) \in Nat
      /\ IsFiniteSet(Q \ X) /\ Cardinality(Q \ X) = Cardinality(Q) - Cardinality(X)
      /\ Cardinality(Q \ X) \in Nat
  BY <1>3, <1>6, PartCounted, Zenon
<1>9. n = Cardinality(Q \ X) + Cardinality(I)
  <2>1. Cardinality(I) \in Nat
    <3>1. I \in SUBSET Audits
      BY <1>2, Zenon DEF AuditsOf
    <3> HIDE DEF I
    <3>2. IsFiniteSet(I)
      BY <3>1, FiniteKeys, FS_Subset, Zenon
    <3> QED BY <3>2, FS_CardinalityType, Zenon
  <2> QED BY <1>4, <1>5, <1>7, <1>8, <2>1, Zenon
<1>10. Cardinality(J) <= auditGenRefs[k]
  BY <1>4, <1>7, <1>8, Zenon
<1>11. CASE ~IsEpochStart(h)
  <2>1. inv = {} /\ Prunable(h) = {}
    BY <1>11, PrunableEpoch, Zenon
  <2>2. I = {} /\ Q \ X = Q
    BY <2>1, Zenon DEF AuditsOf, X
  <2>3. NextEpochs(h) = auditEpochs /\ \A e \in Epochs : NextFrozen(h, inv)[e] = frozen[e]
    BY <1>11, <2>1, Zenon DEF NextEpochs, NextFrozen
  <2>4. M = Q
    BY <1>2, <2>3, Zenon DEF M, Q, PairsIn
  <2>5. n = Cardinality(M)
    BY <1>8, <1>9, <2>2, <2>4, FS_EmptySet
  <2> QED BY <1>8, <1>10, <2>1, <2>2, <2>4, <2>5, Zenon DEF M, J
<1>12. CASE IsEpochStart(h)
  <2> DEFINE new == EpochOf(h)
             old == EpochOf(height)
             Z == {new} \X I
  <2>1. new \in Epochs /\ new \notin auditEpochs /\ Prunable(h) = auditEpochs \ {old}
    BY <1>12, PrunableEpoch, Zenon
  <2>2. /\ NextEpochs(h) = (auditEpochs \ Prunable(h)) \cup {new}
        /\ NextFrozen(h, inv)[new] = inv
        /\ \A e \in auditEpochs \ Prunable(h) : NextFrozen(h, inv)[e] = frozen[e]
    BY <1>1, <1>2, <1>12, <2>1, Zenon DEF NextEpochs, NextFrozen
  <2> HIDE DEF new, old
  <2>3. M = (Q \ X) \cup Z
    <3>1. ASSUME NEW ea \in M PROVE ea \in (Q \ X) \cup Z
      <4>1. /\ ea \in NextEpochs(h) \X Audits /\ ea[2] \in NextFrozen(h, inv)[ea[1]]
            /\ <<ea[2][1], ea[2][3]>> = k
        BY <3>1, Zenon DEF M, PairsIn
      <4>2. CASE ea[1] = new
        <5>1. ea = <<new, ea[2]>> /\ ea[2] \in inv
          BY <2>2, <4>1, <4>2
        <5> QED BY <4>1, <5>1 DEF AuditsOf
      <4>3. CASE ea[1] # new
        <5>1. ea[1] \in auditEpochs \ Prunable(h)
          BY <2>2, <4>1, <4>3, Zenon
        <5>2. ea \in auditEpochs \X Audits /\ ea[2] \in frozen[ea[1]]
          BY <2>2, <4>1, <5>1, Zenon
        <5> QED BY <4>1, <5>1, <5>2, Zenon DEF Q, X, PairsIn
      <4> QED BY <4>2, <4>3, Zenon
    <3>2. ASSUME NEW ea \in Q \ X PROVE ea \in M
      <4>1. /\ ea \in auditEpochs \X Audits /\ ea[2] \in frozen[ea[1]]
            /\ <<ea[2][1], ea[2][3]>> = k /\ ea[1] \notin Prunable(h)
        BY <3>2, Zenon DEF Q, X, PairsIn
      <4> QED BY <2>2, <4>1, Zenon DEF M, PairsIn
    <3>3. ASSUME NEW ea \in Z PROVE ea \in M
      <4>1. ea = <<new, ea[2]>> /\ ea[1] = new /\ ea[2] \in inv /\ <<ea[2][1], ea[2][3]>> = k
        BY <3>3 DEF AuditsOf
      <4>2. ea[2] \in Audits /\ new \in NextEpochs(h)
        BY <1>2, <2>2, <4>1, Zenon
      <4> QED BY <2>2, <4>1, <4>2, Zenon DEF M, PairsIn
    <3> QED BY <3>1, <3>2, <3>3, Zenon
  <2>4. (Q \ X) \cap Z = {}
    BY <2>1, Zenon DEF Q, PairsIn
  <2>5. IsFiniteSet(Z) /\ Cardinality(Z) = Cardinality(I) /\ Cardinality(I) \in Nat /\ Cardinality(I) <= Cardinality(inv)
    BY <1>2, <2>1, EpochPairs, Zenon
  <2> HIDE DEF Z, I
  <2>6. Cardinality(M) = Cardinality(Q \ X) + Cardinality(Z)
    <3>1. Cardinality(M) = Cardinality(Q \ X) + Cardinality(Z) - Cardinality((Q \ X) \cap Z)
      BY <1>8, <2>3, <2>5, FS_Union, Zenon
    <3>2. Cardinality((Q \ X) \cap Z) = 0
      BY <2>4, FS_EmptySet, Zenon
    <3> QED BY <1>8, <2>5, <3>1, <3>2
  <2>7. Cardinality(Q \ X) <= MaxAudits
    <3>1. CASE old \in auditEpochs
      <4>1. Q \ X \subseteq {old} \X AuditsOf(frozen[old], k)
        <5>1. ASSUME NEW ea \in Q \ X PROVE ea \in {old} \X AuditsOf(frozen[old], k)
          <6>1. /\ ea \in auditEpochs \X Audits /\ ea[2] \in frozen[ea[1]]
                /\ <<ea[2][1], ea[2][3]>> = k /\ ea[1] \notin Prunable(h)
            BY <5>1, Zenon DEF Q, X, PairsIn
          <6>2. ea = <<ea[1], ea[2]>> /\ ea[1] = old
            BY <2>1, <6>1
          <6> QED BY <6>1, <6>2, Zenon DEF AuditsOf
        <5> QED BY <5>1, Zenon
      <4> DEFINE U == {old} \X AuditsOf(frozen[old], k)
      <4>2. /\ IsFiniteSet(U) /\ Cardinality(U) <= Cardinality(frozen[old])
            /\ Cardinality(U) \in Nat
        <5>1. old \in Epochs /\ frozen[old] \in SUBSET Audits
          BY <1>2, <3>1, Zenon
        <5>2. /\ IsFiniteSet({old} \X AuditsOf(frozen[old], k))
              /\ Cardinality({old} \X AuditsOf(frozen[old], k)) = Cardinality(AuditsOf(frozen[old], k))
              /\ Cardinality(AuditsOf(frozen[old], k)) \in Nat
              /\ Cardinality(AuditsOf(frozen[old], k)) <= Cardinality(frozen[old])
          BY <5>1, EpochPairs, Zenon
        <5> QED BY <5>2, Zenon
      <4>3. Cardinality(frozen[old]) <= MaxAudits /\ Cardinality(frozen[old]) \in Nat
        <5>1. IsFiniteSet(frozen[old])
          BY <1>2, <3>1, FiniteKeys, FS_Subset, Zenon
        <5> QED BY <3>1, <5>1, FS_CardinalityType, Zenon DEF AuditsRetained
      <4> HIDE DEF U
      <4>4. Cardinality(Q \ X) <= Cardinality(U)
        BY <4>1, <4>2, FS_Subset, Zenon DEF U
      <4> QED BY <1>8, <4>2, <4>3, <4>4, RetentionConstants
    <3>2. CASE old \notin auditEpochs
      <4>1. Q \ X = {}
        BY <2>1, <3>2, Zenon DEF Q, X, PairsIn
      <4>2. Cardinality(Q \ X) = 0
        BY <4>1, FS_EmptySet, Zenon
      <4>3. MaxAudits \in Nat
        BY RetentionConstants, Zenon
      <4> QED BY <1>8, <4>2, <4>3
    <3> QED BY <3>1, <3>2, Zenon
  <2>8. Cardinality(inv) <= MaxAudits /\ Cardinality(inv) \in Nat
    <3>1. IsFiniteSet(inv)
      BY <1>2, FiniteKeys, FS_Subset, Zenon
    <3> QED BY <3>1, FS_CardinalityType, Zenon DEF Inventories
  <2>9. n = Cardinality(M) /\ n \in Nat /\ n <= 2 * MaxAudits
    BY <1>8, <1>9, <2>5, <2>6, <2>7, <2>8, RetentionConstants
  <2> QED BY <1>10, <2>9, Zenon DEF M, J
<1> QED BY <1>11, <1>12, Zenon

\* The sessions a block expires are the retained ones whose deadline just passed.
LEMMA ExpiringExact ==
    ASSUME IInv, height + 1 \in Heights
    PROVE  LET E == Expiring(height + 1) IN
           /\ E = {s \in Retained : session[s].deadline = height}
           /\ E \in SUBSET Retained
           /\ height \in Heights /\ height \in Nat
           /\ expiryCount[height] = Cardinality(E)
           /\ expiryCount[height] <= MaxExpiryRefsPerBlock
           /\ Cardinality(E) <= liveCount
           /\ liveCount - Cardinality(E) = Cardinality(Retained \ E)
           /\ Cardinality(Retained \ E) \in Nat
           /\ \A s \in E : s \in Stored /\ terminal[s] = NoSeed /\ s \notin expired
<1> USE DEF IInv
<1> DEFINE h == height + 1
           E == Expiring(h)
<1>1. height \in Heights /\ height \in Nat /\ h - 1 = height
  BY RetentionConstants DEF TypeOK, Heights
<1>2. E = {s \in Sessions : <<height, s>> \in expiryRefs}
  BY <1>1, Zenon DEF Expiring
<1>3. expiryRefs = {<<session[s].deadline, s>> : s \in Retained} /\ Retained \subseteq Sessions
  BY Zenon DEF HeldUntilReleased, ExpiryRef, Retained, Stored
<1>4. E = {s \in Retained : session[s].deadline = height}
  BY <1>2, <1>3, Zenon
<1>5. E \in SUBSET Retained
  BY <1>4, Zenon
<1>6. expiryCount[height] = Cardinality(E) /\ Cardinality(E) <= MaxExpiryRefsPerBlock
  BY <1>1, <1>4, Zenon DEF IndexCountsExact, RetentionBounded
<1>7. IsFiniteSet(Retained) /\ liveCount = Cardinality(Retained)
  BY RetentionConstants, FS_Subset, Zenon DEF Retained, Stored, IndexCountsExact
<1>8. ASSUME NEW s \in E PROVE s \in Stored /\ terminal[s] = NoSeed /\ s \notin expired
  <2>1. s \in Retained /\ s \in Stored /\ session[s].deadline = height
    BY <1>4, Zenon DEF Retained
  <2> QED BY <1>1, <2>1 DEF HeldUntilReleased, MarksOK
<1> HIDE DEF E
<1>9. /\ Cardinality(E) <= Cardinality(Retained)
      /\ Cardinality(Retained \ E) = Cardinality(Retained) - Cardinality(E)
      /\ Cardinality(Retained \ E) \in Nat
  BY <1>5, <1>7, PartCounted, Zenon
<1> QED BY <1>1, <1>4, <1>5, <1>6, <1>7, <1>8, <1>9, Zenon DEF E

\* Sessions' references can always be released from rows that count them.
LEMMA CanAlwaysRelease ==
    ASSUME TypeOK, GenerationRefsExact, NEW A, Counts(A, Retained), NEW E \in SUBSET Retained
    PROVE  CanRelease(A, E)
<1>1. Retained \in SUBSET Sessions
  BY Zenon DEF Retained, Stored
<1>2. Without(A, ReleasedAnchors(A, E), E)
  BY <1>1, AnchorsReleased, Zenon
<1>3. \A h \in Heights : Owners(E, h) # {} => A[h].stored /\ Cardinality(Owners(E, h)) <= A[h].sess
  BY <1>2, Zenon DEF Without
<1>4. /\ \A k \in GenKeys : Cardinality(Users(E, k)) <= genRefs[k]
      /\ \A d \in Deals : Cardinality(OfDeal(LastUsed(E), d)) <= dealGens[d]
      /\ Cardinality(LastUsed(E)) <= gens
  BY GenerationsReleased, Zenon
<1> QED BY <1>3, <1>4, Zenon DEF CanRelease

\* No check of BeginBlock fails in a state of the invariant.
LEMMA BeginBlockAgreed ==
    ASSUME IInv, height + 1 \in Heights, NEW inv \in Inventories, NEW hash \in Seeds \cup {NoSeed},
           inv # {} => IsEpochStart(height + 1)
    PROVE  BeginBlockOK(height + 1, inv, hash)
<1> USE DEF IInv
<1> DEFINE h == height + 1
<1>1. /\ IsEpochStart(h) => EpochOf(h) \notin auditEpochs
      /\ Prunable(h) \subseteq auditEpochs
      /\ \A e \in Prunable(h) : PrunedAudits(h) = frozen[e]
  BY PrunableEpoch, PrunedExact, Zenon
<1>2. ASSUME NEW e \in Prunable(h), frozen[e] # {}
      PROVE  /\ anchor[EpochAnchor(e)].stored
             /\ Cardinality(frozen[e]) <= anchor[EpochAnchor(e)].audit
             /\ \A k \in GenKeys : Cardinality(AuditsOf(frozen[e], k)) <= auditGenRefs[k]
  <2> DEFINE x == EpochAnchor(e)
  <2>1. e \in auditEpochs /\ e \in Int /\ e >= 1 /\ x <= height /\ x \in Int
    <3>1. e \in auditEpochs
      BY <1>1, <1>2, Zenon
    <3>2. e \in Epochs
      BY <3>1, Zenon DEF TypeOK
    <3>3. e \in Int /\ e >= 1
      BY <3>2, RetentionConstants DEF Epochs
    <3>4. x <= height
      BY <3>1, Zenon DEF AuditsRetained
    <3> QED BY <3>1, <3>3, <3>4, EpochSteps, Zenon
  <2>2. x >= 1
    BY <2>1, RetentionConstants DEF EpochAnchor
  <2> HIDE DEF x
  <2>3. x \in Heights
    BY <2>1, <2>2, RetentionConstants DEF TypeOK, Heights
  <2>4. AuditRefs(x) = frozen[e]
    BY <2>1, AuditRefsOfEpoch, Zenon DEF x
  <2>5. /\ anchor[x].audit = Cardinality(frozen[e])
        /\ anchor[x].stored <=> anchor[x].sess + anchor[x].audit > 0
        /\ anchor[x].sess \in Nat /\ anchor[x].audit \in Nat
    BY <2>3, <2>4, Zenon DEF AnchorRefsExact, AuditRefs, TypeOK, AnchorRows
  <2>6. IsFiniteSet(frozen[e])
    BY <2>1, FiniteKeys, FS_Subset, Zenon DEF TypeOK
  <2>7. Cardinality(frozen[e]) # 0
    BY <1>2, <2>6, FS_EmptySet, Zenon
  <2>8. anchor[x].sess + anchor[x].audit > 0
    BY <2>5, <2>7
  <2>9. \A k \in GenKeys : Cardinality(AuditsOf(frozen[e], k)) <= auditGenRefs[k]
    BY <1>1, <1>2, AuditGenerations, Zenon
  <2> QED BY <2>5, <2>8, <2>9 DEF x
<1>3. /\ Counts(BlockAnchors(h, inv, hash), Retained)
      /\ h \in PendingWith(h, inv) => /\ FrozenAnchors(PrunedAnchors(h), h, inv)[h].stored
                                      /\ FrozenAnchors(PrunedAnchors(h), h, inv)[h].seed = NoSeed
      /\ PrunedAnchors(h)[h].audit = 0
  BY BlockAnchorsExact, Zenon
<1>4. PrunedAnchors(h)[h].audit + Cardinality(inv) <= MaxAudits
  <2>1. IsFiniteSet(inv)
    BY FiniteKeys, FS_Subset, Zenon DEF Inventories
  <2>2. Cardinality(inv) \in Nat /\ Cardinality(inv) <= MaxAudits
    BY <2>1, FS_CardinalityType, Zenon DEF Inventories
  <2> QED BY <1>3, <2>2, RetentionConstants
<1>5. \A k \in GenKeys : AuditsOf(inv, k) # {} => AuditGenRefs(h, inv)[k] <= 2 * MaxAudits
  <2>1. \A k \in GenKeys : AuditsOf(inv, k) # {} => inv # {}
    BY Zenon DEF AuditsOf
  <2> QED BY <2>1, AuditGenerations, Zenon
<1>6. AuditsOK(h, inv)
  BY <1>1, <1>2, <1>4, <1>5, Zenon DEF AuditsOK
<1>7. /\ h - 1 = height
      /\ Expiring(h) \in SUBSET Retained
      /\ expiryCount[height] = Cardinality(Expiring(h))
      /\ expiryCount[height] <= MaxExpiryRefsPerBlock
      /\ Cardinality(Expiring(h)) <= liveCount
      /\ \A s \in Expiring(h) : s \in Stored /\ session[s].deadline = height /\ s \notin expired
  <2>1. /\ Expiring(h) = {s \in Retained : session[s].deadline = height}
        /\ Expiring(h) \in SUBSET Retained
        /\ height \in Nat
        /\ expiryCount[height] = Cardinality(Expiring(h))
        /\ expiryCount[height] <= MaxExpiryRefsPerBlock
        /\ Cardinality(Expiring(h)) <= liveCount
        /\ \A s \in Expiring(h) : s \in Stored /\ s \notin expired
    BY ExpiringExact, Zenon
  <2>2. h - 1 = height
    BY <2>1
  <2> QED BY <2>1, <2>2, Zenon
<1>8. CanRelease(BlockAnchors(h, inv, hash), Expiring(h))
  BY <1>3, <1>7, CanAlwaysRelease, Zenon
<1>9. ExpiryOK(h, inv, hash)
  BY <1>3, <1>7, <1>8, Zenon DEF ExpiryOK, Stored
<1> QED BY <1>6, <1>9, Zenon DEF BeginBlockOK

\* The audit records after a block: the current and the previous epoch's, counted
\* exactly by the anchors' audit references.
LEMMA AuditsStep ==
    ASSUME IInv, height + 1 \in Heights, NEW inv \in Inventories, NEW hash \in Seeds \cup {NoSeed},
           inv # {} => IsEpochStart(height + 1),
           auditEpochs' = NextEpochs(height + 1), frozen' = NextFrozen(height + 1, inv),
           height' = height + 1
    PROVE  /\ AuditsRetained'
           /\ auditEpochs' \subseteq Epochs /\ frozen' \in [Epochs -> SUBSET Audits]
           /\ \A x \in Heights : BlockAnchors(height + 1, inv, hash)[x].audit = Cardinality((AuditRefs(x))')
<1> USE DEF IInv
<1> DEFINE h == height + 1
           A == BlockAnchors(h, inv, hash)
           new == EpochOf(h)
<1>1. /\ IsEpochStart(h) => /\ new = EpochOf(height) + 1
                            /\ new \in Epochs \ auditEpochs
                            /\ EpochAnchor(new) = h
                            /\ Prunable(h) = auditEpochs \ {EpochOf(height)}
      /\ ~IsEpochStart(h) => new = EpochOf(height) /\ Prunable(h) = {}
      /\ Prunable(h) \subseteq auditEpochs
      /\ \A e \in auditEpochs : EpochAnchor(e) # h
  BY PrunableEpoch, Zenon
<1>2. auditEpochs \subseteq Epochs /\ frozen \in [Epochs -> SUBSET Audits] /\ inv \in SUBSET Audits
  BY Zenon DEF TypeOK, Inventories
<1>3. auditEpochs' = (auditEpochs \ Prunable(h)) \cup (IF IsEpochStart(h) THEN {new} ELSE {})
  BY Zenon DEF NextEpochs
<1>4. \A e \in Epochs : frozen'[e] = IF e \in Prunable(h) THEN {}
                                     ELSE IF IsEpochStart(h) /\ e = new THEN inv ELSE frozen[e]
  BY Zenon DEF NextFrozen
<1>5. auditEpochs' \subseteq Epochs
  BY <1>1, <1>2, <1>3, Zenon
<1>6. frozen' \in [Epochs -> SUBSET Audits]
  BY <1>1, <1>2, Zenon DEF NextFrozen
<1>7. /\ \A e \in auditEpochs \ Prunable(h) : frozen'[e] = frozen[e]
      /\ IsEpochStart(h) => frozen'[new] = inv
  BY <1>1, <1>2, <1>4, Zenon
<1>8. AuditsRetained'
  <2>1. height \in Int /\ EpochOf(height) \in Int
    BY EpochSteps, RetentionConstants DEF TypeOK, Heights
  <2>2. ASSUME NEW e \in auditEpochs \ Prunable(h)
        PROVE  e \in {new - 1, new} /\ EpochAnchor(e) <= h /\ Cardinality(frozen'[e]) <= MaxAudits
    <3>1. /\ e \in {EpochOf(height) - 1, EpochOf(height)}
          /\ EpochAnchor(e) <= height /\ Cardinality(frozen[e]) <= MaxAudits
      BY Zenon DEF AuditsRetained
    <3>2. EpochAnchor(e) \in Int
      BY <2>1, <3>1, EpochSteps
    <3>3. e \in {new - 1, new}
      BY <1>1, <2>1, <3>1
    <3>4. EpochAnchor(e) <= h
      BY <2>1, <3>1, <3>2
    <3> QED BY <1>7, <3>1, <3>3, <3>4, Zenon
  <2>3. ASSUME IsEpochStart(h)
        PROVE  EpochAnchor(new) <= h /\ Cardinality(frozen'[new]) <= MaxAudits
    BY <1>1, <1>7, <2>1, <2>3 DEF Inventories
  <2>4. ASSUME NEW e \in auditEpochs'
        PROVE  e \in {new - 1, new} /\ EpochAnchor(e) <= h /\ Cardinality(frozen'[e]) <= MaxAudits
    <3>1. CASE e \in auditEpochs \ Prunable(h)
      BY <2>2, <3>1, Zenon
    <3>2. CASE IsEpochStart(h) /\ e = new
      BY <2>3, <3>2, Zenon
    <3> QED BY <1>3, <2>4, <3>1, <3>2, Zenon
  <2>5. ASSUME NEW e \in Epochs, e \notin auditEpochs'
        PROVE  frozen'[e] = {}
    <3>1. CASE e \in Prunable(h)
      BY <1>4, <3>1, Zenon
    <3>2. CASE e \notin Prunable(h)
      <4>1. e \notin auditEpochs /\ ~(IsEpochStart(h) /\ e = new)
        BY <1>3, <2>5, <3>2, Zenon
      <4>2. frozen[e] = {}
        BY <4>1, Zenon DEF AuditsRetained
      <4> QED BY <1>4, <3>2, <4>1, <4>2, Zenon
    <3> QED BY <3>1, <3>2, Zenon
  <2> QED BY <2>4, <2>5, Zenon DEF AuditsRetained
<1>9. ASSUME NEW x \in Heights
      PROVE  A[x].audit = Cardinality((AuditRefs(x))')
  <2>1. /\ \A e \in auditEpochs : e \in Int
        /\ \A a, b \in Int : EpochAnchor(a) = EpochAnchor(b) => a = b
    BY <1>2, EpochSteps, RetentionConstants DEF Epochs
  <2>2. (AuditRefs(x))' = UNION {frozen'[e] : e \in {y \in auditEpochs' : EpochAnchor(y) = x}}
    BY Zenon DEF AuditRefs, EpochAnchor
  <2>3. A[h].audit = Cardinality(inv) /\ (x # h => A[x] = PrunedAnchors(h)[x])
    BY BlockAnchorsExact
  <2>4. CASE x = h
    <3>1. CASE IsEpochStart(h)
      <4>1. {y \in auditEpochs' : EpochAnchor(y) = x} = {new}
        BY <1>1, <1>3, <2>4, <3>1, Zenon
      <4>2. (AuditRefs(x))' = inv
        BY <1>7, <2>2, <3>1, <4>1
      <4> QED BY <2>3, <2>4, <4>2, Zenon
    <3>2. CASE ~IsEpochStart(h)
      <4>1. {y \in auditEpochs' : EpochAnchor(y) = x} = {} /\ inv = {}
        BY <1>1, <1>3, <2>4, <3>2, Zenon
      <4>2. (AuditRefs(x))' = inv
        BY <2>2, <4>1
      <4> QED BY <2>3, <2>4, <4>2, Zenon
    <3> QED BY <3>1, <3>2, Zenon
  <2>5. CASE x # h
    <3>1. A[x].audit = IF \E e \in Prunable(h) : EpochAnchor(e) = x THEN 0 ELSE anchor[x].audit
      BY <2>3, <2>5, PrunedExact, Zenon
    <3>2. anchor[x].audit = Cardinality(AuditRefs(x))
      BY Zenon DEF AnchorRefsExact, AuditRefs
    <3>3. {y \in auditEpochs' : EpochAnchor(y) = x} = {y \in auditEpochs \ Prunable(h) : EpochAnchor(y) = x}
      BY <1>1, <1>3, <2>5, Zenon
    <3>4. CASE \E e \in Prunable(h) : EpochAnchor(e) = x
      <4>1. {y \in auditEpochs' : EpochAnchor(y) = x} = {}
        BY <1>1, <2>1, <3>3, <3>4, Zenon
      <4>2. (AuditRefs(x))' = {}
        BY <2>2, <4>1, Zenon
      <4>3. Cardinality({}) = 0
        BY FS_EmptySet, Zenon
      <4> HIDE DEF A
      <4> QED BY <3>1, <3>4, <4>2, <4>3, Zenon
    <3>5. CASE ~\E e \in Prunable(h) : EpochAnchor(e) = x
      <4> DEFINE Y == {y \in auditEpochs : EpochAnchor(y) = x}
      <4>1. {y \in auditEpochs' : EpochAnchor(y) = x} = Y
        BY <3>3, <3>5, Zenon
      <4>2. \A y \in Y : frozen'[y] = frozen[y]
        BY <1>7, <3>5, Zenon
      <4>3. (AuditRefs(x))' = UNION {frozen'[e] : e \in Y}
        BY <2>2, <4>1, Zenon
      <4>4. AuditRefs(x) = UNION {frozen[e] : e \in Y}
        BY Zenon DEF AuditRefs
      <4> HIDE DEF Y, A
      <4>5. (AuditRefs(x))' = AuditRefs(x)
        BY <4>2, <4>3, <4>4, Zenon
      <4> QED BY <3>1, <3>2, <3>5, <4>5, Zenon
    <3> QED BY <3>4, <3>5, Zenon
  <2> QED BY <2>4, <2>5, Zenon
<1> QED BY <1>5, <1>6, <1>8, <1>9, Zenon

\* A block that passes its checks keeps the inductive invariant: freezing, pruning,
\* capture and expiry together.
LEMMA BeginBlockPreserves ==
    ASSUME IInv, NEW inv \in Inventories, NEW hash \in Seeds \cup {NoSeed}, BeginBlock(inv, hash)
    PROVE  IInv'
<1> USE DEF IInv
<1> DEFINE h == height + 1
           E == Expiring(h)
           A == BlockAnchors(h, inv, hash)
<1>1. /\ h \in Heights /\ height \in Heights /\ height \in Nat /\ h \in Nat /\ h - 1 = height
      /\ inv # {} => IsEpochStart(h)
  BY RetentionConstants DEF BeginBlock, TypeOK, Heights
<1>2. BeginBlockOK(h, inv, hash)
  BY <1>1, BeginBlockAgreed, Zenon
<1>3. height' = h /\ halted' = halted /\ ProcessRetrievalChallengeState(h, inv, hash)
  BY <1>2, Zenon DEF BeginBlock
<1>4. /\ auditEpochs' = NextEpochs(h) /\ frozen' = NextFrozen(h, inv)
      /\ auditGenRefs' = AuditGenRefs(h, inv)
      /\ anchor' = ReleasedAnchors(A, E)
      /\ pending' = PendingWith(h, inv) \ {h}
      /\ openCount' = [openCount EXCEPT ![height] = 0]
      /\ expired' = expired \cup (E \cap V3)
      /\ ReleaseGenerations(E)
      /\ expiryRefs' = expiryRefs \ {<<height, s>> : s \in E}
      /\ expiryCount' = [expiryCount EXCEPT ![height] = 0]
      /\ liveCount' = liveCount - expiryCount[height]
      /\ session' = session /\ terminal' = terminal
  BY <1>1, <1>3, Zenon DEF ProcessRetrievalChallengeState, NextEpochs, NextFrozen
<1>5. /\ E = {s \in Retained : session[s].deadline = height}
      /\ E \in SUBSET Retained
      /\ expiryCount[height] = Cardinality(E)
      /\ liveCount - Cardinality(E) = Cardinality(Retained \ E)
      /\ Cardinality(Retained \ E) \in Nat
      /\ \A s \in E : s \in Stored /\ terminal[s] = NoSeed /\ s \notin expired
  BY <1>1, ExpiringExact, Zenon
<1>6. /\ Counts(A, Retained)
      /\ \A x \in Heights : x > h \/ ~A[x].stored => A[x].seed = NoSeed
  BY <1>1, BlockAnchorsExact, Zenon
<1>7. /\ AuditsRetained'
      /\ auditEpochs' \subseteq Epochs /\ frozen' \in [Epochs -> SUBSET Audits]
      /\ \A x \in Heights : A[x].audit = Cardinality((AuditRefs(x))')
  BY <1>1, <1>3, <1>4, AuditsStep, Zenon
<1>8. \A k \in GenKeys : /\ AuditGenRefs(h, inv)[k] = Cardinality(PairsIn(NextEpochs(h), NextFrozen(h, inv), k))
                         /\ AuditGenRefs(h, inv)[k] \in Nat
  BY <1>1, AuditGenerations, Zenon
<1> HIDE DEF E, A
<1>9. Stored' = Stored /\ Retained \subseteq Stored /\ Stored \subseteq Sessions
  BY <1>4, Zenon DEF Stored, Retained
<1>10. expiryRefs = {<<session[s].deadline, s>> : s \in Retained}
  BY Zenon DEF HeldUntilReleased, ExpiryRef
<1>11. Retained' = Retained \ E
  <2>1. Retained' = {s \in Stored : <<session[s].deadline, s>> \in expiryRefs'}
    BY <1>4, <1>9, Zenon DEF Retained, ExpiryRef
  <2>2. Retained = {s \in Stored : <<session[s].deadline, s>> \in expiryRefs}
    BY Zenon DEF Retained, ExpiryRef
  <2> QED BY <1>4, <1>5, <2>1, <2>2, Zenon
<1>12. /\ \A x \in GenKeys : genRefs'[x] = Cardinality((Users(Retained, x))')
       /\ \A d \in Deals : dealGens'[d] = Cardinality({x \in GenKeys : x[1] = d /\ (Users(Retained, x))' # {}})
       /\ gens' = Cardinality({x \in GenKeys : (Users(Retained, x))' # {}})
       /\ genRefs' \in [GenKeys -> Nat] /\ dealGens' \in [Deals -> Nat] /\ gens' \in Nat
  BY <1>4, <1>5, <1>11, GenerationsExact, Zenon
<1>13. RetentionBounded'
  BY <1>4, <1>5, <1>11, BoundShrinks, Zenon
<1>14. /\ anchor' \in [Heights -> AnchorRows]
       /\ \A x \in Heights :
            /\ anchor'[x].sess = Cardinality(Owners(Retained \ E, x))
            /\ anchor'[x].audit = A[x].audit
            /\ anchor'[x].stored <=> anchor'[x].sess + anchor'[x].audit > 0
            /\ x > h \/ ~anchor'[x].stored => anchor'[x].seed = NoSeed
  <2>1. Counts(anchor', Retained \ E) /\ Without(A, anchor', E)
    BY <1>4, <1>5, <1>6, <1>9, AnchorsReleased, Zenon
  <2>2. \A x \in Heights : anchor'[x].seed = IF A[x].stored /\ ~anchor'[x].stored THEN NoSeed ELSE A[x].seed
    BY <2>1, Zenon DEF Without
  <2>3. \A x \in Heights : anchor'[x].audit = A[x].audit
    BY <2>1, Zenon DEF Without
  <2>4. \A x \in Heights : x > h \/ ~anchor'[x].stored => anchor'[x].seed = NoSeed
    BY <1>6, <2>2, Zenon
  <2> QED BY <2>1, <2>3, <2>4, Zenon DEF Counts
<1>15. \A s \in Stored : /\ session[s].opened \in Int /\ session[s].opened <= height
                         /\ session[s].deadline \in Int
  <2> SUFFICES ASSUME NEW s \in Stored
               PROVE  /\ session[s].opened \in Int /\ session[s].opened <= height
                      /\ session[s].deadline \in Int
    BY Zenon
  <2>1. session[s] \in Contexts
    BY <1>9, Zenon DEF TypeOK
  <2>2. session[s].opened \in 1..height
    BY Zenon DEF WindowsOK
  <2> QED BY <1>1, <2>1, <2>2 DEF Contexts, Heights
<1>16. IndexCountsExact'
  <2>1. liveCount' = Cardinality(Retained')
    BY <1>4, <1>5, <1>11, Zenon
  <2>2. ASSUME NEW x \in Heights
        PROVE  expiryCount'[x] = Cardinality({s \in Retained' : session'[s].deadline = x})
    <3>1. expiryCount[x] = Cardinality({s \in Retained : session[s].deadline = x})
      BY Zenon DEF IndexCountsExact
    <3>2. CASE x = height
      <4>1. {s \in Retained' : session'[s].deadline = x} = {}
        BY <1>4, <1>5, <1>11, <3>2, Zenon
      <4>2. expiryCount'[x] = 0
        BY <1>1, <1>4, <3>2, Zenon DEF TypeOK
      <4> QED BY <4>1, <4>2, FS_EmptySet, Zenon
    <3>3. CASE x # height
      <4>1. {s \in Retained' : session'[s].deadline = x} = {s \in Retained : session[s].deadline = x}
        BY <1>4, <1>5, <1>11, <3>3, Zenon
      <4>2. expiryCount'[x] = expiryCount[x]
        BY <1>4, <3>3, Zenon DEF TypeOK
      <4> QED BY <3>1, <4>1, <4>2, Zenon
    <3> QED BY <3>2, <3>3, Zenon
  <2>3. ASSUME NEW x \in Heights
        PROVE  openCount'[x] = Cardinality({s \in Stored' : x = height' /\ session'[s].opened = x})
    <3>1. {s \in Stored' : x = height' /\ session'[s].opened = x} = {}
      <4>1. \A s \in Stored' : session'[s].opened \in 1..height
        BY <1>4, <1>9, Zenon DEF WindowsOK
      <4> HIDE DEF IInv, h
      <4>2. height' # height /\ height' > height
        BY <1>1, <1>3 DEF h
      <4>3. \A s \in Stored' : session'[s].opened # height'
        BY <1>1, <4>1, <4>2
      <4> QED BY <4>3, Zenon
    <3>2. openCount'[x] = 0
      <4>1. CASE x = height
        BY <1>1, <1>4, <4>1, Zenon DEF TypeOK
      <4>2. CASE x # height
        <5>1. {s \in Stored : x = height /\ session[s].opened = x} = {}
          BY <4>2, Zenon
        <5>2. openCount[x] = Cardinality({s \in Stored : x = height /\ session[s].opened = x})
          BY Zenon DEF IndexCountsExact
        <5>3. openCount[x] = 0
          BY <5>1, <5>2, FS_EmptySet, Zenon
        <5> QED BY <1>4, <4>2, <5>3, Zenon DEF TypeOK
      <4> QED BY <4>1, <4>2, Zenon
    <3> QED BY <3>1, <3>2, FS_EmptySet, Zenon
  <2> QED BY <2>1, <2>2, <2>3, Zenon DEF IndexCountsExact
<1>17. pending' = {} /\ \A x \in Heights : x = h + 1 => ~anchor'[x].stored
  <2>1. pending' = {}
    BY <1>4, Zenon DEF CaptureOK, PendingWith
  <2>2. ASSUME NEW x \in Heights, x = h + 1 PROVE ~anchor'[x].stored
    <3>1. Owners(Retained \ E, x) = {}
      BY <1>1, <1>9, <1>15, <2>2 DEF Owners, AnchorHeight
    <3>2. (AuditRefs(x))' = {}
      <4>1. ASSUME NEW e \in auditEpochs' PROVE EpochAnchor(e) # x
        <5>1. EpochAnchor(e) <= h
          BY <1>3, <1>7, Zenon DEF AuditsRetained, EpochAnchor
        <5>2. e \in Int
          BY <1>7, RetentionConstants DEF Epochs
        <5>3. EpochAnchor(e) \in Int
          BY <5>2, EpochSteps, Zenon
        <5> QED BY <1>1, <2>2, <5>1, <5>3
      <4>2. (AuditRefs(x))' = UNION {frozen'[e] : e \in {y \in auditEpochs' : EpochAnchor(y) = x}}
        BY Zenon DEF AuditRefs, EpochAnchor
      <4> QED BY <4>1, <4>2, Zenon
    <3>3. Cardinality({}) = 0
      BY FS_EmptySet, Zenon
    <3>4. anchor'[x].sess = 0 /\ anchor'[x].audit = 0
      BY <1>7, <1>14, <3>1, <3>2, <3>3, Zenon
    <3>5. ~(anchor'[x].sess + anchor'[x].audit > 0)
      BY <3>4
    <3> QED BY <1>14, <3>5, Zenon
  <2> QED BY <2>1, <2>2, Zenon
<1>18. CaptureOK'
  <2>1. {x \in Heights : x = height' + 1 /\ anchor'[x].stored} = {}
    BY <1>3, <1>17, Zenon
  <2> QED BY <1>3, <1>14, <1>17, <2>1, Zenon DEF CaptureOK
<1>19. TypeOK'
  <2>1. expired' \subseteq V3 /\ expiryRefs' \subseteq Heights \X Sessions /\ pending' \subseteq Heights
    BY <1>4, <1>17, Zenon DEF TypeOK
  <2>2. expiryCount' \in [Heights -> Nat] /\ openCount' \in [Heights -> Nat] /\ liveCount' \in Nat
    BY <1>4, <1>5, Zenon DEF TypeOK
  <2>3. auditGenRefs' \in [GenKeys -> Nat]
    BY <1>4, <1>8, Zenon DEF AuditGenRefs
  <2>4. height' \in Heights /\ halted' \in BOOLEAN
    BY <1>1, <1>3, Zenon DEF TypeOK
  <2>5. session' \in [Sessions -> Contexts] /\ terminal' \in [Sessions -> Seeds \cup {NoSeed}]
    BY <1>4, Zenon DEF TypeOK
  <2> QED BY <1>7, <1>12, <1>14, <2>1, <2>2, <2>3, <2>4, <2>5, Zenon DEF TypeOK
<1>20. BeginBlockNeverFails'
  BY <1>3, Zenon DEF BeginBlockNeverFails
<1>21. WindowsOK'
  <2>1. \A s \in Stored' : /\ session'[s].opened \in 1..height
                            /\ session'[s].opened + 2 <= session'[s].deadline
                            /\ session'[s].deadline < MaxHeight
    BY <1>4, <1>9, Zenon DEF WindowsOK
  <2> HIDE DEF IInv
  <2>2. 1..height \subseteq 1..height'
    BY <1>1, <1>3
  <2> QED BY <2>1, <2>2, Zenon DEF WindowsOK
<1>22. MarksOK'
  <2>1. \A s \in Stored : s \in E <=> session[s].deadline = height /\ terminal[s] = NoSeed
    <3>1. \A s \in Stored : s \in Retained <=> height <= session[s].deadline /\ terminal[s] = NoSeed
      BY Zenon DEF HeldUntilReleased
    <3> QED BY <1>1, <1>5, <1>15, <3>1
  <2>2. \A s \in Stored : session[s].deadline < h <=> session[s].deadline < height \/ session[s].deadline = height
    BY <1>1, <1>15
  <2>3. expired = {s \in Stored \cap V3 : session[s].deadline < height /\ terminal[s] = NoSeed}
    BY Zenon DEF MarksOK
  <2>4. expired' = {s \in Stored \cap V3 : session[s].deadline < h /\ terminal[s] = NoSeed}
    BY <1>4, <1>5, <2>1, <2>2, <2>3, Zenon
  <2> QED BY <1>3, <1>4, <1>9, <2>4, Zenon DEF MarksOK
<1>23. HeldUntilReleased'
  <2>1. expiryRefs' = {(ExpiryRef(s))' : s \in Retained'}
    BY <1>4, <1>5, <1>10, <1>11 DEF ExpiryRef
  <2>2. ASSUME NEW s \in Stored
        PROVE  s \in Retained' <=> h <= session[s].deadline /\ terminal[s] = NoSeed
    <3>1. s \in Retained <=> height <= session[s].deadline /\ terminal[s] = NoSeed
      BY Zenon DEF HeldUntilReleased
    <3> QED BY <1>1, <1>5, <1>11, <1>15, <3>1
  <2> QED BY <1>3, <1>4, <1>9, <2>1, <2>2, Zenon DEF HeldUntilReleased
<1>24. AnchorRefsExact'
  <2> SUFFICES ASSUME NEW x \in Heights
               PROVE  /\ anchor'[x].sess = Cardinality((Owners(Retained, x))')
                      /\ anchor'[x].audit = Cardinality((AuditRefs(x))')
                      /\ anchor'[x].stored <=> anchor'[x].sess + anchor'[x].audit > 0
    BY Zenon DEF AnchorRefsExact, AuditRefs
  <2>1. (Owners(Retained, x))' = Owners(Retained \ E, x)
    BY <1>4, <1>11, Zenon DEF Owners, AnchorHeight
  <2> QED BY <1>7, <1>14, <2>1, Zenon
<1>25. GenerationRefsExact'
  <2>1. \A k \in GenKeys : auditGenRefs'[k] =
         Cardinality({ea \in auditEpochs' \X Audits : ea[2] \in frozen'[ea[1]] /\ <<ea[2][1], ea[2][3]>> = k})
    BY <1>4, <1>8, Zenon DEF PairsIn
  <2> QED BY <1>12, <2>1, Zenon DEF GenerationRefsExact
<1> QED BY <1>7, <1>13, <1>16, <1>18, <1>19, <1>20, <1>21, <1>22, <1>23, <1>24, <1>25, Zenon

(***************************************************************************)
(* The invariant and what follows from it.                                 *)
(***************************************************************************)
\* Genesis satisfies the inductive invariant.
LEMMA InitInv == Init => IInv
<1> SUFFICES ASSUME Init PROVE IInv
  BY Zenon
<1>1. /\ height = 0 /\ halted = FALSE /\ expired = {} /\ pending = {} /\ expiryRefs = {}
      /\ auditEpochs = {} /\ liveCount = 0 /\ gens = 0
      /\ session = [s \in Sessions |-> NoContext] /\ terminal = [s \in Sessions |-> NoSeed]
      /\ anchor = [h \in Heights |-> NoAnchor]
      /\ expiryCount = [h \in Heights |-> 0] /\ openCount = [h \in Heights |-> 0]
      /\ genRefs = [k \in GenKeys |-> 0] /\ dealGens = [d \in Deals |-> 0]
      /\ frozen = [e \in Epochs |-> {}] /\ auditGenRefs = [k \in GenKeys |-> 0]
  BY Zenon DEF Init
<1>2. 0 \in Heights
  BY RetentionConstants DEF Heights
<1>3. NoContext \in Contexts
  <2>1. PICK d \in Deals, g \in Generations : TRUE
    BY RetentionConstants, Zenon
  <2>2. <<d, g>> \in GenKeys
    BY <2>1, Zenon DEF GenKeys
  <2>3. (CHOOSE k \in GenKeys : TRUE) \in GenKeys
    BY <2>2, Zenon
  <2> QED BY <1>2, <2>3, Zenon DEF NoContext, Contexts
<1>4. NoAnchor \in AnchorRows /\ NoAnchor.sess = 0 /\ NoAnchor.audit = 0 /\ ~NoAnchor.stored /\ NoAnchor.seed = NoSeed
  BY Zenon DEF NoAnchor, AnchorRows
<1>5. TypeOK
  BY <1>1, <1>2, <1>3, <1>4, Zenon DEF TypeOK
<1>6. Stored = {} /\ Retained = {}
  BY <1>1, Zenon DEF Stored, Retained, NoContext
<1>7. Cardinality({}) = 0
  BY FS_EmptySet, Zenon
<1>8. BeginBlockNeverFails /\ WindowsOK /\ HeldUntilReleased
  BY <1>1, <1>6, Zenon DEF BeginBlockNeverFails, WindowsOK, HeldUntilReleased
<1>9. MarksOK
  BY <1>1, <1>6, Zenon DEF MarksOK
<1>10. IndexCountsExact
  BY <1>1, <1>6, <1>7, Zenon DEF IndexCountsExact
<1>11. AnchorRefsExact
  <2> SUFFICES ASSUME NEW h \in Heights
               PROVE  /\ anchor[h].sess = Cardinality(Owners(Retained, h))
                      /\ anchor[h].audit = Cardinality(UNION {frozen[e] : e \in {x \in auditEpochs : EpochAnchor(x) = h}})
                      /\ anchor[h].stored <=> anchor[h].sess + anchor[h].audit > 0
    BY Zenon DEF AnchorRefsExact
  <2>1. anchor[h] = NoAnchor /\ ~(0 + 0 > 0)
    BY <1>1
  <2>2. Owners(Retained, h) = {} /\ UNION {frozen[e] : e \in {x \in auditEpochs : EpochAnchor(x) = h}} = {}
    BY <1>1, <1>6, Zenon DEF Owners
  <2> QED BY <1>4, <1>7, <2>1, <2>2, Zenon
<1>12. \A k \in GenKeys : Users(Retained, k) = {}
  BY <1>6, Zenon DEF Users
<1>13. /\ {k \in GenKeys : Users(Retained, k) # {}} = {}
       /\ \A d \in Deals : {k \in GenKeys : k[1] = d /\ Users(Retained, k) # {}} = {}
       /\ \A h \in Heights : {s \in Retained : session[s].deadline = h} = {}
  BY <1>6, <1>12, Zenon
<1>14. \A k \in GenKeys : {ea \in auditEpochs \X Audits : ea[2] \in frozen[ea[1]] /\ <<ea[2][1], ea[2][3]>> = k} = {}
  BY <1>1, Zenon
<1>15. GenerationRefsExact
  BY <1>1, <1>7, <1>12, <1>13, <1>14, Zenon DEF GenerationRefsExact
<1>16. RetentionBounded
  <2>1. 0 <= MaxLive /\ 0 <= MaxExpiryRefsPerBlock /\ 0 <= MaxGensPerDeal /\ 0 <= MaxGens
    BY RetentionConstants
  <2>2. Cardinality({}) = 0
    BY FS_EmptySet, Zenon
  <2> QED BY <1>6, <1>13, <2>1, <2>2, Zenon DEF RetentionBounded
<1>17. CaptureOK
  BY <1>1, <1>4, Zenon DEF CaptureOK
<1>18. AuditsRetained
  BY <1>1, Zenon DEF AuditsRetained
<1> QED BY <1>5, <1>8, <1>9, <1>10, <1>11, <1>15, <1>16, <1>17, <1>18, Zenon DEF IInv

\* Every step of the keeper keeps the inductive invariant.
LEMMA NextPreserves == IInv /\ [Next]_retentionVars => IInv'
<1> SUFFICES ASSUME IInv, [Next]_retentionVars PROVE IInv'
  BY Zenon
<1>1. CASE \E s \in Sessions, k \in GenKeys, deadline \in Heights : Open(s, k, deadline)
  BY <1>1, OpenPreserves, Zenon
<1>2. CASE \E E \in SUBSET V3 : Complete(E)
  BY <1>2, CompletePreserves, Zenon
<1>3. CASE \E inv \in Inventories, hash \in Seeds \cup {NoSeed} : BeginBlock(inv, hash)
  BY <1>3, BeginBlockPreserves, Zenon
<1>4. CASE UNCHANGED retentionVars
  <2>1. UNCHANGED <<height, halted, session, expired, terminal, anchor, pending, expiryRefs, expiryCount,
                    liveCount, openCount, genRefs, dealGens, gens, auditEpochs, frozen, auditGenRefs>>
    BY <1>4, Zenon DEF retentionVars, sessionVars, indexVars, genVars, auditVars
  <2>2. Stored' = Stored /\ Retained' = Retained
    BY <2>1, Zenon DEF Stored, Retained, ExpiryRef
  <2>3. TypeOK' /\ BeginBlockNeverFails' /\ WindowsOK' /\ MarksOK'
    BY <2>1, <2>2, Zenon DEF IInv, TypeOK, BeginBlockNeverFails, WindowsOK, MarksOK
  <2>4. HeldUntilReleased' /\ IndexCountsExact'
    BY <2>1, <2>2, Zenon DEF IInv, HeldUntilReleased, IndexCountsExact, ExpiryRef
  <2>5. AnchorRefsExact'
    <3>1. \A h \in Heights : (Owners(Retained, h))' = Owners(Retained, h) /\ (AuditRefs(h))' = AuditRefs(h)
      BY <2>1, <2>2, Zenon DEF Owners, AnchorHeight, AuditRefs, EpochAnchor
    <3>2. \A h \in Heights : /\ anchor[h].sess = Cardinality(Owners(Retained, h))
                             /\ anchor[h].audit = Cardinality(AuditRefs(h))
                             /\ anchor[h].stored <=> anchor[h].sess + anchor[h].audit > 0
      BY Zenon DEF IInv, AnchorRefsExact, AuditRefs
    <3>3. \A h \in Heights : /\ anchor'[h].sess = Cardinality((Owners(Retained, h))')
                             /\ anchor'[h].audit = Cardinality((AuditRefs(h))')
                             /\ anchor'[h].stored <=> anchor'[h].sess + anchor'[h].audit > 0
      BY <2>1, <3>1, <3>2, Zenon
    <3> QED BY <3>3, Zenon DEF AnchorRefsExact, AuditRefs
  <2>6. GenerationRefsExact'
    <3>1. \A k \in GenKeys : (Users(Retained, k))' = Users(Retained, k)
      BY <2>1, <2>2, Zenon DEF Users
    <3>2. \A d : {k \in GenKeys : k[1] = d /\ (Users(Retained, k))' # {}}
                   = {k \in GenKeys : k[1] = d /\ Users(Retained, k) # {}}
      BY ONLY <3>1, SMT
    <3>3. {k \in GenKeys : (Users(Retained, k))' # {}} = {k \in GenKeys : Users(Retained, k) # {}}
      BY ONLY <3>1, SMT
    <3> QED BY <2>1, <3>1, <3>2, <3>3, Zenon DEF IInv, GenerationRefsExact
  <2>7. RetentionBounded'
    BY <2>1, <2>2, Zenon DEF IInv, RetentionBounded, Users
  <2>8. CaptureOK' /\ AuditsRetained'
    BY <2>1, Zenon DEF IInv, CaptureOK, AuditsRetained, EpochOf, EpochAnchor
  <2> QED BY <2>3, <2>4, <2>5, <2>6, <2>7, <2>8, Zenon DEF IInv
<1> QED BY <1>1, <1>2, <1>3, <1>4, Zenon DEF Next

\* The bookkeeping of processRetrievalChallengeState, retainSessionChallengeFields
\* and releaseTerminalRetrievalSessionV3 keeps the inductive invariant, for any
\* number of sessions, deals, epochs and blocks.
THEOREM RetentionInvariant == Spec => []IInv
BY InitInv, NextPreserves, PTL DEF Spec

\* Every collection keeps the shape the keeper declares for it.
THEOREM RetentionTypes == Spec => []TypeOK
<1>1. IInv => TypeOK
  BY Zenon DEF IInv
<1> QED BY <1>1, RetentionInvariant, PTL

\* No check in BeginBlock ever fails: the retrieval bookkeeping never stops the chain.
THEOREM ChainNeverStops == Spec => []BeginBlockNeverFails
<1>1. IInv => BeginBlockNeverFails
  BY Zenon DEF IInv
<1> QED BY <1>1, RetentionInvariant, PTL

\* Sessions own their references exactly until their deadline or their completion.
THEOREM HeldExactly == Spec => []HeldUntilReleased
<1>1. IInv => HeldUntilReleased
  BY Zenon DEF IInv
<1> QED BY <1>1, RetentionInvariant, PTL

\* Every counter the admission checks read is the size of what it counts: live
\* sessions, expiry buckets, anchor references, generation references.
THEOREM CountersExact == Spec => []CountsExact
<1>1. IInv => CountsExact
  BY Zenon DEF IInv, CountsExact
<1> QED BY <1>1, RetentionInvariant, PTL

\* The retained state stays within the caps of types/retrieval_challenge.go.
THEOREM StateBounded == Spec => []RetentionBounded
<1>1. IInv => RetentionBounded
  BY Zenon DEF IInv
<1> QED BY <1>1, RetentionInvariant, PTL

\* A retained session's anchor exists and awaits capture exactly before its height.
LEMMA AnchorServes == IInv => AnchorServesWindow
<1> SUFFICES ASSUME IInv, NEW s \in Retained
             PROVE  /\ anchor[AnchorHeight(s)].stored
                    /\ AnchorHeight(s) \in pending <=> height < AnchorHeight(s)
  BY Zenon DEF AnchorServesWindow
<1> USE DEF IInv
<1> DEFINE x == AnchorHeight(s)
<1>1. s \in Stored /\ s \in Sessions /\ IsFiniteSet(Retained)
  BY RetentionConstants, FS_Subset, Zenon DEF Retained, Stored
<1>2. /\ session[s].opened \in 1..height /\ session[s].opened + 2 <= session[s].deadline
      /\ session[s].deadline < MaxHeight
  BY <1>1, Zenon DEF WindowsOK
<1>3. height \in Nat /\ session[s].deadline \in Nat
  <2>1. height \in Heights /\ session[s].deadline \in Heights
    BY <1>1, Zenon DEF TypeOK, Contexts
  <2> HIDE DEF IInv
  <2> QED BY <2>1, RetentionConstants DEF Heights
<1>4. x \in Heights /\ x <= height + 1 /\ x \in Int
  BY <1>2, <1>3, RetentionConstants DEF AnchorHeight, Heights
<1> HIDE DEF x
<1>5. s \in Owners(Retained, x) /\ Owners(Retained, x) \in SUBSET Retained
  BY Zenon DEF Owners, x
<1>6. anchor[x].sess # 0 /\ anchor[x].sess \in Nat /\ anchor[x].audit \in Nat
  <2> DEFINE W == Owners(Retained, x)
  <2>1. anchor[x].sess = Cardinality(W) /\ W # {} /\ anchor[x].sess \in Nat /\ anchor[x].audit \in Nat
    BY <1>4, <1>5, Zenon DEF AnchorRefsExact, TypeOK, AnchorRows
  <2> HIDE DEF W
  <2>2. Cardinality(W) # 0
    BY <1>1, <1>5, <2>1, PartCounted, Zenon DEF W
  <2> QED BY <2>1, <2>2, Zenon
<1>7. anchor[x].sess + anchor[x].audit > 0
  BY <1>6
<1>8. anchor[x].stored
  BY <1>4, <1>7, Zenon DEF AnchorRefsExact
<1>9. x \in pending <=> x = height + 1
  BY <1>4, <1>8, Zenon DEF CaptureOK
<1>10. x = height + 1 <=> height < x
  BY <1>3, <1>4
<1> QED BY <1>8, <1>9, <1>10, Zenon DEF x

\* While a session is retained its anchor row exists, waiting for capture before the
\* anchor height and captured from then on.
THEOREM AnchorsServeWindows == Spec => []AnchorServesWindow
BY AnchorServes, RetentionInvariant, PTL

\* releaseTerminalRetrievalSessionV3 finds everything it checks.
LEMMA CompletionAgreed == IInv => CompletionNeverRefused
<1> DEFINE C == {s \in Stored \cap V3 : /\ InWindow(s) /\ terminal[s] = NoSeed
                                        /\ AnchorSeed(s) # NoSeed}
<1> SUFFICES ASSUME IInv, NEW E \in SUBSET C
             PROVE  TerminalOK(E)
  BY Zenon DEF CompletionNeverRefused
<1>1. ASSUME NEW s \in E
      PROVE  s \in Retained /\ terminal[s] = NoSeed /\ anchor[AnchorHeight(s)].seed # NoSeed
  BY <1>1, Zenon DEF IInv, HeldUntilReleased, InWindow, AnchorSeed
<1>2. E \in SUBSET Retained
  BY <1>1, Zenon
<1> QED BY <1>1, <1>2, ReleaseAgreed, Zenon

\* releaseTerminalRetrievalSessionV3 never refuses the message that settles the last
\* obligation of sessions in their window.
THEOREM CompletionsSucceed == Spec => []CompletionNeverRefused
BY CompletionAgreed, RetentionInvariant, PTL

\* A stored session's context never changes, a completion marker stays, and the
\* height does not go back.
LEMMA RowsKept ==
    ASSUME IInv, [Next]_retentionVars
    PROVE  /\ height \in Nat /\ height' \in Nat /\ height <= height'
           /\ Stored \subseteq Stored'
           /\ \A s \in Stored : /\ session'[s] = session[s]
                                /\ terminal[s] # NoSeed => terminal'[s] = terminal[s]
<1>1. height \in Nat
  BY RetentionConstants DEF IInv, TypeOK, Heights
<1>2. CASE \E s \in Sessions, k \in GenKeys, deadline \in Heights : Open(s, k, deadline)
  <2>1. PICK s \in Sessions, k \in GenKeys, deadline \in Heights : Open(s, k, deadline)
    BY <1>2, Zenon
  <2>2. /\ s \notin Stored /\ Stored' = Stored \cup {s}
        /\ \A t \in Sessions : t # s => session'[t] = session[t]
    BY <2>1, OpenEffect, Zenon
  <2>3. height' = height /\ terminal' = terminal
    BY <2>1, Zenon DEF Open, Retain
  <2> QED BY <1>1, <2>2, <2>3 DEF Stored
<1>3. CASE \E E \in SUBSET V3 : Complete(E)
  <2>1. PICK E \in SUBSET V3 : Complete(E)
    BY <1>3, Zenon
  <2>2. /\ height' = height /\ session' = session
        /\ \A s \in E : terminal[s] = NoSeed
        /\ \A s \in Sessions \ E : terminal'[s] = terminal[s]
    BY <2>1, Zenon DEF Complete, ReleaseTerminal, TerminalOK
  <2> QED BY <1>1, <2>2 DEF Stored
<1>4. CASE \E inv \in Inventories, hash \in Seeds \cup {NoSeed} : BeginBlock(inv, hash)
  <2>1. (height' = height + 1 \/ height' = height) /\ session' = session /\ terminal' = terminal
    BY <1>4, Zenon DEF BeginBlock, ProcessRetrievalChallengeState, sessionVars
  <2> QED BY <1>1, <2>1 DEF Stored
<1>5. CASE UNCHANGED retentionVars
  BY <1>1, <1>5 DEF retentionVars, sessionVars, Stored
<1> QED BY <1>2, <1>3, <1>4, <1>5, Zenon DEF Next

\* References come back to no session, and no completed session is marked expired.
THEOREM ReferencesReleasedOnce == Spec => ReleasedOnce
<1> DEFINE Once == \A s \in Stored : /\ s \notin Retained => s \notin Retained'
                                     /\ terminal[s] # NoSeed => s \notin expired'
<1>1. IInv /\ IInv' /\ [Next]_retentionVars => [Once]_retentionVars
  <2> SUFFICES ASSUME IInv, IInv', [Next]_retentionVars, NEW s \in Stored
               PROVE  /\ s \notin Retained => s \notin Retained'
                      /\ terminal[s] # NoSeed => s \notin expired'
    BY Zenon
  <2>1. /\ height \in Nat /\ height' \in Nat /\ height <= height' /\ s \in Stored'
        /\ session'[s] = session[s]
        /\ terminal[s] # NoSeed => terminal'[s] = terminal[s]
    BY RowsKept, Zenon
  <2>2. s \in Retained <=> height <= session[s].deadline /\ terminal[s] = NoSeed
    BY Zenon DEF IInv, HeldUntilReleased
  <2>3. s \in Retained' <=> height' <= session'[s].deadline /\ terminal'[s] = NoSeed
    BY <2>1, Zenon DEF IInv, HeldUntilReleased
  <2>4. session[s].deadline \in Int
    BY DEF IInv, TypeOK, Contexts, Stored, Heights
  <2>5. height' <= session[s].deadline => height <= session[s].deadline
    BY <2>1, <2>4
  <2>6. terminal[s] # NoSeed => s \notin expired'
    BY <2>1, Zenon DEF IInv, MarksOK
  <2> QED BY <2>1, <2>2, <2>3, <2>5, <2>6, Zenon
<1> HIDE DEF Once
<1>2. Spec => [][Once]_retentionVars
  BY <1>1, RetentionInvariant, PTL DEF Spec
<1> QED BY <1>2, Zenon DEF Once, ReleasedOnce

\* An anchor row that has been captured keeps its seed for as long as it is stored,
\* whoever opens on the next height, completes, expires or is audited meanwhile.
LEMMA CapturedKept ==
    ASSUME IInv, [Next]_retentionVars, NEW x \in Heights, x <= height, anchor'[x].stored
    PROVE  anchor'[x].seed = anchor[x].seed
<1>1. height \in Nat /\ x \in Int
  BY RetentionConstants DEF IInv, TypeOK, Heights
<1>2. CASE \E t \in Sessions, k \in GenKeys, deadline \in Heights : Open(t, k, deadline)
  <2>1. PICK t \in Sessions, k \in GenKeys, deadline \in Heights : Open(t, k, deadline)
    BY <1>2, Zenon
  <2>2. height + 1 \in Heights
    BY <2>1, OpenEffect, Zenon
  <2>3. \A h \in Heights : h # height + 1 => anchor'[h] = anchor[h]
    BY <2>1, <2>2, OpenAnchors, Zenon DEF IInv
  <2>4. x # height + 1
    BY <1>1
  <2> QED BY <2>3, <2>4, Zenon
<1>3. CASE \E E \in SUBSET V3 : Complete(E)
  <2>1. PICK E \in SUBSET V3 : Complete(E)
    BY <1>3, Zenon
  <2>2. /\ anchor' = ReleasedAnchors(anchor, E)
        /\ E \subseteq Stored
        /\ \A t \in E : terminal[t] = NoSeed /\ height <= session[t].deadline
    BY <2>1, Zenon DEF Complete, InWindow, ReleaseTerminal, TerminalOK
  <2>3. E \in SUBSET Retained /\ Retained \in SUBSET Sessions
    BY <2>2, Zenon DEF IInv, HeldUntilReleased, Retained, Stored
  <2>4. Counts(anchor, Retained)
    BY Zenon DEF IInv, Counts, TypeOK, AnchorRefsExact
  <2>5. Without(anchor, anchor', E)
    BY <2>2, <2>3, <2>4, AnchorsReleased, Zenon
  <2> QED BY <2>5, Zenon DEF Without
<1>4. CASE \E inv \in Inventories, hash \in Seeds \cup {NoSeed} : BeginBlock(inv, hash)
  <2>1. PICK inv \in Inventories, hash \in Seeds \cup {NoSeed} : BeginBlock(inv, hash)
    BY <1>4, Zenon
  <2> DEFINE h == height + 1
             E == Expiring(h)
             A == BlockAnchors(h, inv, hash)
             P == PrunedAnchors(h)
  <2>2. h \in Heights /\ (inv # {} => IsEpochStart(h))
    BY <1>1, <2>1, RetentionConstants DEF BeginBlock, Heights
  <2>3. BeginBlockOK(h, inv, hash)
    BY <2>2, BeginBlockAgreed, Zenon
  <2>4. anchor' = ReleasedAnchors(A, E)
    BY <2>1, <2>3, Zenon DEF BeginBlock, ProcessRetrievalChallengeState
  <2>5. E \in SUBSET Retained /\ Retained \in SUBSET Sessions
    BY <2>2, ExpiringExact, Zenon DEF Retained, Stored
  <2>6. Counts(A, Retained) /\ (x # h => A[x] = P[x])
    BY <2>2, BlockAnchorsExact
  <2>7. P[x].stored => P[x].seed = anchor[x].seed
    BY <2>2, PrunedExact, Zenon
  <2>8. Without(A, anchor', E)
    BY <2>4, <2>5, <2>6, AnchorsReleased, Zenon
  <2> HIDE DEF A, P, E
  <2>9. anchor'[x].seed = A[x].seed /\ A[x].stored
    BY <2>8, Zenon DEF Without
  <2>10. x # h
    BY <1>1
  <2> QED BY <2>6, <2>7, <2>9, <2>10, Zenon
<1>5. CASE UNCHANGED retentionVars
  BY <1>5, Zenon DEF retentionVars
<1> QED BY <1>2, <1>3, <1>4, <1>5, Zenon DEF Next

\* Completion keeps the seed of the anchor it releases.
LEMMA CompletionKeepsSeed ==
    ASSUME IInv, [Next]_retentionVars, NEW s \in Stored, terminal[s] = NoSeed, terminal'[s] # NoSeed
    PROVE  terminal'[s] = anchor[AnchorHeight(s)].seed
<1>1. s \in Sessions
  BY Zenon DEF Stored
<1>2. CASE \E t \in Sessions, k \in GenKeys, deadline \in Heights : Open(t, k, deadline)
  BY <1>2, Zenon DEF Open, Retain
<1>3. CASE \E E \in SUBSET V3 : Complete(E)
  <2>1. PICK E \in SUBSET V3 : Complete(E)
    BY <1>3, Zenon
  <2>2. terminal' = [t \in Sessions |-> IF t \in E THEN anchor[AnchorHeight(t)].seed ELSE terminal[t]]
    BY <2>1, Zenon DEF Complete, ReleaseTerminal
  <2> QED BY <1>1, <2>2, Zenon
<1>4. CASE \E inv \in Inventories, hash \in Seeds \cup {NoSeed} : BeginBlock(inv, hash)
  BY <1>4, Zenon DEF BeginBlock, ProcessRetrievalChallengeState, sessionVars
<1>5. CASE UNCHANGED retentionVars
  BY <1>5, Zenon DEF retentionVars, sessionVars
<1> QED BY <1>2, <1>3, <1>4, <1>5, Zenon DEF Next

\* Once its anchor is captured, a session's seed can only become unavailable: it is
\* never replaced by another, in its window or after it.
LEMMA SeedFades ==
    ASSUME IInv, IInv', [Next]_retentionVars, NEW s \in Stored, AnchorHeight(s) <= height
    PROVE  /\ (AnchorSeed(s))' \in {AnchorSeed(s), NoSeed}
           /\ \/ (AnchorSeed(s))' = AnchorSeed(s)
              \/ terminal[s] = NoSeed /\ terminal'[s] = NoSeed /\ ~anchor'[AnchorHeight(s)].stored
<1> DEFINE x == AnchorHeight(s)
<1>1. /\ height \in Nat /\ height' \in Nat /\ height <= height' /\ s \in Stored' /\ s \in Sessions
      /\ session'[s] = session[s]
      /\ terminal[s] # NoSeed => terminal'[s] = terminal[s]
  BY RowsKept, Zenon DEF Stored
<1>2. x \in Heights /\ x <= height
  <2>1. session[s].opened \in 1..height /\ height \in Heights
    BY Zenon DEF IInv, WindowsOK, TypeOK
  <2>2. MaxHeight \in Nat
    BY RetentionConstants, Zenon
  <2> QED BY <2>1, <2>2 DEF AnchorHeight, Heights
<1>3. (AnchorSeed(s))' = IF terminal'[s] # NoSeed THEN terminal'[s] ELSE anchor'[x].seed
  BY <1>1, Zenon DEF AnchorSeed, AnchorHeight
<1>4. AnchorSeed(s) = IF terminal[s] # NoSeed THEN terminal[s] ELSE anchor[x].seed
  BY Zenon DEF AnchorSeed
<1>5. terminal[s] = NoSeed /\ terminal'[s] # NoSeed => terminal'[s] = anchor[x].seed
  BY CompletionKeepsSeed, Zenon
<1>6. anchor'[x].stored => anchor'[x].seed = anchor[x].seed
  BY <1>2, CapturedKept, Zenon
<1>7. ~anchor'[x].stored => anchor'[x].seed = NoSeed
  BY <1>2, Zenon DEF IInv, CaptureOK
<1> HIDE DEF x
<1>8. /\ (AnchorSeed(s))' \in {AnchorSeed(s), NoSeed}
      /\ \/ (AnchorSeed(s))' = AnchorSeed(s)
         \/ terminal[s] = NoSeed /\ terminal'[s] = NoSeed /\ ~anchor'[x].stored
  BY <1>1, <1>3, <1>4, <1>5, <1>6, <1>7, Zenon
<1> QED BY <1>8, Zenon DEF x

\* A session not completed and still in its window keeps the seed of its anchor
\* through the completion of others and through a block.
LEMMA SeedKept ==
    ASSUME IInv, IInv', AnchorServesWindow', [Next]_retentionVars, NEW s \in Stored,
           AnchorHeight(s) <= height, height' <= session[s].deadline
    PROVE  (AnchorSeed(s))' = AnchorSeed(s)
<1> DEFINE x == AnchorHeight(s)
<1>1. s \in Stored' /\ session'[s] = session[s]
  BY RowsKept, Zenon
<1>2. terminal'[s] = NoSeed => anchor'[x].stored
  <2>1. terminal'[s] = NoSeed => s \in Retained'
    BY <1>1, Zenon DEF IInv, HeldUntilReleased
  <2> QED BY <1>1, <2>1, Zenon DEF AnchorServesWindow, AnchorHeight
<1> QED BY <1>2, SeedFades, Zenon

\* The seed a session's responses are checked against is fixed from its capture to
\* its deadline, whoever else releases the shared anchor and however it completes.
THEOREM SeedsStable == Spec => SeedStable
<1> DEFINE Same == \A s \in Stored : AnchorHeight(s) <= height /\ height' <= session[s].deadline
                                       => (AnchorSeed(s))' = AnchorSeed(s)
<1>1. IInv /\ IInv' /\ AnchorServesWindow' /\ [Next]_retentionVars => [Same]_retentionVars
  BY SeedKept, Zenon
<1> HIDE DEF Same
<1>2. Spec => [][Same]_retentionVars
  BY <1>1, RetentionInvariant, AnchorsServeWindows, PTL DEF Spec
<1> QED BY <1>2, Zenon DEF Same, SeedStable
=============================================================================
