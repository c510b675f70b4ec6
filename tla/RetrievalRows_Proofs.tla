---------------------- MODULE RetrievalRows_Proofs ----------------------
(***************************************************************************)
(* The inductive invariant of RetrievalSessionV3 and what it says of one row:*)
(* its plan, fees and samples, and what opening, answering, settling and   *)
(* refunding make of it.                                                   *)
(***************************************************************************)
EXTENDS RetrievalSessionV3, FiniteSums

(***************************************************************************)
(* Plans, fees and samples.                                                *)
(***************************************************************************)
\* A plan delivers a finite, positive number of blobs, all of represented slots.
LEMMA TuplesFinite ==
    ASSUME NEW plan \in Plans
    PROVE  /\ IsFiniteSet(Tuples(plan)) /\ IsFiniteSet(DOMAIN plan) /\ DOMAIN plan \subseteq Slots
           /\ DOMAIN plan # {}
           /\ \A c \in Tuples(plan) : c[1] \in DOMAIN plan
           /\ SampleCount(plan) \in Nat \ {0}
<1>1. /\ DOMAIN plan \in SUBSET Slots /\ DOMAIN plan # {}
      /\ \A i \in DOMAIN plan : plan[i] \in Nat \ {0}
  <2> DEFINE D == DOMAIN plan
  <2>1. D \in (SUBSET Slots) \ {{}} /\ \A i \in D : plan[i] \in Nat \ {0}
    BY V3Constants
  <2> HIDE DEF D
  <2>2. D \in SUBSET Slots /\ D # {}
    BY <2>1
  <2> QED BY <2>1, <2>2, Zenon DEF D
<1>2. IsFiniteSet(DOMAIN plan)
  BY <1>1, RetentionConstants, FS_Subset, Zenon
<1> DEFINE Part(i) == {<<i, n>> : n \in 1..plan[i]}
           P == [i \in DOMAIN plan |-> Part(i)]
           S == {Part(i) : i \in DOMAIN plan}
<1>3. \A i \in DOMAIN plan : IsFiniteSet(Part(i))
  <2> SUFFICES ASSUME NEW i \in DOMAIN plan PROVE IsFiniteSet(Part(i))
    BY Zenon
  <2> DEFINE N == 1..plan[i]
             f == [n \in N |-> <<i, n>>]
  <2>1. IsFiniteSet(N)
    BY <1>1, FS_Interval
  <2>2. f \in Surjection(N, Part(i))
    BY SMT DEF Surjection
  <2> HIDE DEF N, f
  <2> QED BY <2>1, <2>2, FS_Surjection, Zenon
<1>4. IsFiniteSet(S)
  <2> HIDE DEF Part
  <2>1. P \in Surjection(DOMAIN plan, S)
    BY SMT DEF Surjection
  <2> HIDE DEF P, S
  <2> QED BY <1>2, <2>1, FS_Surjection, Zenon
<1>5. IsFiniteSet(Tuples(plan))
  <2>1. Tuples(plan) = UNION S
    BY Zenon DEF Tuples
  <2> HIDE DEF Part
  <2>2. \A X \in S : IsFiniteSet(X)
    BY <1>3, Zenon
  <2> HIDE DEF S
  <2> QED BY <1>4, <2>1, <2>2, FS_UNION, Zenon
<1>6. \A c \in Tuples(plan) : c[1] \in DOMAIN plan
  BY SMT DEF Tuples
<1>7. Tuples(plan) # {}
  <2>1. PICK i \in DOMAIN plan : TRUE
    BY <1>1, Zenon
  <2>2. 1 \in 1..plan[i]
    BY <1>1, <2>1
  <2>3. <<i, 1>> \in Tuples(plan)
    BY <2>1, <2>2, SMT DEF Tuples
  <2> QED BY <2>3, Zenon
<1>8. Population(plan) \in Nat \ {0}
  BY <1>5, <1>7, FS_CardinalityType, FS_EmptySet DEF Population
<1>9. SampleCount(plan) \in Nat \ {0}
  BY <1>8, V3Constants DEF SampleCount
<1> QED BY <1>1, <1>2, <1>5, <1>6, <1>9, Zenon

\* The fees of some of a row's obligations: natural, and additive.
LEMMA FeeParts ==
    ASSUME NEW r \in Rows, r.plan \in Plans, NEW J \in SUBSET Represented(r), NEW I \in SUBSET J
    PROVE  /\ FeeSum(r, I) \in Nat /\ FeeSum(r, J) \in Nat
           /\ FeeSum(r, J \ I) = FeeSum(r, J) - FeeSum(r, I)
           /\ FeeSum(r, I) <= FeeSum(r, J)
           /\ \A i \in J : Fee(r, i) \in Nat
<1> DEFINE f == [i \in J |-> Fee(r, i)]
           g == [i \in I |-> Fee(r, i)]
           h == [i \in J \ I |-> Fee(r, i)]
<1>1. IsFiniteSet(J) /\ IsFiniteSet(I) /\ IsFiniteSet(J \ I)
  BY TuplesFinite, FS_Subset, Zenon DEF Represented
<1>2. \A i \in J : Fee(r, i) \in Nat
  <2> TAKE i \in J
  <2>1. r.price \in Nat
    BY Zenon DEF Rows
  <2>2. r.plan[i] \in Nat
    BY V3Constants DEF Represented
  <2> QED BY <2>1, <2>2 DEF Fee
<1>3. \A i \in J : f[i] \in Nat
  BY <1>2, Zenon
<1>4. \A i \in I : f[i] = g[i]
  BY Zenon
<1>5. \A i \in J \ I : f[i] = h[i]
  BY Zenon
<1>6. FeeSum(r, I) = SumFunctionOnSet(g, I) /\ FeeSum(r, J) = SumFunctionOnSet(f, J)
      /\ FeeSum(r, J \ I) = SumFunctionOnSet(h, J \ I)
  BY Zenon DEF FeeSum
<1> HIDE DEF f, g, h
<1>7. SumFunctionOnSet(f, I) = SumFunctionOnSet(g, I)
  BY <1>1, <1>4, SumSame
<1>8. SumFunctionOnSet(f, J \ I) = SumFunctionOnSet(h, J \ I)
  <2> DEFINE D == J \ I
  <2> HIDE DEF D
  <2>1. IsFiniteSet(D) /\ \A i \in D : f[i] = h[i]
    BY <1>1, <1>5 DEF D
  <2>2. SumFunctionOnSet(f, D) = SumFunctionOnSet(h, D)
    BY <2>1, SumSame
  <2> QED BY <2>2 DEF D
<1>9. /\ SumFunctionOnSet(f, I) \in Nat /\ SumFunctionOnSet(f, J) \in Nat
      /\ SumFunctionOnSet(f, J \ I) = SumFunctionOnSet(f, J) - SumFunctionOnSet(f, I)
      /\ SumFunctionOnSet(f, I) <= SumFunctionOnSet(f, J)
  BY <1>1, <1>3, SumPart
<1> QED BY <1>2, <1>6, <1>7, <1>8, <1>9

\* g gives the number of openings in C of each slot.
PartitionOf(g, C) == \A i \in Slots : g[i] = Cardinality({c \in C : c[1] = i})

\* The sample counts per slot add up to the number of samples, over all slots and
\* over the represented ones.
LEMMA SamplesAddUp ==
    ASSUME NEW seed \in Seeds, NEW s \in V3, NEW plan \in Plans, NEW C, C = SampleOf(seed, s, plan),
           NEW g, PartitionOf(g, C)
    PROVE  /\ IsFiniteSet(C) /\ C \subseteq Tuples(plan) /\ Cardinality(C) = SampleCount(plan)
           /\ \A i \in Slots : g[i] \in Nat
           /\ SumFunctionOnSet(g, Slots) = SampleCount(plan)
           /\ SumFunctionOnSet(g, DOMAIN plan) = SampleCount(plan)
<1>1. C \subseteq Tuples(plan) /\ Cardinality(C) = SampleCount(plan)
  BY V3Constants
<1>2. IsFiniteSet(C) /\ \A c \in C : c[1] \in DOMAIN plan
  BY <1>1, TuplesFinite, FS_Subset, Zenon
<1>3. IsFiniteSet(DOMAIN plan) /\ DOMAIN plan \subseteq Slots /\ IsFiniteSet(Slots) /\ SampleCount(plan) \in Nat
  BY TuplesFinite, RetentionConstants
<1> DEFINE one == [c \in C |-> 1]
           key == [c \in C |-> c[1]]
<1>4. ASSUME NEW i \in Slots
      PROVE  g[i] = SumFunctionOnSet(one, {c \in C : key[c] = i}) /\ g[i] \in Nat
  <2> DEFINE Q == {c \in C : c[1] = i}
  <2>1. Q = {c \in C : key[c] = i}
    BY Zenon
  <2>2. IsFiniteSet(Q) /\ \A c \in Q : one[c] = 1
    BY <1>2, FS_Subset, Zenon
  <2>3. g[i] = Cardinality(Q)
    BY Zenon DEF PartitionOf
  <2> HIDE DEF Q, one, key
  <2>4. Cardinality(Q) \in Nat
    BY <2>2, FS_CardinalityType
  <2>5. SumFunctionOnSet(one, Q) = 1 * Cardinality(Q)
    BY <2>2, SumConstant
  <2> QED BY <2>1, <2>3, <2>4, <2>5
<1>5. \A c \in C : one[c] = 1 /\ key[c] \in DOMAIN plan
  BY <1>2, Zenon
<1> HIDE DEF one, key
<1>6. SumFunctionOnSet(one, C) = 1 * Cardinality(C)
  BY <1>2, <1>5, SumConstant
<1>7. ASSUME NEW A, IsFiniteSet(A), A \subseteq Slots, DOMAIN plan \subseteq A
      PROVE  SumFunctionOnSet(g, A) = SampleCount(plan)
  <2>1. \A c \in C : one[c] \in Int /\ key[c] \in A
    BY <1>5, <1>7
  <2>2. Grouped(one, key, g, C, A)
    BY <1>4, <1>7, <2>1, Zenon DEF Grouped
  <2>3. SumFunctionOnSet(g, A) = SumFunctionOnSet(one, C)
    BY <1>2, <1>7, <2>1, <2>2, SumByKey
  <2> QED BY <1>1, <1>3, <1>6, <2>3
<1>8. SumFunctionOnSet(g, Slots) = SampleCount(plan) /\ SumFunctionOnSet(g, DOMAIN plan) = SampleCount(plan)
  BY <1>3, <1>7
<1> QED BY <1>1, <1>2, <1>4, <1>8

\* A row's fields have their types.
LEMMA RowFields ==
    ASSUME NEW r \in Rows
    PROVE  /\ r.price \in Nat /\ r.burn \in 0..BasisPoints /\ r.locked \in Nat
           /\ r.acked \in SUBSET Slots /\ r.settled \in SUBSET Slots /\ r.refunded \in SUBSET Slots
           /\ r.samples \in [Slots -> Nat]
BY Zenon DEF Rows

\* A rate of 10000 basis points is the whole.
LEMMA WholeRate == BasisPoints \in Nat /\ BasisPoints > 0
BY SMT DEF BasisPoints

\* The row of a session not opened.
LEMMA NoRowFields ==
    /\ NoRow \in Rows /\ NoRow.locked = 0 /\ NoRow.settled = {} /\ NoRow.refunded = {}
    /\ NoRow.samples = [i \in Slots |-> 0] /\ Represented(NoRow) = {} /\ Unresolved(NoRow) = {}
<1>1. NoRow \in Rows
  BY WholeRate, SMT DEF NoRow, Rows
<1>2. Represented(NoRow) = {}
  BY SMT DEF NoRow, Represented, EmptyPlan
<1>3. /\ NoRow.locked = 0 /\ NoRow.settled = {} /\ NoRow.refunded = {}
      /\ NoRow.samples = [i \in Slots |-> 0]
  BY SMT DEF NoRow
<1> QED BY <1>1, <1>2, <1>3, Zenon DEF Unresolved

\* ceilBPS never exceeds the amount: a settlement burns at most the fee.
LEMMA BurnWithinFee ==
    ASSUME NEW amount \in Nat, NEW bps \in 0..BasisPoints
    PROVE  CeilBPS(amount, bps) \in Nat /\ CeilBPS(amount, bps) <= amount
<1> DEFINE N == BasisPoints
<1>0. N \in Nat \ {0}
  BY WholeRate
<1> DEFINE q == amount \div N
           m == amount % N
<1> HIDE DEF N
<1>1. q \in Nat /\ m \in 0..(N - 1) /\ amount = N * q + m
  BY <1>0
<1>2. bps \in 0..N
  BY DEF N
<1> HIDE DEF q, m
<1>3. ASSUME NEW n \in Nat
      PROVE  n * bps \in Nat /\ n * bps <= n * N
  BY <1>0, <1>2, SMT
<1> DEFINE a == q * bps
           b == m * bps
<1>4. a \in Nat /\ a <= q * N /\ b \in Nat /\ b <= m * N
  BY <1>1, <1>3
<1> HIDE DEF a, b
<1> DEFINE d == (b + (N - 1)) \div N
<1>5. d \in Nat /\ N * d <= b + (N - 1)
  BY <1>0, <1>4
<1> HIDE DEF d
<1>6. d <= m
  <2> SUFFICES ASSUME d >= m + 1 PROVE FALSE
    BY <1>0, <1>1, <1>5
  <2>1. N * d >= N * (m + 1)
    BY <1>0, <1>1, <1>5
  <2>2. N * (m + 1) = m * N + N
    BY <1>0, <1>1
  <2> QED BY <1>0, <1>1, <1>4, <1>5, <2>1, <2>2
<1>7. a + d \in Nat /\ a + d <= amount
  BY <1>0, <1>1, <1>4, <1>5, <1>6
<1>8. CeilBPS(amount, bps) = a + d
  BY Zenon DEF CeilBPS, a, b, d, q, m, N
<1> QED BY <1>7, <1>8

(***************************************************************************)
(* The inductive invariant.                                                *)
(***************************************************************************)
\* A row nobody has answered.
Pristine(r) == r.samples = NoRow.samples /\ r.accepted = {} /\ r.acked = {} /\ r.settled = {}

\* A row answered against the seed q.
Answered(q, s, r) ==
    /\ r.samples = [i \in Slots |-> Cardinality({c \in SampleOf(q, s, r.plan) : c[1] = i})]
    /\ r.accepted \subseteq SampleOf(q, s, r.plan)
    /\ \A i \in r.settled : {c \in SampleOf(q, s, r.plan) : c[1] = i} \subseteq r.accepted

\* The masks and the locked fee agree.
Masks(r) ==
    /\ r.acked \cup r.settled \cup r.refunded \subseteq Represented(r)
    /\ r.settled \cap r.refunded = {}
    /\ r.settled \subseteq r.acked
    /\ r.locked = FeeSum(r, Unresolved(r))

\* Whatever a row holds was recorded against the one seed its session ever has.
EvidenceOf(s) ==
    \/ Pristine(row[s])
    \/ /\ AnchorHeight(s) <= height
       /\ \E q \in Seeds : Answered(q, s, row[s]) /\ AnchorSeed(s) \in {q, NoSeed}

\* A completed row is exactly one with the completion marker.
RowOK(s) ==
    /\ row[s].plan \in Plans /\ row[s].funding \in {"escrow", "requester"}
    /\ Masks(row[s])
    /\ EvidenceOf(s)
    /\ terminal[s] # NoSeed <=> FullySettled(row[s])
    /\ session[s].deadline <= DealEnd[DealOf(s)]

RowsOK ==
    /\ row \in [Sessions -> Rows]
    /\ \A s \in Sessions \ Stored : row[s] = NoRow
    /\ \A s \in Stored : RowOK(s)

DealsOK ==
    /\ lastNonce \in [Accounts \X Deals -> Nonces \cup {0}]
    /\ admitted \in [Deals -> Generations]
    /\ policy \in [Deals -> Policies] /\ pricing \in Pricings

LockedFees == SumFunctionOnSet([s \in Sessions |-> row[s].locked], Sessions)

MoneyOK ==
    /\ escrow \in [Deals -> Nat] /\ bank \in [Accounts -> Nat] /\ burned \in Nat
    /\ module = SumFunctionOnSet(escrow, Deals) + LockedFees
    /\ module + burned + SumFunctionOnSet(bank, Accounts)
         = InitBank * Cardinality(Accounts) + InitEscrow * Cardinality(Deals)

VouchersOK ==
    /\ usedVouchers \subseteq Deals \X {v.nonce : v \in Vouchers}
    /\ IsFiniteSet(usedVouchers)
    /\ VoucherFundsOneSession

V3IInv == IInv /\ RowsOK /\ DealsOK /\ MoneyOK /\ VouchersOK

\* An answered row holds a full sample partition, and no more openings than samples.
LEMMA AnsweredRow ==
    ASSUME NEW r \in Rows, r.plan \in Plans, NEW q \in Seeds, NEW s \in V3, Answered(q, s, r)
    PROVE  /\ SumFunctionOnSet(r.samples, Slots) = SampleCount(r.plan)
           /\ SumFunctionOnSet(r.samples, DOMAIN r.plan) = SampleCount(r.plan)
           /\ r.accepted \subseteq Tuples(r.plan)
           /\ Cardinality(r.accepted) <= SampleCount(r.plan)
           /\ SampleCount(r.plan) \in Nat \ {0}
<1> DEFINE C == SampleOf(q, s, r.plan)
           g == r.samples
           plan == r.plan
<1>1. PartitionOf(g, C)
  BY Zenon DEF Answered, PartitionOf
<1>2. plan \in Plans /\ C = SampleOf(q, s, plan)
  BY Zenon
<1>3. r.accepted \subseteq C
  BY Zenon DEF Answered
<1> HIDE DEF C, g, plan
<1>4. /\ IsFiniteSet(C) /\ C \subseteq Tuples(plan) /\ Cardinality(C) = SampleCount(plan)
      /\ SumFunctionOnSet(g, Slots) = SampleCount(plan)
      /\ SumFunctionOnSet(g, DOMAIN plan) = SampleCount(plan)
  BY <1>1, <1>2, SamplesAddUp, Zenon
<1>5. Cardinality(r.accepted) <= Cardinality(C)
  BY <1>3, <1>4, FS_Subset, Zenon
<1>6. SampleCount(plan) \in Nat \ {0}
  BY <1>2, TuplesFinite
<1>7. r.accepted \subseteq Tuples(plan) /\ Cardinality(r.accepted) <= SampleCount(plan)
  BY <1>3, <1>4, <1>5, Zenon
<1> QED BY <1>4, <1>6, <1>7, Zenon DEF g, plan

\* A row nobody has answered has an empty partition.
LEMMA PristineRow ==
    ASSUME NEW r \in Rows, r.plan \in Plans, Pristine(r)
    PROVE  /\ SumFunctionOnSet(r.samples, Slots) = 0
           /\ SumFunctionOnSet(r.samples, DOMAIN r.plan) = 0
           /\ r.accepted \subseteq Tuples(r.plan)
           /\ Cardinality(r.accepted) = 0
           /\ SampleCount(r.plan) \in Nat \ {0}
<1> DEFINE g == r.samples
           plan == r.plan
<1>1. \A i \in Slots : g[i] = 0
  BY NoRowFields, Zenon DEF Pristine
<1>2. plan \in Plans
  BY Zenon
<1>3. r.accepted = {}
  BY Zenon DEF Pristine
<1> HIDE DEF g, plan
<1>4. IsFiniteSet(DOMAIN plan) /\ DOMAIN plan \subseteq Slots /\ SampleCount(plan) \in Nat \ {0}
  BY <1>2, TuplesFinite
<1>5. ASSUME NEW A, IsFiniteSet(A), A \subseteq Slots
      PROVE  SumFunctionOnSet(g, A) = 0
  <2>1. \A x \in A : g[x] = 0
    BY <1>1, <1>5, Zenon
  <2>2. SumFunctionOnSet(g, A) = 0 * Cardinality(A)
    BY <1>5, <2>1, SumConstant
  <2>3. Cardinality(A) \in Nat
    BY <1>5, FS_CardinalityType, Zenon
  <2> QED BY <2>2, <2>3
<1>6. SumFunctionOnSet(g, Slots) = 0 /\ SumFunctionOnSet(g, DOMAIN plan) = 0
  BY <1>4, <1>5, RetentionConstants
<1>7. Cardinality(r.accepted) = 0
  BY <1>3, FS_EmptySet, Zenon
<1> QED BY <1>3, <1>4, <1>6, <1>7, Zenon DEF g, plan

\* What a stored row's evidence says of its masks and counts.
LEMMA StoredRow ==
    ASSUME V3IInv, NEW s \in Stored
    PROVE  /\ s \in Sessions /\ s \in V3 /\ row[s] \in Rows /\ row[s].plan \in Plans /\ Masks(row[s])
           /\ ValidRow(row[s])
           /\ row[s].accepted \subseteq Tuples(row[s].plan)
           /\ Cardinality(row[s].accepted) <= SampleCount(row[s].plan)
           /\ StoredSamples(row[s]) \in {0, SampleCount(row[s].plan)}
           /\ StateMaterialized(row[s]) => StoredSamples(row[s]) # 0
           /\ ResponseSeed(s) = AnchorSeed(s)
<1>1. /\ s \in Sessions /\ s \in V3 /\ row[s] \in Rows /\ row[s].plan \in Plans /\ Masks(row[s])
      /\ EvidenceOf(s) /\ (terminal[s] # NoSeed <=> FullySettled(row[s]))
  BY V3Constants, Zenon DEF V3IInv, RowsOK, RowOK, Stored
<1>2. ResponseSeed(s) = AnchorSeed(s)
  BY <1>1, Zenon DEF ResponseSeed, AnchorSeed
<1> DEFINE r == row[s]
<1>3. CASE Pristine(r)
  <2>1. /\ SumFunctionOnSet(r.samples, Slots) = 0
        /\ SumFunctionOnSet(r.samples, DOMAIN r.plan) = 0
        /\ r.accepted \subseteq Tuples(r.plan)
        /\ Cardinality(r.accepted) = 0 /\ SampleCount(r.plan) \in Nat \ {0}
    BY <1>1, <1>3, PristineRow, Zenon
  <2>2. ~StateMaterialized(r)
    BY <1>3, Zenon DEF Pristine, StateMaterialized
  <2>3. Cardinality(r.accepted) <= SampleCount(r.plan)
    BY <2>1
  <2>4. ValidRow(r) /\ StoredSamples(r) \in {0, SampleCount(r.plan)}
    BY <1>1, <2>1, Zenon DEF ValidRow, Masks, StoredSamples, Represented
  <2> QED BY <1>1, <1>2, <2>1, <2>2, <2>3, <2>4, Zenon
<1>4. CASE \E q \in Seeds : Answered(q, s, r)
  <2>1. /\ SumFunctionOnSet(r.samples, Slots) = SampleCount(r.plan)
        /\ SumFunctionOnSet(r.samples, DOMAIN r.plan) = SampleCount(r.plan)
        /\ r.accepted \subseteq Tuples(r.plan)
        /\ Cardinality(r.accepted) <= SampleCount(r.plan) /\ SampleCount(r.plan) \in Nat \ {0}
    BY <1>1, <1>4, AnsweredRow, Zenon
  <2>2. ValidRow(r) /\ StoredSamples(r) \in {0, SampleCount(r.plan)} /\ StoredSamples(r) # 0
    BY <1>1, <2>1, Zenon DEF ValidRow, Masks, StoredSamples, Represented
  <2> QED BY <1>1, <1>2, <2>1, <2>2, Zenon
<1> QED BY <1>1, <1>3, <1>4, Zenon DEF EvidenceOf

\* The chain runs, and every session is a v3 session.
LEMMA Running ==
    ASSUME V3IInv
    PROVE  /\ Stored \subseteq Sessions /\ Stored \subseteq V3 /\ Sessions = V3
           /\ IInv /\ ~halted /\ height \in Nat /\ height \in Heights
<1>1. IInv
  BY Zenon DEF V3IInv
<1>2. Stored \subseteq Sessions /\ Sessions = V3
  BY V3Constants, Zenon DEF Stored
<1>3. ~halted /\ height \in Heights
  BY <1>1, Zenon DEF IInv, BeginBlockNeverFails, TypeOK
<1>4. height \in Nat
  BY <1>3, RetentionConstants DEF Heights
<1> QED BY <1>1, <1>2, <1>3, <1>4, Zenon

\* The seed of a stored session, once known, is a header hash.
LEMMA SeedType ==
    ASSUME IInv, NEW s \in Stored
    PROVE  AnchorSeed(s) \in Seeds \cup {NoSeed} /\ AnchorHeight(s) \in Heights
<1>1. /\ s \in Sessions /\ session[s].opened \in 1..height /\ session[s].opened + 2 <= session[s].deadline
      /\ session[s].deadline < MaxHeight /\ height \in Heights /\ session[s] \in Contexts
  BY Zenon DEF IInv, WindowsOK, TypeOK, Stored
<1>2. session[s].deadline \in Heights
  BY <1>1, Zenon DEF Contexts
<1>3. AnchorHeight(s) \in Heights
  BY <1>1, <1>2, RetentionConstants DEF AnchorHeight, Heights
<1>4. terminal[s] \in Seeds \cup {NoSeed} /\ anchor[AnchorHeight(s)].seed \in Seeds \cup {NoSeed}
  BY <1>1, <1>3, Zenon DEF IInv, TypeOK, AnchorRows
<1> QED BY <1>3, <1>4, Zenon DEF AnchorSeed

\* While the seed is known, the challenges are fixed, and the row's evidence is
\* evidence for them.
LEMMA KnownChallenges ==
    ASSUME V3IInv, NEW s \in Stored, ResponseSeed(s) # NoSeed
    PROVE  /\ ResponseSeed(s) \in Seeds /\ ResponseSeed(s) = AnchorSeed(s)
           /\ Challenges(s) \subseteq Tuples(row[s].plan)
           /\ SampleCounts(s) \in [Slots -> Nat]
           /\ row[s].samples \in {NoRow.samples, SampleCounts(s)}
           /\ row[s].accepted \subseteq Challenges(s)
           /\ \A i \in row[s].settled : SlotChallenges(s, i) \subseteq row[s].accepted
<1> DEFINE q == ResponseSeed(s)
           C == Challenges(s)
           plan == row[s].plan
<1>1. s \in V3 /\ s \in Sessions /\ plan \in Plans /\ q = AnchorSeed(s) /\ EvidenceOf(s)
  BY StoredRow, Zenon DEF V3IInv, RowsOK, RowOK
<1>2. q \in Seeds
  BY <1>1, SeedType, Zenon DEF V3IInv
<1>3. C = SampleOf(q, s, plan)
  BY Zenon DEF Challenges
<1>4. \A i \in Slots : SampleCounts(s)[i] = Cardinality({c \in C : c[1] = i})
  BY Zenon DEF SampleCounts, SlotChallenges
<1>5. PartitionOf(SampleCounts(s), C)
  BY <1>4, Zenon DEF PartitionOf
<1>6. SampleCounts(s) = [i \in Slots |-> SampleCounts(s)[i]]
  BY Zenon DEF SampleCounts
<1>7. C \subseteq Tuples(plan) /\ \A i \in Slots : SampleCounts(s)[i] \in Nat
  <2> DEFINE g == SampleCounts(s)
  <2> HIDE DEF q, C, plan, g
  <2> QED BY <1>1, <1>2, <1>3, <1>5, SamplesAddUp, Zenon DEF g
<1>8. SampleCounts(s) \in [Slots -> Nat]
  BY <1>6, <1>7, Zenon
<1>9. CASE Pristine(row[s])
  BY <1>1, <1>2, <1>7, <1>8, <1>9, Zenon DEF Pristine
<1>10. CASE \E p \in Seeds : Answered(p, s, row[s]) /\ AnchorSeed(s) \in {p, NoSeed}
  <2>1. Answered(q, s, row[s])
    BY <1>1, <1>10, Zenon
  <2>2. row[s].samples = SampleCounts(s)
    BY <1>3, <2>1, Zenon DEF Answered, SampleCounts, SlotChallenges
  <2>3. row[s].accepted \subseteq C /\ \A i \in row[s].settled : SlotChallenges(s, i) \subseteq row[s].accepted
    BY <1>3, <2>1, Zenon DEF Answered, SlotChallenges
  <2> QED BY <1>1, <1>2, <1>7, <1>8, <2>2, <2>3, Zenon
<1> QED BY <1>1, <1>9, <1>10, Zenon DEF EvidenceOf

(***************************************************************************)
(* Responses.  The three messages record bits in rows and then settle.     *)
(***************************************************************************)
\* u is the row of s with the bits of a message recorded.
Recorded(s, u) ==
    /\ u \in Rows
    /\ u.plan = row[s].plan /\ u.funding = row[s].funding
    /\ u.price = row[s].price /\ u.burn = row[s].burn /\ u.locked = row[s].locked
    /\ u.settled = row[s].settled /\ u.refunded = row[s].refunded
    /\ row[s].acked \subseteq u.acked /\ u.acked \subseteq Represented(row[s])
    /\ row[s].accepted \subseteq u.accepted /\ u.accepted \subseteq Challenges(s)
    /\ u.samples = SampleCounts(s)

ResponseOK(D, upd) ==
    /\ D \in SUBSET (Stored \X Slots)
    /\ \A p \in D : Answerable(p[1], p[2]) /\ Recorded(p[1], upd[p[1]])

\* Accepted openings are recorded.
LEMMA ProofRecorded ==
    ASSUME V3IInv, NEW s \in Stored, ResponseSeed(s) # NoSeed, NEW C \in SUBSET Challenges(s)
    PROVE  Recorded(s, [row[s] EXCEPT !.accepted = @ \cup C, !.samples = SampleCounts(s)])
<1> DEFINE r == row[s]
           X == r.accepted \cup C
           Y == SampleCounts(s)
           u == [r EXCEPT !.accepted = X, !.samples = Y]
<1>1. /\ r \in Rows /\ r.plan \in Plans /\ r.acked \subseteq Represented(r)
      /\ Challenges(s) \subseteq Tuples(r.plan) /\ Y \in [Slots -> Nat] /\ r.accepted \subseteq Challenges(s)
  BY StoredRow, KnownChallenges, Zenon DEF Masks
<1>2. X \in SUBSET UNION {Tuples(plan) : plan \in Plans} /\ X \subseteq Challenges(s) /\ r.accepted \subseteq X
  BY <1>1, Zenon
<1> HIDE DEF r, X, Y
<1>3. u \in Rows
  BY <1>1, <1>2, Zenon DEF Rows
<1>4. /\ u.plan = r.plan /\ u.funding = r.funding /\ u.price = r.price /\ u.burn = r.burn /\ u.locked = r.locked
      /\ u.settled = r.settled /\ u.refunded = r.refunded /\ u.acked = r.acked
      /\ u.accepted = X /\ u.samples = Y
  BY <1>1, SMT DEF Rows
<1>5. u = [row[s] EXCEPT !.accepted = @ \cup C, !.samples = SampleCounts(s)]
  BY Zenon DEF r, X, Y
<1> HIDE DEF u
<1>6. Recorded(s, u)
  BY <1>1, <1>2, <1>3, <1>4, Zenon DEF Recorded, r, Y
<1> QED BY <1>5, <1>6

\* An acknowledgement is recorded.
LEMMA AckRecorded ==
    ASSUME V3IInv, NEW s \in Stored, ResponseSeed(s) # NoSeed, NEW i \in Represented(row[s])
    PROVE  Recorded(s, [row[s] EXCEPT !.acked = @ \cup {i}, !.samples = SampleCounts(s)])
<1> DEFINE r == row[s]
           X == r.acked \cup {i}
           Y == SampleCounts(s)
           u == [r EXCEPT !.acked = X, !.samples = Y]
<1>1. /\ r \in Rows /\ r.plan \in Plans /\ r.acked \subseteq Represented(r)
      /\ Y \in [Slots -> Nat] /\ r.accepted \subseteq Challenges(s)
  BY StoredRow, KnownChallenges, Zenon DEF Masks
<1>2. X \in SUBSET Slots /\ X \subseteq Represented(r) /\ r.acked \subseteq X
  BY <1>1, TuplesFinite, Zenon DEF Represented
<1> HIDE DEF r, X, Y
<1>3. u \in Rows
  BY <1>1, <1>2, Zenon DEF Rows
<1>4. /\ u.plan = r.plan /\ u.funding = r.funding /\ u.price = r.price /\ u.burn = r.burn /\ u.locked = r.locked
      /\ u.settled = r.settled /\ u.refunded = r.refunded /\ u.accepted = r.accepted
      /\ u.acked = X /\ u.samples = Y
  BY <1>1, SMT DEF Rows
<1>5. u = [row[s] EXCEPT !.acked = @ \cup {i}, !.samples = SampleCounts(s)]
  BY Zenon DEF r, X, Y
<1> HIDE DEF u
<1>6. Recorded(s, u)
  BY <1>1, <1>2, <1>3, <1>4, Zenon DEF Recorded, r, Y
<1> QED BY <1>5, <1>6

\* The proofs of one message, over any of the sessions, are recorded.
LEMMA ProofsRecorded ==
    ASSUME V3IInv, NEW proofs, DOMAIN proofs \in SUBSET (Stored \X Slots),
           \A p \in DOMAIN proofs : /\ ResponseSeed(p[1]) # NoSeed
                                    /\ proofs[p] \subseteq SlotChallenges(p[1], p[2])
    PROVE  \A p \in DOMAIN proofs : Recorded(p[1], Accepted(proofs)[p[1]])
<1> SUFFICES ASSUME NEW p \in DOMAIN proofs PROVE Recorded(p[1], Accepted(proofs)[p[1]])
  BY Zenon
<1> DEFINE s == p[1]
           C == UNION {proofs[x] : x \in {q \in DOMAIN proofs : q[1] = s}}
<1>1. s \in Stored /\ ResponseSeed(s) # NoSeed
  BY SMT
<1>2. C \in SUBSET Challenges(s)
  <2>1. \A q \in DOMAIN proofs : q[1] = s => proofs[q] \subseteq Challenges(s)
    BY Zenon DEF SlotChallenges
  <2> HIDE DEF s
  <2> QED BY <2>1, SMT
<1>3. Accepted(proofs)[s] = [row[s] EXCEPT !.accepted = @ \cup C, !.samples = SampleCounts(s)]
  BY Zenon DEF Accepted
<1> HIDE DEF s, C
<1>4. Recorded(s, [row[s] EXCEPT !.accepted = @ \cup C, !.samples = SampleCounts(s)])
  BY <1>1, <1>2, ProofRecorded
<1> QED BY ONLY <1>3, <1>4 DEF s

\* Some provider's proof, batch of proofs, or an acknowledgement.
Response ==
    \/ \E s \in Seeded, i \in Slots :
         \/ \E T \in SUBSET SlotChallenges(s, i) : SubmitRetrievalSessionProofV3(s, i, T)
         \/ AcknowledgeRetrievalObligationV3(s, i)
    \/ \E a \in Accounts : \E proofs \in Batches(a) : SubmitRetrievalSessionProofBatchV3(a, proofs)

\* Every response answers obligations that may be answered and records its bits.
LEMMA ResponsesRecorded ==
    ASSUME V3IInv, Response
    PROVE  \E D, upd : ResponseOK(D, upd) /\ Respond(D, upd)
<1>1. ASSUME NEW s \in Seeded, NEW i \in Slots, NEW T \in SUBSET SlotChallenges(s, i),
             SubmitRetrievalSessionProofV3(s, i, T)
      PROVE  \E D, upd : ResponseOK(D, upd) /\ Respond(D, upd)
  <2> DEFINE D == {<<s, i>>}
             proofs == [p \in D |-> T]
             upd == Accepted(proofs)
  <2>1. Answerable(s, i) /\ Respond(D, upd)
    BY <1>1, Zenon DEF SubmitRetrievalSessionProofV3
  <2>2. DOMAIN proofs = D /\ D \in SUBSET (Stored \X Slots)
    BY SMT DEF Seeded
  <2>3. \A p \in D : p[1] = s /\ p[2] = i
    BY SMT
  <2>4. \A p \in D : ResponseSeed(p[1]) # NoSeed /\ proofs[p] \subseteq SlotChallenges(p[1], p[2])
    BY <2>3, Zenon DEF Seeded
  <2>5. \A p \in D : Answerable(p[1], p[2])
    BY <2>1, <2>3, Zenon
  <2> HIDE DEF D, proofs
  <2>6. \A p \in D : Recorded(p[1], upd[p[1]])
    BY <2>2, <2>4, ProofsRecorded, Zenon
  <2>7. ResponseOK(D, upd)
    BY <2>2, <2>5, <2>6, Zenon DEF ResponseOK
  <2> QED BY <2>1, <2>7, Zenon
<1>2. ASSUME NEW s \in Seeded, NEW i \in Slots, AcknowledgeRetrievalObligationV3(s, i)
      PROVE  \E D, upd : ResponseOK(D, upd) /\ Respond(D, upd)
  <2> DEFINE D == {<<s, i>>}
             u == [row[s] EXCEPT !.acked = @ \cup {i}, !.samples = SampleCounts(s)]
             upd == [x \in {s} |-> u]
  <2>1. Answerable(s, i) /\ Respond(D, upd) /\ s \in Stored /\ ResponseSeed(s) # NoSeed
    BY <1>2, Zenon DEF AcknowledgeRetrievalObligationV3, Seeded
  <2>2. D \in SUBSET (Stored \X Slots)
    BY <2>1, SMT
  <2>3. \A p \in D : p[1] = s /\ p[2] = i
    BY SMT
  <2>4. Recorded(s, u)
    BY <2>1, AckRecorded, Zenon DEF Answerable
  <2>5. upd[s] = u
    BY Zenon
  <2> HIDE DEF D, upd, u
  <2>6. \A p \in D : Answerable(p[1], p[2]) /\ Recorded(p[1], upd[p[1]])
    BY <2>1, <2>3, <2>4, <2>5, Zenon
  <2>7. ResponseOK(D, upd)
    BY <2>2, <2>6, Zenon DEF ResponseOK
  <2> QED BY <2>1, <2>7, Zenon
<1>3. ASSUME NEW a \in Accounts, NEW proofs \in Batches(a), SubmitRetrievalSessionProofBatchV3(a, proofs)
      PROVE  \E D, upd : ResponseOK(D, upd) /\ Respond(D, upd)
  <2> DEFINE D == DOMAIN proofs
             upd == Accepted(proofs)
  <2>1. /\ \A p \in D : Answerable(p[1], p[2]) /\ proofs[p] \subseteq SlotChallenges(p[1], p[2])
        /\ Respond(D, upd)
    BY <1>3, Zenon DEF SubmitRetrievalSessionProofBatchV3
  <2>2. D \in SUBSET (Seeded \X Slots)
    BY SMT DEF Batches
  <2>3. D \in SUBSET (Stored \X Slots) /\ \A p \in D : ResponseSeed(p[1]) # NoSeed
    BY <2>2, SMT DEF Seeded
  <2>4. \A p \in D : Recorded(p[1], upd[p[1]])
    BY <2>1, <2>3, ProofsRecorded, Zenon
  <2> HIDE DEF D, upd
  <2>5. ResponseOK(D, upd)
    BY <2>1, <2>3, <2>4, Zenon DEF ResponseOK
  <2> QED BY <2>1, <2>5, Zenon
<1> QED BY <1>1, <1>2, <1>3, Zenon DEF Response

\* Fees depend on the plan and the frozen price alone.
LEMMA FeeSame ==
    ASSUME NEW r, NEW u, u.price = r.price, u.plan = r.plan
    PROVE  /\ Represented(u) = Represented(r)
           /\ \A i : Fee(u, i) = Fee(r, i)
           /\ \A I : FeeSum(u, I) = FeeSum(r, I)
BY Zenon DEF Represented, Fee, FeeSum

\* Every obligation of I is due for payment.
AllSettle(s, u, I) == \A i \in I : Settles(s, u, i)

\* x is the row of s after its obligations I were paid.
Paid(s, I, x) ==
    /\ x \in Rows
    /\ x.plan = row[s].plan /\ x.funding = row[s].funding
    /\ x.price = row[s].price /\ x.burn = row[s].burn
    /\ x.settled = row[s].settled \cup I /\ x.refunded = row[s].refunded
    /\ x.locked = row[s].locked - FeeSum(row[s], I)
    /\ I \subseteq Unresolved(row[s]) /\ Unresolved(x) = Unresolved(row[s]) \ I

\* Settling the obligations I of a recorded row: each was open, its fee leaves the
\* locked total, and the row stays one answered against the session's seed.
LEMMA RowSettles ==
    ASSUME V3IInv, NEW s \in Stored, ResponseSeed(s) # NoSeed, NEW u, Recorded(s, u),
           NEW I \in SUBSET Slots, AllSettle(s, u, I), NEW x, x = Settled(u, I)
    PROVE  /\ Paid(s, I, x)
           /\ Masks(x) /\ Answered(ResponseSeed(s), s, x)
<1> DEFINE r == row[s]
           J == Unresolved(r)
           S == u.settled \cup I
           n == u.locked - FeeSum(u, I)
<1>1. /\ r \in Rows /\ r.plan \in Plans /\ Masks(r) /\ u \in Rows
      /\ u.plan = r.plan /\ u.funding = r.funding /\ u.price = r.price /\ u.burn = r.burn
      /\ u.locked = r.locked /\ u.settled = r.settled /\ u.refunded = r.refunded
      /\ r.acked \subseteq u.acked /\ u.acked \subseteq Represented(r)
      /\ r.accepted \subseteq u.accepted /\ u.accepted \subseteq Challenges(s) /\ u.samples = SampleCounts(s)
  BY StoredRow, Zenon DEF Recorded
<1>2. I \subseteq J /\ I \subseteq u.acked /\ \A i \in I : SlotChallenges(s, i) \subseteq u.accepted
  BY <1>1, Zenon DEF AllSettle, Settles, Unresolved
<1>3. FeeSum(u, I) = FeeSum(r, I)
  BY <1>1, FeeSame, Zenon
<1>4. J \in SUBSET Represented(r) /\ I \in SUBSET J
  BY <1>2, Zenon DEF Unresolved
<1>5. FeeSum(r, I) \in Nat /\ FeeSum(r, J) \in Nat /\ FeeSum(r, I) <= FeeSum(r, J)
      /\ FeeSum(r, J \ I) = FeeSum(r, J) - FeeSum(r, I)
  BY <1>1, <1>4, FeeParts, Zenon
<1>6. r.locked = FeeSum(r, J)
  BY <1>1, Zenon DEF Masks
<1>7. n \in Nat /\ n = r.locked - FeeSum(r, I) /\ n = FeeSum(r, J \ I)
  BY <1>1, <1>3, <1>5, <1>6
<1>8. S \in SUBSET Slots
  BY <1>1, RowFields, Zenon
<1>9. x = [u EXCEPT !.settled = S, !.locked = n]
  BY Zenon DEF Settled
<1> HIDE DEF S, n
<1>10. x \in Rows
  BY <1>1, <1>7, <1>8, <1>9, Zenon DEF Rows
<1>11. /\ x.plan = u.plan /\ x.funding = u.funding /\ x.price = u.price /\ x.burn = u.burn
       /\ x.acked = u.acked /\ x.refunded = u.refunded /\ x.accepted = u.accepted /\ x.samples = u.samples
       /\ x.settled = S /\ x.locked = n
  BY <1>1, <1>9, SMT DEF Rows
<1>12. /\ x.plan = r.plan /\ x.funding = r.funding /\ x.price = r.price /\ x.burn = r.burn
       /\ x.settled = r.settled \cup I /\ x.refunded = r.refunded /\ x.locked = r.locked - FeeSum(r, I)
  BY <1>1, <1>7, <1>11, Zenon DEF S
<1>13. Represented(x) = Represented(r) /\ Unresolved(x) = J \ I
  BY <1>12, Zenon DEF Represented, Unresolved
<1>14. FeeSum(x, J \ I) = FeeSum(r, J \ I)
  BY <1>12, FeeSame, Zenon
<1>15. x.locked = FeeSum(x, Unresolved(x))
  BY <1>7, <1>11, <1>13, <1>14, Zenon
<1>16. Masks(x)
  BY <1>1, <1>2, <1>11, <1>12, <1>13, <1>15, Zenon DEF Masks, Unresolved
<1>17. \A i \in r.settled : SlotChallenges(s, i) \subseteq r.accepted
  BY KnownChallenges, Zenon
<1>18. Answered(ResponseSeed(s), s, x)
  BY <1>1, <1>2, <1>11, <1>12, <1>17, Zenon DEF Answered, SampleCounts, SlotChallenges, Challenges
<1>19. Paid(s, I, x)
  BY <1>2, <1>10, <1>12, <1>13, Zenon DEF Paid
<1> QED BY <1>16, <1>18, <1>19, Zenon

(***************************************************************************)
(* What a step leaves in a row.                                            *)
(***************************************************************************)
\* A row in the next state, from what is known of it.
LEMMA RowOKNext ==
    ASSUME NEW s, NEW x, x = row'[s], x.plan \in Plans, x.funding \in {"escrow", "requester"}, Masks(x),
           \/ Pristine(x)
           \/ /\ (AnchorHeight(s))' <= height'
              /\ \E q \in Seeds : Answered(q, s, x) /\ (AnchorSeed(s))' \in {q, NoSeed},
           terminal'[s] # NoSeed <=> FullySettled(x),
           session'[s].deadline <= DealEnd[DealOf(s)]
    PROVE  RowOK(s)'
<1>1. (Masks(row[s]))'
  BY Zenon DEF Masks, Represented, Unresolved, FeeSum, Fee
<1>2. (EvidenceOf(s))'
  BY Zenon DEF EvidenceOf, Pristine, Answered
<1>3. terminal'[s] # NoSeed <=> (FullySettled(row[s]))'
  BY Zenon DEF FullySettled, Represented
<1>4. row'[s].plan \in Plans /\ row'[s].funding \in {"escrow", "requester"}
  BY Zenon
<1> QED BY <1>1, <1>2, <1>3, <1>4, Zenon DEF RowOK

PaidIn(D, upd) == {p \in D : Settles(p[1], upd[p[1]], p[2])}

PaidSlots(P, s) == {i \in Slots : <<s, i>> \in P}

Touched(D) == {p[1] : p \in D}

\* A response pays open obligations, each once, and touches no other row.
LEMMA RespondRows ==
    ASSUME V3IInv, NEW D, NEW upd, ResponseOK(D, upd), Respond(D, upd), NEW P, P = PaidIn(D, upd)
    PROVE  /\ P \in SUBSET (Stored \X Slots) /\ IsFiniteSet(P) /\ Touched(D) \in SUBSET Stored
           /\ row' \in [Sessions -> Rows]
           /\ \A s \in Sessions \ Touched(D) : row'[s] = row[s] /\ PaidSlots(P, s) = {}
           /\ \A s \in Stored : Paid(s, PaidSlots(P, s), row'[s])
           /\ \A s \in Touched(D) : /\ ResponseSeed(s) # NoSeed /\ InWindow(s)
                                    /\ Masks(row'[s]) /\ Answered(ResponseSeed(s), s, row'[s])
<1>1. D \in SUBSET (Stored \X Slots) /\ \A p \in D : Answerable(p[1], p[2]) /\ Recorded(p[1], upd[p[1]])
  BY Zenon DEF ResponseOK
<1>2. P \in SUBSET D /\ \A p \in P : Settles(p[1], upd[p[1]], p[2])
  BY Zenon DEF PaidIn
<1>3. IsFiniteSet(Stored \X Slots) /\ Stored \subseteq Sessions
  BY RetentionConstants, FS_Subset, FS_Product, Zenon DEF Stored
<1>4. P \in SUBSET (Stored \X Slots) /\ IsFiniteSet(P)
  BY <1>1, <1>2, <1>3, FS_Subset, Zenon
<1>5. Touched(D) \in SUBSET Stored
  BY <1>1, SMT DEF Touched
<1>6. row' = [s \in Sessions |-> IF s \in Touched(D) THEN Settled(upd[s], PaidSlots(P, s)) ELSE row[s]]
  BY Zenon DEF Respond, Touched, PaidIn, PaidSlots
<1>7. ASSUME NEW s \in Touched(D)
      PROVE  /\ Paid(s, PaidSlots(P, s), row'[s]) /\ ResponseSeed(s) # NoSeed /\ InWindow(s)
             /\ Masks(row'[s]) /\ Answered(ResponseSeed(s), s, row'[s])
  <2>1. PICK p \in D : p[1] = s
    BY Zenon DEF Touched
  <2>2. s \in Stored /\ s \in Sessions /\ Recorded(s, upd[s]) /\ ResponseSeed(s) # NoSeed /\ InWindow(s)
    BY <1>1, <1>3, <1>5, <2>1, Zenon DEF Answerable
  <2> DEFINE I == PaidSlots(P, s)
             u == upd[s]
             x == Settled(u, I)
  <2>3. row'[s] = x /\ Recorded(s, u)
    BY <1>6, <2>2, Zenon
  <2>4. I \in SUBSET Slots /\ AllSettle(s, u, I) /\ x = Settled(u, I)
    BY <1>2, SMT DEF PaidSlots, AllSettle
  <2> HIDE DEF I, u, x
  <2>5. Paid(s, I, x) /\ Masks(x) /\ Answered(ResponseSeed(s), s, x)
    BY <2>2, <2>3, <2>4, RowSettles, Zenon
  <2> QED BY <2>2, <2>3, <2>5, Zenon DEF I
<1>8. ASSUME NEW s \in Sessions \ Touched(D) PROVE row'[s] = row[s] /\ PaidSlots(P, s) = {}
  <2>1. row'[s] = row[s]
    BY <1>6, Zenon
  <2>2. \A i \in Slots : <<s, i>> \notin D
    BY SMT DEF Touched
  <2> QED BY <1>2, <2>1, <2>2, Zenon DEF PaidSlots
<1>9. ASSUME NEW s \in Stored, s \notin Touched(D) PROVE Paid(s, {}, row'[s])
  <2>1. /\ row[s] \in Rows /\ row[s].plan \in Plans /\ row'[s] = row[s]
    BY <1>3, <1>8, <1>9, StoredRow, Zenon
  <2>2. FeeSum(row[s], {}) \in Nat /\ FeeSum(row[s], {} \ {}) = FeeSum(row[s], {}) - FeeSum(row[s], {})
    BY <2>1, FeeParts, Zenon
  <2>3. {} \ {} = {}
    BY Zenon
  <2>4. FeeSum(row[s], {}) = 0
    BY <2>2, <2>3
  <2>5. row[s].locked = row[s].locked - FeeSum(row[s], {})
    BY <2>1, <2>4, RowFields
  <2> QED BY <2>1, <2>5, Zenon DEF Paid
<1>10. \A s \in Stored : Paid(s, PaidSlots(P, s), row'[s])
  BY <1>3, <1>7, <1>8, <1>9, Zenon
<1>11. row' \in [Sessions -> Rows]
  <2>1. \A s \in Sessions : row[s] \in Rows
    BY Zenon DEF V3IInv, RowsOK
  <2>2. \A s \in Sessions : row'[s] \in Rows
    <3> TAKE s \in Sessions
    <3>1. CASE s \in Touched(D)
      BY <1>7, <3>1, Zenon DEF Paid
    <3>2. CASE s \notin Touched(D)
      <4>1. row'[s] = row[s]
        BY <1>8, <3>2, Zenon
      <4> QED BY <2>1, <4>1, Zenon
    <3> QED BY <3>1, <3>2, Zenon
  <2>3. row' = [s \in Sessions |-> row'[s]]
    BY <1>6, Zenon
  <2> QED BY <2>2, <2>3, Zenon
<1> QED BY <1>4, <1>5, <1>7, <1>8, <1>10, <1>11, Zenon

\* The row an open writes: nothing answered, all its fees locked.
LEMMA NewRowOK ==
    ASSUME V3IInv, NEW plan \in Plans, NEW f \in {"escrow", "requester"}, NEW r, r = NewRow(plan, f)
    PROVE  /\ r \in Rows /\ r.plan = plan /\ r.funding = f /\ Pristine(r) /\ Masks(r)
           /\ ~FullySettled(r) /\ Represented(r) = DOMAIN plan /\ Unresolved(r) = DOMAIN plan
           /\ r.settled = {} /\ r.refunded = {}
           /\ pricing.base \in Nat
<1> DEFINE b == [NoRow EXCEPT !.plan = plan, !.funding = f, !.price = pricing.price, !.burn = pricing.burn]
           n == FeeSum(b, DOMAIN plan)
<1>1. pricing.price \in Nat /\ pricing.burn \in 0..BasisPoints /\ pricing.base \in Nat
  <2>1. pricing \in Pricings
    BY Zenon DEF V3IInv, DealsOK
  <2> QED BY <2>1, V3Constants, Zenon
<1>2. b \in Rows
  BY <1>1, NoRowFields, Zenon DEF Rows
<1>3. /\ b.plan = plan /\ b.funding = f /\ b.acked = {} /\ b.settled = {} /\ b.refunded = {}
      /\ b.accepted = {} /\ b.samples = NoRow.samples
  BY SMT DEF NoRow
<1>4. r = [b EXCEPT !.locked = n]
  BY Zenon DEF NewRow
<1> HIDE DEF b
<1>5. Represented(b) = DOMAIN plan /\ DOMAIN plan # {}
  BY <1>3, TuplesFinite, Zenon DEF Represented
<1>6. n \in Nat
  BY <1>2, <1>3, <1>5, FeeParts, Zenon
<1> HIDE DEF n
<1>7. r \in Rows
  BY <1>2, <1>4, <1>6, Zenon DEF Rows
<1>8. /\ r.plan = plan /\ r.funding = f /\ r.acked = {} /\ r.settled = {} /\ r.refunded = {}
      /\ r.accepted = {} /\ r.samples = NoRow.samples /\ r.locked = n /\ r.price = b.price
  BY <1>2, <1>3, <1>4, SMT DEF Rows
<1>9. Represented(r) = DOMAIN plan /\ Unresolved(r) = DOMAIN plan
  BY <1>8, Zenon DEF Represented, Unresolved
<1>10. FeeSum(r, DOMAIN plan) = n
  <2>1. r.price = b.price /\ r.plan = b.plan
    BY <1>3, <1>8, Zenon
  <2>2. \A I : FeeSum(r, I) = FeeSum(b, I)
    BY <2>1, FeeSame, Zenon
  <2> QED BY <2>2, Zenon DEF n
<1>11. Masks(r)
  BY <1>8, <1>9, <1>10, Zenon DEF Masks
<1>12. Pristine(r) /\ ~FullySettled(r)
  BY <1>5, <1>8, <1>9, Zenon DEF Pristine, FullySettled
<1> QED BY <1>1, <1>7, <1>8, <1>9, <1>11, <1>12, Zenon

\* storeRetrievalSessionV3 writes the row of one session, which had none.
LEMMA StoreRow ==
    ASSUME V3IInv, NEW s \in V3, NEW deadline \in Heights, NEW r,
           Prepare(s, deadline), Store(s, r, deadline)
    PROVE  /\ s \notin Stored /\ Stored' = Stored \cup {s} /\ row[s] = NoRow /\ row'[s] = r
           /\ \A t \in Sessions \ {s} : row'[t] = row[t]
<1>1. s \in Sessions /\ session \in [Sessions -> Contexts] /\ row \in [Sessions -> Rows]
  BY Running, Zenon DEF V3IInv, RowsOK, IInv, TypeOK
<1>2. s \notin Stored
  BY Zenon DEF Prepare, Stored
<1>3. row' = [row EXCEPT ![s] = r]
  BY Zenon DEF Store
<1>4. row'[s] = r /\ \A t \in Sessions \ {s} : row'[t] = row[t]
  BY <1>1, <1>3, Zenon
<1> DEFINE x == [stored |-> TRUE, key |-> <<DealOf(s), admitted[DealOf(s)]>>, opened |-> height,
                 deadline |-> deadline]
<1>5. session' = [session EXCEPT ![s] = x]
  BY Zenon DEF Store, Retain
<1>6. x.stored
  OBVIOUS
<1> HIDE DEF x
<1>7. session'[s].stored /\ \A t \in Sessions \ {s} : session'[t] = session[t]
  BY <1>1, <1>5, <1>6, Zenon
<1>8. Stored' = Stored \cup {s}
  BY <1>1, <1>7, Zenon DEF Stored
<1>9. row[s] = NoRow
  BY <1>1, <1>2, Zenon DEF V3IInv, RowsOK
<1> QED BY <1>2, <1>4, <1>8, <1>9, Zenon

\* The row a refund writes: nothing open or locked, and its evidence as before.
LEMMA RefundRow ==
    ASSUME V3IInv, NEW s \in Stored, NEW x, x = Refunded(row[s])
    PROVE  /\ x \in Rows /\ x.plan = row[s].plan /\ x.funding = row[s].funding
           /\ x.price = row[s].price /\ x.burn = row[s].burn
           /\ x.settled = row[s].settled /\ x.refunded = row[s].refunded \cup Unresolved(row[s])
           /\ x.locked = 0 /\ row[s].locked = FeeSum(row[s], Unresolved(row[s]))
           /\ Unresolved(x) = {} /\ Masks(x)
           /\ Pristine(row[s]) => Pristine(x)
           /\ \A q : Answered(q, s, row[s]) => Answered(q, s, x)
           /\ FullySettled(x) <=> FullySettled(row[s])
<1> DEFINE r == row[s]
           J == Unresolved(r)
           R == r.refunded \cup J
           n == r.locked - FeeSum(r, J)
<1>1. r \in Rows /\ r.plan \in Plans /\ Masks(r)
  BY StoredRow, Zenon
<1>2. J \in SUBSET Represented(r) /\ Represented(r) \subseteq Slots
  BY <1>1, TuplesFinite, Zenon DEF Unresolved, Represented
<1>3. R \in SUBSET Slots
  BY <1>1, <1>2, RowFields, Zenon
<1>4. r.locked = FeeSum(r, J) /\ FeeSum(r, J) \in Nat /\ FeeSum(r, J \ J) = FeeSum(r, J) - FeeSum(r, J)
  <2>1. FeeSum(r, J) \in Nat /\ FeeSum(r, J \ J) = FeeSum(r, J) - FeeSum(r, J)
    BY <1>1, <1>2, FeeParts, Zenon
  <2> QED BY <1>1, <2>1, Zenon DEF Masks
<1>5. n = 0 /\ FeeSum(r, J \ J) = 0
  BY <1>4
<1>6. x = [r EXCEPT !.refunded = R, !.locked = n]
  BY Zenon DEF Refunded
<1> HIDE DEF R, n, r
<1>n. n \in Nat
  BY <1>5
<1>7. x \in Rows
  BY <1>1, <1>3, <1>n, <1>6, Zenon DEF Rows
<1>8. /\ x.plan = r.plan /\ x.funding = r.funding /\ x.price = r.price /\ x.burn = r.burn
      /\ x.acked = r.acked /\ x.settled = r.settled /\ x.refunded = R /\ x.accepted = r.accepted
      /\ x.samples = r.samples /\ x.locked = n
  BY <1>1, <1>6, SMT DEF Rows
<1>9. Represented(x) = Represented(r) /\ Unresolved(x) = {} /\ J \ J = {}
  BY <1>8, Zenon DEF Represented, Unresolved, R
<1>10. FeeSum(x, {}) = 0
  <2>1. FeeSum(x, J \ J) = FeeSum(r, J \ J)
    BY ONLY <1>8, FeeSame, Zenon
  <2> QED BY ONLY <1>5, <1>9, <2>1
<1>11. Masks(x)
  <2>1. x.settled \cap x.refunded = {} /\ x.acked \cup x.settled \cup x.refunded \subseteq Represented(x)
    BY <1>1, <1>8, <1>9, Zenon DEF Masks, R, Unresolved
  <2> QED BY <1>1, <1>5, <1>8, <1>9, <1>10, <2>1, Zenon DEF Masks
<1>12. FullySettled(x) <=> FullySettled(r)
  BY <1>8, <1>9, Zenon DEF FullySettled
<1>13. (Pristine(r) => Pristine(x)) /\ \A q : Answered(q, s, r) => Answered(q, s, x)
  BY <1>8, Zenon DEF Pristine, Answered
<1> QED BY <1>4, <1>5, <1>7, <1>8, <1>9, <1>11, <1>12, <1>13, Zenon DEF r, R

\* RefundRetrievalSessionV3 rewrites the row of one stored session.
LEMMA RefundTouches ==
    ASSUME V3IInv, NEW s \in V3, RefundRetrievalSessionV3(s)
    PROVE  /\ s \in Stored /\ row'[s] = Refunded(row[s])
           /\ \A t \in Sessions \ {s} : row'[t] = row[t]
<1>1. s \in Sessions /\ row \in [Sessions -> Rows]
  BY Running, Zenon DEF V3IInv, RowsOK
<1>2. session[s].stored /\ row' = [row EXCEPT ![s] = Refunded(row[s])]
  BY Zenon DEF RefundRetrievalSessionV3
<1>3. s \in Stored
  BY <1>1, <1>2, Zenon DEF Stored
<1> QED BY <1>1, <1>2, <1>3, Zenon

==============================================================================
