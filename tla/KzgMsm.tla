------------------------------- MODULE KzgMsm -------------------------------
(***************************************************************************)
(* The multi-scalar multiplication of one WebGPU committer                 *)
(* (lib/webgpuKzgMsm.ts with its shaders): signed windows, buckets, the    *)
(* scratch buffers that are kept from blob to blob, the three kernels and  *)
(* the fold.  A group element is the vector of its coefficients over the   *)
(* bases, modulo the group order; a buffer is the sequence of the elements *)
(* it has room for.                                                        *)
(*                                                                         *)
(* A store outside of a buffer does not fail: the shader compiler drops it *)
(* or clamps its index to the last element.                                *)
(***************************************************************************)
EXTENDS Integers, Sequences, FiniteSets, SequencesExt, FiniteSetsExt

CONSTANTS
  Points,        \* cells per blob, and bases of the setup
  Cells,         \* values of a 32-byte cell
  FrModulus,     \* FR_MODULUS, the order of the group
  BucketWidth,   \* bits of a window
  PointWords,    \* 32-bit words of a stored point (96)
  WorkgroupSize, \* threads per workgroup of the bucket kernels (64)
  ReductionSize, \* threads per window of the parallel reduction (16)
  MaxBlobs       \* bound: blobs committed with one committer

MsmAssumption ==
  /\ {Points, FrModulus, BucketWidth, PointWords, WorkgroupSize, ReductionSize, MaxBlobs}
       \subseteq Nat \ {0}
  /\ Cells \subseteq Nat /\ BucketWidth > 1

VARIABLES
  mode,     \* reductionMode of the committer
  scratch,  \* WebGpuKzgMsmScratch
  pc,       \* the command of the queue that runs next
  last,     \* the blob in progress or committed last, its numbers of buckets and
            \* windows, and whether a thread stored out of bounds
  answer,   \* its commitment
  blobs     \* blobs committed so far

vars == <<mode, scratch, pc, last, answer, blobs>>

----------------------------------------------------------------------------
(* The group *)

Base     == 0..Points - 1
Infinity == [p \in Base |-> 0]
Plus(a, b)  == [p \in Base |-> (a[p] + b[p]) % FrModulus]
Times(k, a) == [p \in Base |-> (k * a[p]) % FrModulus]
SumOf(seq)  == FoldLeft(Plus, Infinity, seq)
Point(p, s) == [q \in Base |-> IF q = p THEN s % FrModulus ELSE 0]

(* What the WASM path computes of a blob. *)
Commitment(blob) == [p \in Base |-> blob[p] % FrModulus]

----------------------------------------------------------------------------
(* Windows and buckets *)

Full == 2 ^ BucketWidth
Half == 2 ^ (BucketWidth - 1)

blobCellToScalar(cell) == cell % FrModulus

(* visitSignedWindows: the signed digits, least significant first; a digit
   of 0 is not visited. *)
Signed[rest \in Nat, carry \in 0..1] ==
  IF rest = 0 /\ carry = 0 THEN <<>>
  ELSE LET raw == (rest % Full) + carry
       IN  IF raw >= Half
           THEN <<raw - Full>> \o Signed[rest \div Full, 1]
           ELSE <<raw>> \o Signed[rest \div Full, 0]

visitSignedWindows(scalar) ==
  {<<w, Signed[scalar, 0][w + 1]>> :
     w \in {v \in 0..Len(Signed[scalar, 0]) - 1 : Signed[scalar, 0][v + 1] # 0}}

Magnitude(v) == IF v < 0 THEN -v ELSE v

(* buildWebGpuKzgMsmBucketData: one bucket per window and magnitude that
   occur, in the order of the two loops over the counts, each with its
   points and their signs. *)
Visits(blob) == UNION {{[window |-> v[1], value |-> v[2], point |-> p] :
                        v \in visitSignedWindows(blobCellToScalar(blob[p]))} : p \in Base}

Slots == [i \in 1..(Len(Signed[FrModulus - 1, 0]) + 1) * Full |->
            <<(i - 1) \div Full, (i - 1) % Full>>]

InSlot(visits, slot) == {v \in visits : <<v.window, Magnitude(v.value)>> = slot}

Members(visits, slot) ==
  LET in == InSlot(visits, slot)
      points == SelectSeq([i \in 1..Points |-> i - 1], LAMBDA p : \E v \in in : v.point = p)
  IN  [i \in DOMAIN points |-> CHOOSE v \in in : v.point = points[i]]

Upto(seq, i) == FoldLeft(LAMBDA n, k : n + k, 0, SubSeq(seq, 1, i))

buildWebGpuKzgMsmBucketData(blob) ==
  LET visits  == Visits(blob)
      slots   == SelectSeq(Slots, LAMBDA k : InSlot(visits, k) # {})
      sizes   == [i \in DOMAIN slots |-> Cardinality(InSlot(visits, slots[i]))]
      windows == 1 + Max({0} \cup {v.window : v \in visits})
      counts  == [w \in 1..windows |-> Cardinality({b \in Range(slots) : b[1] = w - 1})]
  IN  [baseIndices    |-> FlattenSeq([i \in DOMAIN slots |-> Members(visits, slots[i])]),
       bucketPointers |-> [i \in DOMAIN slots |-> Upto(sizes, i - 1)],
       bucketSizes    |-> sizes,
       bucketValues   |-> [i \in DOMAIN slots |-> slots[i][2]],
       windowStarts   |-> [w \in 1..windows |-> Upto(counts, w - 1)],
       windowCounts   |-> counts]

----------------------------------------------------------------------------
(* The scratch buffers *)

Pow2[n \in Nat] == IF n <= 1 THEN 1 ELSE 2 * Pow2[(n + 1) \div 2]

(* growBufferCapacity: capacities double from one word.  Room is what a
   buffer holds of elements of that many words. *)
growBufferCapacity(elements, words) == Pow2[elements * words] \div words

NoMember == [window |-> 0, value |-> 1, point |-> 0]

(* ensure: a buffer that is large enough is kept with what it holds; a new
   one is zero. *)
ensure(buffer, elements, words, zero) ==
  IF Len(buffer) >= elements /\ buffer # <<>> THEN buffer
  ELSE [i \in 1..growBufferCapacity(Max({1, elements}), words) |-> zero]

(* write: queue.writeBuffer from offset 0; what lies behind stays. *)
write(buffer, data, zero) ==
  LET room == ensure(buffer, Len(data), 1, zero) IN
  [i \in DOMAIN room |-> IF i <= Len(data) THEN data[i] ELSE room[i]]

NoScratch == [baseIndices |-> <<>>, bucketPointers |-> <<>>, bucketSizes |-> <<>>,
              bucketValues |-> <<>>, windowStarts |-> <<>>, windowCounts |-> <<>>,
              aggregated |-> <<>>, sums |-> <<>>, partial |-> <<>>]

(* The part of commitBlobs before the dispatch: six writes, three ensures. *)
Uploaded(d) ==
  [baseIndices    |-> write(scratch.baseIndices, d.baseIndices, NoMember),
   bucketPointers |-> write(scratch.bucketPointers, d.bucketPointers, 0),
   bucketSizes    |-> write(scratch.bucketSizes, d.bucketSizes, 0),
   bucketValues   |-> write(scratch.bucketValues, d.bucketValues, 0),
   windowStarts   |-> write(scratch.windowStarts, d.windowStarts, 0),
   windowCounts   |-> write(scratch.windowCounts, d.windowCounts, 0),
   aggregated     |-> ensure(scratch.aggregated, Len(d.bucketValues), PointWords, Infinity),
   sums           |-> ensure(scratch.sums, Len(d.windowStarts), PointWords, Infinity),
   partial        |-> IF mode = "serial" THEN scratch.partial
                      ELSE ensure(scratch.partial, Len(d.windowStarts) * ReductionSize,
                                  PointWords, Infinity)]

----------------------------------------------------------------------------
(* The kernels *)

(* dispatchWorkgroups(max(1, ceil(buckets / 64))): threads, counted from 1. *)
Threads(n) == 1..Max({1, (n + WorkgroupSize - 1) \div WorkgroupSize}) * WorkgroupSize

(* What thread i of aggregate_buckets_g1 stores. *)
BucketSum(i) ==
  SumOf([k \in 1..scratch.bucketSizes[i] |->
           LET m == scratch.baseIndices[scratch.bucketPointers[i] + k]
           IN  Point(m.point, IF m.value < 0 THEN -1 ELSE 1)])

(* It returns early beyond the pointer buffer, not beyond the buckets. *)
Active  == {i \in Threads(last.buckets) : i <= Len(scratch.bucketPointers)}
Outside == {i \in Active : i > Len(scratch.aggregated)}

(* weight_buckets_g1: only buckets that are summed below matter, and each of
   them has its value; a value read out of bounds is taken as 0. *)
ValueAt(i) == IF i <= Len(scratch.bucketValues) THEN scratch.bucketValues[i] ELSE 0

(* subsum_accumulation_g1: one thread per window. *)
subsum_accumulation_g1(w) ==
  SumOf([k \in 1..scratch.windowCounts[w] |-> scratch.aggregated[scratch.windowStarts[w] + k]])

(* subsum_phase1_g1 as buildParallelSubsumShader rewrites it: thread t of a
   window adds every ReductionSize-th bucket from its own. *)
LocalSum(w, t) ==
  SumOf([k \in 1..Cardinality({i \in 0..scratch.windowCounts[w] - 1 : i % ReductionSize = t}) |->
           scratch.aggregated[scratch.windowStarts[w] + t + (k - 1) * ReductionSize + 1]])

\* Fault: the second phase stops one partial sum short.
ShortPhase2(w) ==
  SumOf([t \in 1..ReductionSize - 1 |-> scratch.partial[(w - 1) * ReductionSize + t]])

subsum_phase2_g1(w) ==
  SumOf([t \in 1..ReductionSize |-> scratch.partial[(w - 1) * ReductionSize + t]])

(* webgpu_fold_g1_window_sums: from the top window, doubling in between. *)
webgpu_fold_g1_window_sums(sums) ==
  FoldLeft(LAMBDA acc, x : Plus(Times(Full, acc), x), Infinity, Reverse(sums))

----------------------------------------------------------------------------
Init == /\ mode \in {"serial", "parallel16"} /\ scratch = NoScratch /\ pc = "idle"
        /\ last = [blob |-> [p \in Base |-> 0], buckets |-> 0, windows |-> 1, outside |-> FALSE]
        /\ answer = Infinity /\ blobs = 0

(* commitBlobs skips a blob of zero bytes: its fold has one empty window. *)
CommitZero(blob) ==
  /\ pc = "idle" /\ blobs < MaxBlobs
  /\ \A p \in Base : blob[p] = 0
  /\ answer' = webgpu_fold_g1_window_sums(<<Infinity>>)
  /\ last' = [blob |-> blob, buckets |-> 0, windows |-> 1, outside |-> FALSE]
  /\ blobs' = blobs + 1
  /\ UNCHANGED <<mode, scratch, pc>>

Upload(blob) ==
  LET d == buildWebGpuKzgMsmBucketData(blob) IN
  /\ pc = "idle" /\ blobs < MaxBlobs
  /\ \E p \in Base : blob[p] # 0
  /\ scratch' = Uploaded(d)
  /\ last' = [blob |-> blob, buckets |-> Len(d.bucketValues),
              windows |-> Len(d.windowStarts), outside |-> FALSE]
  /\ pc' = "aggregate"
  /\ UNCHANGED <<mode, answer, blobs>>

aggregate_buckets_g1 ==
  LET in == [i \in DOMAIN scratch.aggregated |->
               IF i \in Active THEN BucketSum(i) ELSE scratch.aggregated[i]]
  IN  /\ pc = "aggregate"
      /\ \E sums \in {in} \cup {[in EXCEPT ![Len(in)] = BucketSum(i)] : i \in Outside} :
           scratch' = [scratch EXCEPT !.aggregated = sums]
      /\ last' = [last EXCEPT !.outside = Outside # {}]
      /\ pc' = "weight"
      /\ UNCHANGED <<mode, answer, blobs>>

weight_buckets_g1 ==
  /\ pc = "weight"
  /\ scratch' = [scratch EXCEPT !.aggregated =
                   [i \in DOMAIN @ |-> IF i \in Threads(last.buckets) THEN Times(ValueAt(i), @[i])
                                       ELSE @[i]]]
  /\ pc' = IF mode = "serial" THEN "fold" ELSE "phase1"
  /\ UNCHANGED <<mode, last, answer, blobs>>

subsum_phase1_g1 ==
  /\ pc = "phase1"
  /\ scratch' = [scratch EXCEPT !.partial =
                   [j \in DOMAIN @ |->
                      IF j > last.windows * ReductionSize THEN @[j]
                      ELSE LocalSum(((j - 1) \div ReductionSize) + 1, (j - 1) % ReductionSize)]]
  /\ pc' = "fold"
  /\ UNCHANGED <<mode, last, answer, blobs>>

(* The last kernel, the read-back of the window sums and their fold. *)
Fold ==
  LET sums == [w \in DOMAIN scratch.sums |->
                 IF w > last.windows THEN scratch.sums[w]
                 ELSE IF mode = "serial" THEN subsum_accumulation_g1(w) ELSE subsum_phase2_g1(w)]
  IN  /\ pc = "fold"
      /\ scratch' = [scratch EXCEPT !.sums = sums]
      /\ answer' = webgpu_fold_g1_window_sums(SubSeq(sums, 1, last.windows))
      /\ blobs' = blobs + 1
      /\ pc' = "idle"
      /\ UNCHANGED <<mode, last>>

(* destroy: the next committer starts with new buffers. *)
destroy ==
  /\ pc = "idle" /\ scratch # NoScratch
  /\ scratch' = NoScratch
  /\ UNCHANGED <<mode, pc, last, answer, blobs>>

Next == \/ \E blob \in [Base -> Cells] : CommitZero(blob) \/ Upload(blob)
        \/ aggregate_buckets_g1 \/ weight_buckets_g1 \/ subsum_phase1_g1 \/ Fold \/ destroy

Spec == Init /\ [][Next]_vars

----------------------------------------------------------------------------
TypeOK ==
  /\ mode \in {"serial", "parallel16"} /\ blobs \in 0..MaxBlobs
  /\ answer \in [Base -> 0..FrModulus - 1]
  /\ pc \in {"idle", "aggregate", "weight", "phase1", "fold"}
  /\ last.blob \in [Base -> Cells] /\ last.outside \in BOOLEAN

(* The commitment of every blob is the one WASM computes of it. *)
CommitParity == pc = "idle" => answer = Commitment(last.blob)

(* The same as long as no thread of the aggregation stores past the end of
   the bucket buffer: digits with carries, buckets of several points, what
   an earlier and larger blob left behind in every buffer, threads past the
   last bucket, cells not below the group order, and both reductions. *)
ParityInBounds == ~last.outside => CommitParity
=============================================================================
