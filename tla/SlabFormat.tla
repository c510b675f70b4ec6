------------------------------ MODULE SlabFormat ------------------------------
(* The layout of a stored generation (a slab) and every reader the website     *)
(* has for it.  A file is cut into user MDUs; an MDU holds BlobsPerMdu blobs,  *)
(* a blob ScalarsPerBlob scalars, and a scalar one zero byte and PayloadBytes  *)
(* bytes of the file.  Each file starts in an MDU of its own.  The witness     *)
(* MDUs hold the commitments of all user MDUs, one after the other.            *)
(*                                                                             *)
(* The readers are pure: for every slab that appending files can produce, the  *)
(* properties compare what each of them returns with the bytes that were put   *)
(* in.  A byte is the pair of the file (or, negative, the user MDU whose       *)
(* commitments it belongs to) and its position; Zero is padding.               *)
EXTENDS Integers, Sequences, FiniteSets, FiniteSetsExt, SequencesExt

CONSTANTS PayloadBytes,    \* 31
          ScalarsPerBlob,  \* 4096
          BlobsPerMdu,     \* 64
          CommitmentBytes, \* 48
          K, M,            \* the stripe profile: data and parity slots
          Sizes,           \* the sizes of the files that are appended
          MaxFiles,        \* bound: files of the slab
          Fail             \* what a reader that throws returns

FormatAssumption ==
  /\ {PayloadBytes, ScalarsPerBlob, BlobsPerMdu, CommitmentBytes, K} \subseteq Nat \ {0}
  /\ M \in Nat
  /\ BlobsPerMdu % K = 0

VARIABLES users,   \* the encoded user MDUs
          files    \* the file records of MDU 0

vars == <<users, files>>

-----------------------------------------------------------------------------
(* The geometry.                                                             *)
ScalarBytes == PayloadBytes + 1
RawBlob == ScalarsPerBlob * PayloadBytes
RawMdu == BlobsPerMdu * RawBlob
BlobSize == ScalarsPerBlob * ScalarBytes
MduSize == BlobsPerMdu * BlobSize
Rows == BlobsPerMdu \div K
LeafCount == Rows * (K + M)

Lesser(a, b) == IF a < b THEN a ELSE b
Greater(a, b) == IF a > b THEN a ELSE b
CeilDiv(a, b) == (a + b - 1) \div b

computeUserMduCount(size) == CeilDiv(size, RawMdu)
WitnessBytes == Len(users) * LeafCount * CommitmentBytes
computeWitnessLayout == Greater(1, CeilDiv(WitnessBytes, RawMdu))
metadataMdus == 1 + computeWitnessLayout

leafIndexForSlotRow(slot, row) == slot * Rows + row
slotRowForLeafIndex(leaf) == <<leaf \div Rows, leaf % Rows>>

-----------------------------------------------------------------------------
(* The writer.                                                               *)
Zero == <<0, 0>>

\* n raw bytes as an MDU: the chunk of a scalar ends with the scalar, so a
\* short last chunk is right-aligned.
encodeToMdu(raw, n) ==
  [x \in 0 .. MduSize - 1 |->
     LET scalar == x \div ScalarBytes
         chunk == Lesser(PayloadBytes, n - scalar * PayloadBytes)
         at == (x % ScalarBytes) - (ScalarBytes - chunk)
     IN IF chunk > 0 /\ at >= 0 THEN raw[scalar * PayloadBytes + at] ELSE Zero]

\* The i-th MDU of the bytes Byte(0) .. Byte(n - 1).
Cut(Byte(_), n, i) ==
  LET have == Lesser(RawMdu, n - i * RawMdu)
  IN encodeToMdu([x \in 0 .. have - 1 |-> Byte(i * RawMdu + x)], have)

Init == users = <<>> /\ files = <<>>

\* A file is appended behind the last MDU.  An empty file needs no MDU; in an
\* empty slab its preparation fails, since no witness MDU is produced.
AppendFile(n) ==
  /\ Len(files) < MaxFiles
  /\ n > 0 \/ users # <<>>
  /\ LET f == Len(files) + 1
         Byte(x) == <<f, x>>
     IN /\ files' = Append(files, [start |-> Len(users) * RawMdu, size |-> n])
        /\ users' = users \o [i \in 1 .. computeUserMduCount(n) |-> Cut(Byte, n, i - 1)]

Next == \E n \in Sizes : AppendFile(n)
Spec == Init /\ [][Next]_vars

\* The commitments of a user MDU, in the order of the leaves, and the witness
\* MDUs that hold those of all user MDUs.
Commitments(u) == [x \in 0 .. LeafCount * CommitmentBytes - 1 |-> <<-1 - u, x>>]
witnessMdu(i) ==
  LET per == LeafCount * CommitmentBytes
      Byte(x) == Commitments(x \div per)[x % per]
  IN Cut(Byte, WitnessBytes, i)

Blob(mdu, b) == [x \in 0 .. BlobSize - 1 |-> mdu[b * BlobSize + x]]

\* What the provider of a slot serves for a leaf of user MDU u: row r of data
\* slot s is blob r * K + s.
Served(u, leaf) ==
  LET at == slotRowForLeafIndex(leaf) IN Blob(users[u + 1], at[2] * K + at[1])

-----------------------------------------------------------------------------
(* The decoder of one blob, shared by both retrieval versions, recovery and  *)
(* append: the first valid bytes of the blob are payload, the rest must be 0.*)

\* Fault: the short last chunk is taken to be left-aligned.
decodeRetrievalSliceLeft(blob, valid, offset, length) ==
  [i \in 0 .. length - 1 |->
     blob[((offset + i) \div PayloadBytes) * ScalarBytes + 1 + ((offset + i) % PayloadBytes)]]
decodeRetrievalSlice(blob, valid, offset, length) ==
  LET complete == valid \div PayloadBytes
      rest == valid % PayloadBytes
      Pad(s) == IF s < complete THEN 1
                ELSE IF s = complete /\ rest # 0 THEN ScalarBytes - rest ELSE ScalarBytes
      packed == \A s \in 0 .. ScalarsPerBlob - 1 :
                  \A i \in 0 .. Pad(s) - 1 : blob[s * ScalarBytes + i] = Zero
      From(at) == LET s == at \div PayloadBytes
                  IN s * ScalarBytes + (IF s = complete /\ rest # 0 THEN ScalarBytes - rest ELSE 1)
                       + (at % PayloadBytes)
  IN IF valid \in 0 .. RawBlob /\ offset >= 0 /\ length >= 0 /\ offset + length <= valid /\ packed
     THEN [i \in 0 .. length - 1 |-> blob[From(offset + i)]]
     ELSE Fail

\* How much of the blob that starts at raw offset at belongs to the file.
validLength(file, at) == Lesser(file.start + file.size - at, RawBlob)

\* The bytes of a decoded part, each with its place in the output.
PartAt(offset, bytes) ==
  IF bytes = Fail THEN {Fail} ELSE {<<offset + i, bytes[i]>> : i \in DOMAIN bytes}

-----------------------------------------------------------------------------
(* Version 2: a range is planned as one window per MDU and slot.             *)
planRetrievalWindows(file, start, length) ==
  LET first == file.start + start
      end == first + length
      Touched(o, s) ==
        {b \in 0 .. BlobsPerMdu - 1 :
           /\ b % K = s
           /\ (o * BlobsPerMdu + b) * RawBlob < end
           /\ (o * BlobsPerMdu + b + 1) * RawBlob > first}
      Slice(o, b) ==
        LET at == (o * BlobsPerMdu + b) * RawBlob
            from == Greater(first, at)
        IN [blob |-> b, rawOffset |-> from - at,
            length |-> Lesser(end, at + RawBlob) - from, out |-> from - first]
      Window(o, s) ==
        LET blobs == SetToSortSeq(Touched(o, s), <)
        IN [mdu |-> metadataMdus + o, slot |-> s,
            start |-> leafIndexForSlotRow(s, blobs[1] \div K), count |-> Len(blobs),
            slices |-> [i \in DOMAIN blobs |-> Slice(o, blobs[i])]]
  IN {Window(w[1], w[2]) : w \in
        {p \in (first \div RawMdu .. (end - 1) \div RawMdu) \X (0 .. K - 1) :
           Touched(p[1], p[2]) # {}}}

decodeRetrievalOutput(file, w) ==
  LET ordinal == w.mdu - metadataMdus
      Part(i) ==
        LET slice == w.slices[i]
            at == ordinal * RawMdu + slice.blob * RawBlob
        IN PartAt(slice.out, decodeRetrievalSlice(Served(ordinal, w.start + i - 1),
                               validLength(file, at), slice.rawOffset, slice.length))
  IN UNION {Part(i) : i \in 1 .. w.count}

-----------------------------------------------------------------------------
(* Version 3: a range is a run of data blobs t; slot t % K owes blob t.      *)
checked_range(file, start, length) ==
  [first |-> (file.start + start) \div RawBlob,
   last |-> (file.start + start + length - 1) \div RawBlob]

\* The first blob at or behind low that the slot owes.
FirstOf(slot, low) == low + ((slot - (low % K) + K) % K)

expectedObligationsV3(range) ==
  {[slot |-> s, blobCount |-> (range.last - FirstOf(s, range.first)) \div K + 1] :
     s \in {x \in 0 .. K - 1 : FirstOf(x, range.first) <= range.last}}

\* The blobs of the range in user MDU o that the slot owes.
EntriesV3(range, s, o) ==
  LET low == Greater(o * BlobsPerMdu, range.first)
      high == Lesser(o * BlobsPerMdu + BlobsPerMdu - 1, range.last)
  IN {t \in FirstOf(s, low) .. high : (t - FirstOf(s, low)) % K = 0}

\* One chunk for each slot and each MDU in which the slot owes a blob.
ChunksOver(range, mdus) ==
  {[slot |-> p[1], mdu |-> metadataMdus + p[2],
    leaf |-> leafIndexForSlotRow(p[1], (Min(EntriesV3(range, p[1], p[2])) % BlobsPerMdu) \div K),
    entries |-> EntriesV3(range, p[1], p[2])] :
      p \in {q \in (0 .. K - 1) \X mdus : EntriesV3(range, q[1], q[2]) # {}}}

\* Fault: the loop over the MDUs ends before the one that holds the last blob.
planV3ChunksShort(range) ==
  ChunksOver(range, range.first \div BlobsPerMdu .. range.last \div BlobsPerMdu - 1)
planV3Chunks(range) ==
  ChunksOver(range, range.first \div BlobsPerMdu .. range.last \div BlobsPerMdu)

retrievalV3SlotEnd(range, slot) == range.last - (((range.last % K) - slot + K) % K)

\* The blobs of a chunk arrive in the order of their leaves, from the first.
executeRetrievalV3(file, start, length, chunk) ==
  LET wanted == file.start + start
      blobs == SetToSortSeq(chunk.entries, <)
      Write(i) ==
        LET at == blobs[i] * RawBlob
            from == Greater(at, wanted)
            to == Lesser(at + RawBlob, wanted + length)
        IN IF from >= to THEN {Fail}
           ELSE PartAt(from - wanted,
                       decodeRetrievalSlice(Served(chunk.mdu - metadataMdus, chunk.leaf + i - 1),
                                            validLength(file, at), from - at, to - from))
  IN UNION {Write(i) : i \in DOMAIN blobs}

-----------------------------------------------------------------------------
(* Recovery and append: the commitments of an MDU are read from the witness, *)
(* the MDU is put together from its slots and its packing is admitted.       *)
witnessSpan(u) ==
  LET start == u * LeafCount * CommitmentBytes
      end == start + LeafCount * CommitmentBytes
      first == start \div RawMdu
      last == (end - 1) \div RawMdu
  IN IF WitnessBytes > computeWitnessLayout * RawMdu \/ last - first > 1 THEN Fail
     ELSE [start |-> start, end |-> end, first |-> first, last |-> last]

\* Fault: every blob of the witness is taken to be full.
readUserCommitmentsFull(u) ==
  LET span == witnessSpan(u)
      Read(x) == decodeRetrievalSlice(Blob(witnessMdu(x \div RawMdu), (x % RawMdu) \div RawBlob),
                                      RawBlob, x % RawBlob, 1)
  IN UNION {PartAt(x - span.start, Read(x)) : x \in span.start .. span.end - 1}
readUserCommitments(u) ==
  LET span == witnessSpan(u)
      Piece(g) ==
        LET at == g * RawBlob
            from == Greater(at, span.start)
            to == Lesser(at + RawBlob, span.end)
        IN PartAt(from - span.start,
                  decodeRetrievalSlice(Blob(witnessMdu(g \div BlobsPerMdu), g % BlobsPerMdu),
                                       Lesser(WitnessBytes - at, RawBlob), from - at, to - from))
  IN IF span = Fail THEN {Fail}
     ELSE UNION {Piece(g) : g \in span.start \div RawBlob .. (span.end - 1) \div RawBlob}

reconstructMduFromMode2SlotSlices(u) ==
  LET Slot(s) == [row \in 0 .. Rows - 1 |-> Served(u, leafIndexForSlotRow(s, row))]
  IN [x \in 0 .. MduSize - 1 |->
        LET blob == x \div BlobSize IN Slot(blob % K)[blob \div K][x % BlobSize]]

validateRetrievalMduPacking(u, mdu) ==
  \A b \in 0 .. BlobsPerMdu - 1 :
    LET at == u * RawMdu + b * RawBlob
        over == {f \in Range(files) : f.start <= at /\ f.start + f.size > at}
        valid == IF over = {} THEN 0 ELSE validLength(CHOOSE f \in over : TRUE, at)
    IN decodeRetrievalSlice(Blob(mdu, b), valid, 0, 0) # Fail

validateRetrievalAllocation ==
  \A f \in {g \in Range(files) : g.size > 0} :
    /\ f.start % RawMdu = 0
    /\ f.start + f.size <= Len(users) * RawMdu
    /\ \A g \in {h \in Range(files) : h.size > 0 /\ h.start > f.start} :
         f.start + computeUserMduCount(f.size) * RawMdu <= g.start

-----------------------------------------------------------------------------
(* The reader of a generation kept in the browser.                           *)
inferMaxEnd == Max({0} \cup {f.start + f.size : f \in {g \in Range(files) : g.size > 0}})

\* Without usable metadata the witness MDUs are what the directory holds beside
\* MDU 0 and the MDUs the files need.
inferWitnessCountFromOpfs(total) == total - 1 - CeilDiv(inferMaxEnd, RawMdu)

decodeRawSliceFromMdu(mdu, at, valid) ==
  LET rest == valid % PayloadBytes
      partial == rest # 0 /\ at \div PayloadBytes = valid \div PayloadBytes
  IN mdu[(at \div PayloadBytes) * ScalarBytes
           + (IF partial THEN ScalarBytes - rest ELSE 1) + (at % PayloadBytes)]

readPolyfsFileFromVerifiedLayout(file, start, length) ==
  LET Read(x) ==
        LET base == (x \div RawMdu) * RawMdu
        IN decodeRawSliceFromMdu(users[x \div RawMdu + 1], x % RawMdu,
                                 Lesser(RawMdu, inferMaxEnd - base))
  IN {<<i, Read(file.start + start + i)>> : i \in 0 .. length - 1}

-----------------------------------------------------------------------------
(* What the pages show of the layout.                                        *)
mduExplorerKind(i) ==
  IF i = 0 THEN "mdu0" ELSE IF i <= computeWitnessLayout THEN "witness" ELSE "user"

\* The window of bytes the deal page gives to an MDU: the listing reports the
\* size of an encoded MDU.
selectedUserMduRange(i) ==
  [from |-> (i - metadataMdus) * MduSize, to |-> (i - metadataMdus + 1) * MduSize]
selectedMduFileOverlaps(i) ==
  {f \in DOMAIN files :
     Greater(files[f].start, selectedUserMduRange(i).from)
       < Lesser(files[f].start + files[f].size, selectedUserMduRange(i).to)}

\* The blob that holds the raw byte of an MDU.
rawOffsetToEncodedPosition(raw) ==
  ((raw \div PayloadBytes) * ScalarBytes + 1 + (raw % PayloadBytes)) \div BlobSize

computePolyfsResolvedRange(file) ==
  LET end == file.start + file.size - 1
  IN [from |-> metadataMdus + file.start \div RawMdu, to |-> metadataMdus + end \div RawMdu,
      fromBlob |-> rawOffsetToEncodedPosition(file.start % RawMdu),
      toBlob |-> rawOffsetToEncodedPosition(end % RawMdu)]

\* The row of the desktop panel for a file.
slabFileRow(file) ==
  LET end == file.start + file.size - 1
  IN [from |-> metadataMdus + file.start \div MduSize, to |-> metadataMdus + end \div MduSize,
      fromBlob |-> (file.start % MduSize) \div BlobSize, toBlob |-> (end % MduSize) \div BlobSize]

-----------------------------------------------------------------------------
(* Properties.                                                               *)
TypeOK ==
  /\ users \in Seq([0 .. MduSize - 1 -> {Zero} \cup ((1 .. MaxFiles) \X Nat)])
  /\ files \in Seq([start : Nat, size : Nat])

\* The bytes start .. start + length - 1 of file f, each with its place.
Content(f, start, length) == {<<i, <<f, start + i>>>> : i \in 0 .. length - 1}
Ranges(f) ==
  {r \in (0 .. files[f].size - 1) \X (1 .. files[f].size) : r[1] + r[2] <= files[f].size}

\* For every file and every range of it, the windows that are opened and paid
\* (retrieval.ts:157), fetched leaf by leaf and decoded (retrievalFlow.ts:41)
\* write exactly the bytes of that range, each at its place in the output; the
\* slab is admitted before anything is paid, and no window is opened twice.
WindowsReturnRange ==
  /\ validateRetrievalAllocation
  /\ \A f \in DOMAIN files : \A r \in Ranges(f) :
       LET plan == planRetrievalWindows(files[f], r[1], r[2])
       IN /\ UNION {decodeRetrievalOutput(files[f], w) : w \in plan} = Content(f, r[1], r[2])
          /\ \A w \in plan, x \in plan :
               w.mdu = x.mdu /\ w.slot = x.slot => w = x

\* For every file and range of a version 3 session the chunks that are fetched
\* are the blobs the obligations are paid for: as many per slot as the
\* obligation says, the last of them at the slot's end (which tells a finished
\* slot from an unfinished one), and together they decode to the range.
ChunksMatchObligations ==
  \A f \in DOMAIN files : \A r \in Ranges(f) :
    LET range == checked_range(files[f], r[1], r[2])
        chunks == planV3Chunks(range)
        Of(s) == UNION {c.entries : c \in {d \in chunks : d.slot = s}}
        owed == expectedObligationsV3(range)
    IN /\ UNION {executeRetrievalV3(files[f], r[1], r[2], c) : c \in chunks}
            = Content(f, r[1], r[2])
       /\ {c.slot : c \in chunks} = {o.slot : o \in owed}
       /\ \A o \in owed : /\ Cardinality(Of(o.slot)) = o.blobCount
                          /\ Max(Of(o.slot)) = retrievalV3SlotEnd(range, o.slot)

\* Recovery and append find for every user MDU its own commitments in the
\* witness MDUs, also where they cross from one witness MDU into the next, the
\* data slots put together are the MDU that was stored, and its packing is
\* admitted against the file records; a gateway restored from the browser's
\* directory is told the same witness count.
RecoveryFindsStored ==
  \A u \in 0 .. Len(users) - 1 :
    /\ inferWitnessCountFromOpfs(metadataMdus + Len(users)) = computeWitnessLayout
    /\ readUserCommitments(u) = PartAt(0, Commitments(u))
    /\ reconstructMduFromMode2SlotSlices(u) = users[u + 1]
    /\ validateRetrievalMduPacking(u, users[u + 1])

\* A download served from the generation kept in the browser returns the bytes
\* of the file ("complete committed MDU bytes are decoded from the pinned
\* generation", cachedDownload.test.ts:126).
CachedIsFile ==
  \A f \in DOMAIN files : \A r \in Ranges(f) :
    readPolyfsFileFromVerifiedLayout(files[f], r[1], r[2]) = Content(f, r[1], r[2])

\* The files the deal page lists for a user MDU are the files with a byte in it
\* ("The overlaps below show which PolyFS files occupy this MDU window.",
\* DealDetail.tsx:2375).
OverlapsAreOccupants ==
  \A i \in 0 .. metadataMdus + Len(users) - 1 :
    mduExplorerKind(i) = "user" =>
      selectedMduFileOverlaps(i)
        = {f \in DOMAIN files :
             \E x \in 0 .. MduSize - 1 : users[i - metadataMdus + 1][x][1] = f}

\* The MDU and blob range the desktop panel derives for a file is the range the
\* file occupies (computePolyfsResolvedRange; "Calls /gateway/list-files to
\* derive file -> MDU ranges", DealSlabPanel.tsx:255).
RowsAreResolved ==
  \A f \in DOMAIN files :
    files[f].size > 0 => slabFileRow(files[f]) = computePolyfsResolvedRange(files[f])
=============================================================================
