----------------------------- MODULE PrepareSlab -----------------------------
(***************************************************************************)
(* The upload card prepares a file in the browser (processFile of          *)
(* FileSharder.tsx): it reads and possibly compresses the file, plans the  *)
(* slab, expands the user MDUs on a pool of workers, encodes the witness   *)
(* MDUs from the commitments the pool returned, writes roots and record    *)
(* into the MDU #0 builder, and publishes the prepared generation.         *)
(*                                                                         *)
(* Every run of processFile has its own closure (run[r]).  The MDU #0      *)
(* builder lives in the page's one worker and is shared by all runs, as    *)
(* are the published generation and the list of shards.  A pool worker     *)
(* that fails ends its run; the run's other workers go on.                 *)
(*                                                                         *)
(* An MDU is named by its content: <<"old", i>> is user MDU i of the       *)
(* committed generation, <<r, i>> the i-th chunk of run r's bytes.  A root *)
(* is the content it commits to, a commitment a pair of content and leaf.  *)
(* Progress numbers other than the weighted work are left out.             *)
(***************************************************************************)
EXTENDS Integers, FiniteSets, SequencesExt

CONSTANTS
    Runs,             \* the runs of processFile
    Files,            \* the files the user may choose: [path, size, head]
    Existing,         \* user MDUs the committed generation may hold
    Hardware,         \* navigator.hardwareConcurrency
    BlobsPerMdu, ScalarsPerBlob, PayloadBytes, CommitmentBytes, HeaderBytes,
    K, M,             \* the stripe parameters
    Drops,            \* may a file be dropped while another is prepared?
    None

RawMduCapacity == BlobsPerMdu * ScalarsPerBlob * PayloadBytes
CeilDiv(a, b) == (a + b - 1) \div b
MinOf(a, b) == IF a < b THEN a ELSE b
MaxOf(a, b) == IF a > b THEN a ELSE b

VARIABLES
    striped,     \* the deal has stripe parameters (mode 2)
    base,        \* the committed generation: user MDUs and records
    run,         \* the closures
    builder,     \* the worker's MDU #0 builder: roots and records
    busy,        \* the run whose MDU #0 is being committed
    processing,
    shards,      \* mode2Shards
    published    \* collectedMdus with the MDU #0 they hold
vars == <<striped, base, run, builder, busy, processing, shards, published>>

(***************************************************************************)
(* The stored bytes (polyce.ts).                                           *)
(***************************************************************************)
peekPolyceHeader(f) ==
    [ok |-> f.head # "plain", error |-> f.head = "bad",
     encoding |-> IF f.head = "zstd" THEN "zstd" ELSE "none"]

\* A wrapping must save at least 500 basis points.
maybeWrapPolyceZstd(size, compressed) ==
    LET encoded == compressed + HeaderBytes
    IN  IF size = 0 \/ encoded >= size \/ ((size - encoded) * 10000) \div size < 500
        THEN [size |-> size, flags |-> "none"]
        ELSE [size |-> encoded, flags |-> "zstd"]

\* What may be stored for f: a file with a header is kept; another may be
\* wrapped when the user asks for it and compression does not fail.
Stored(f) ==
    LET header == peekPolyceHeader(f)
        kept == [size |-> f.size, flags |-> header.encoding]
    IN  IF header.ok /\ ~header.error
        THEN {kept}
        ELSE {kept} \cup {maybeWrapPolyceZstd(f.size, c) : c \in 1 .. f.size}

(***************************************************************************)
(* The plan (planner.ts).  Work is counted in tenths of a blob.            *)
(***************************************************************************)
nonTrivialBlobsForPayload(payload) ==
    MinOf(BlobsPerMdu, CeilDiv(CeilDiv(payload, PayloadBytes), ScalarsPerBlob))

weightedWorkForMdu(nonTrivial) == 10 * nonTrivial + (BlobsPerMdu - nonTrivial)

computeLeafCount(useMode2) ==
    IF useMode2 THEN (K + M) * (BlobsPerMdu \div K) ELSE BlobsPerMdu

Work(payloads) ==
    FoldLeft(LAMBDA acc, p : acc + weightedWorkForMdu(nonTrivialBlobsForPayload(p)), 0, payloads)

Payload(total, i) == MaxOf(0, MinOf(RawMduCapacity, total - i * RawMduCapacity))

buildUploadPlan(size, useMode2, existing, existingMaxEnd) ==
    LET newUserMdus == CeilDiv(size, RawMduCapacity)
        users == existing + newUserMdus
        witnessBytes == users * computeLeafCount(useMode2) * CommitmentBytes
        witnesses == MaxOf(1, CeilDiv(witnessBytes, RawMduCapacity))
        witnessPayloads == [i \in 1 .. witnesses |-> Payload(witnessBytes, i - 1)]
        userPayloads == [i \in 1 .. users |->
                            IF i <= existing THEN Payload(existingMaxEnd, i - 1)
                            ELSE Payload(size, i - 1 - existing)]
    IN  [existing |-> existing, start |-> existing * RawMduCapacity,
         users |-> users, witnesses |-> witnesses, totalMdus |-> 1 + witnesses + users,
         userPayloads |-> userPayloads, witnessPayloads |-> witnessPayloads,
         workTotal |-> weightedWorkForMdu(1) + Work(witnessPayloads) + Work(userPayloads)]

pickExpansionWorkerCount(jobs) ==
    LET desired == IF Hardware >= 10 THEN 6 ELSE IF Hardware >= 8 THEN 5
                   ELSE IF Hardware >= 6 THEN 4 ELSE IF Hardware >= 4 THEN 3
                   ELSE IF Hardware >= 3 THEN 2 ELSE 1
    IN  MaxOf(1, MinOf(desired, MaxOf(1, jobs)))

(***************************************************************************)
(* Contents.                                                               *)
(***************************************************************************)
\* The commitments of a user MDU's leaves.
witness_flat(content) ==
    [j \in 1 .. computeLeafCount(striped) * CommitmentBytes |-> <<content, j>>]

\* The bytes of MDU i cut out of a sequence.
Chunk(bytes, i) ==
    SubSeq(bytes, i * RawMduCapacity + 1, MinOf((i + 1) * RawMduCapacity, Len(bytes)))

NoBuilder == [made |-> FALSE, roots |-> << >>, records |-> << >>]
NoPlan == [existing |-> 0, start |-> 0, users |-> 0, witnesses |-> 0, totalMdus |-> 0,
           userPayloads |-> << >>, witnessPayloads |-> << >>, workTotal |-> 0]

\* A closure that has not begun.
NoRun == [pc |-> "idle", file |-> None, size |-> 0, flags |-> "none", plan |-> NoPlan,
          next |-> 0, at |-> << >>, mdus |-> << >>, witness |-> << >>,
          data |-> << >>, wmdus |-> << >>, work |-> 0, mdu0 |-> NoBuilder]

\* A pool worker whose loop has thrown.
Dead == [i |-> -1, input |-> None]

\* The committed generation has one file that ends inside its last MDU.
Committed(n) ==
    [users |-> n, maxEnd |-> MaxOf(0, n * RawMduCapacity - 1),
     records |-> IF n = 0 THEN << >>
                 ELSE <<[path |-> "committed", start |-> 0,
                         size |-> n * RawMduCapacity - 1, flags |-> "none"]>>]

Init ==
    /\ striped \in BOOLEAN
    /\ base \in {Committed(n) : n \in Existing}
    /\ run = [r \in Runs |-> NoRun]
    /\ builder = NoBuilder /\ busy = None
    /\ processing = FALSE
    /\ shards = << >> /\ published = None

(***************************************************************************)
(* Steps of a run.                                                         *)
(***************************************************************************)
\* The run ends with an error; its finally clause clears the busy flag.
Failed(r, closure) ==
    /\ run' = [run EXCEPT ![r] = [closure EXCEPT !.pc = "failed"]]
    /\ processing' = FALSE

\* The user selects a file, or drops one on the card.
ChooseFile(r) ==
    /\ run[r].pc = "idle"
    /\ processing => Drops
    /\ \E f \in Files : run' = [run EXCEPT ![r].pc = "read", ![r].file = f]
    /\ processing' = TRUE
    /\ shards' = << >> /\ published' = None
    /\ UNCHANGED <<striped, base, builder, busy>>

\* The bytes are read and, if they shrink, wrapped.
ReadFile(r) ==
    /\ run[r].pc = "read"
    /\ \E s \in Stored(run[r].file) :
          run' = [run EXCEPT ![r].pc = IF striped THEN "base" ELSE "plan",
                             ![r].size = s.size, ![r].flags = s.flags]
    /\ UNCHANGED <<striped, base, builder, busy, processing, shards, published>>

\* file.arrayBuffer() rejects outside of every try: the card stays busy.
ReadFails(r) ==
    /\ run[r].pc = "read"
    /\ run' = [run EXCEPT ![r].pc = "rejected"]
    /\ UNCHANGED <<striped, base, builder, busy, processing, shards, published>>

\* The committed generation is resolved and its user roots authenticated.
ResolveBase(r) ==
    /\ run[r].pc = "base"
    /\ run' = [run EXCEPT ![r].pc = "plan", ![r].plan.existing = base.users]
    /\ UNCHANGED <<striped, base, builder, busy, processing, shards, published>>

BaseFails(r) ==
    /\ run[r].pc = "base"
    /\ Failed(r, run[r])
    /\ UNCHANGED <<striped, base, builder, busy, shards, published>>

\* The slab is planned.
Plan(r) ==
    /\ run[r].pc = "plan"
    /\ LET n == run[r].plan.existing
       IN  run' = [run EXCEPT ![r].pc = "builder",
                     ![r].plan = buildUploadPlan(run[r].size, striped, n,
                                                 IF n > 0 THEN base.maxEnd ELSE 0)]
    /\ UNCHANGED <<striped, base, builder, busy, processing, shards, published>>

\* The builder starts from the committed MDU #0 in an append, else empty.
StartBuilder(r) ==
    /\ run[r].pc = "builder" /\ busy = None
    /\ builder' = [made |-> TRUE, roots |-> << >>,
                   records |-> IF run[r].plan.existing > 0 THEN base.records ELSE << >>]
    /\ LET width == IF striped THEN pickExpansionWorkerCount(run[r].plan.users) ELSE 1
       IN  run' = [run EXCEPT ![r].pc = "users", ![r].at = [w \in 1 .. width |-> None]]
    /\ UNCHANGED <<striped, base, busy, processing, shards, published>>

(***************************************************************************)
(* The user MDUs of a striped deal: a pool of workers.                     *)
(***************************************************************************)
isExisting(r, i) == i < run[r].plan.existing

\* A worker takes the next index.  A new MDU is cut from the bytes, a
\* committed one is still to be read.
UserTake(r, w) ==
    /\ striped /\ run[r].pc \in {"users", "failed"} /\ w \in DOMAIN run[r].at
    /\ run[r].at[w] = None
    /\ run[r].next < run[r].plan.users
    /\ LET i == run[r].next
           input == IF isExisting(r, i) THEN None ELSE <<r, i - run[r].plan.existing>>
       IN  run' = [run EXCEPT ![r].next = i + 1, ![r].at[w] = [i |-> i, input |-> input]]
    /\ UNCHANGED <<striped, base, builder, busy, processing, shards, published>>

Holds(r, w) == w \in DOMAIN run[r].at /\ run[r].at[w] \notin {None, Dead}

\* A committed MDU is read from local storage, which may have been altered.
readAppendMdu(r, w) ==
    /\ striped /\ Holds(r, w) /\ run[r].at[w].input = None
    /\ \E kind \in {"old", "altered"} :
          run' = [run EXCEPT ![r].at[w].input = <<kind, run[r].at[w].i>>]
    /\ UNCHANGED <<striped, base, builder, busy, processing, shards, published>>

\* The root of a committed MDU must be the one the committed table holds.
assertPolyfsRootCell(root, i) == root = <<"old", i>>

\* Fault: the workers push their results in the order they finish.
userCommittedPush(c, w) ==
    LET i == c.at[w].i  n == Cardinality(DOMAIN c.witness)
    IN  [c EXCEPT !.at[w] = None,
                  !.mdus = @ @@ (n :> c.at[w].input),
                  !.witness = @ @@ (n :> witness_flat(c.at[w].input)),
                  !.work = @ + weightedWorkForMdu(
                                  nonTrivialBlobsForPayload(c.plan.userPayloads[i + 1]))]

\* The counters after a committed user MDU; results are stored by index.
userCommitted(c, w) ==
    LET i == c.at[w].i
    IN  [c EXCEPT !.at[w] = None,
                  !.mdus = @ @@ (i :> c.at[w].input),
                  !.witness = @ @@ (i :> witness_flat(c.at[w].input)),
                  !.work = @ + weightedWorkForMdu(
                                  nonTrivialBlobsForPayload(c.plan.userPayloads[i + 1]))]

\* The expansion of a worker's MDU arrives.
UserExpanded(r, w) ==
    /\ striped /\ Holds(r, w) /\ run[r].at[w].input # None
    /\ isExisting(r, run[r].at[w].i)
          => assertPolyfsRootCell(run[r].at[w].input, run[r].at[w].i)
    /\ run' = [run EXCEPT ![r] = userCommitted(run[r], w)]
    /\ UNCHANGED <<striped, base, builder, busy, processing, shards, published>>

\* A read, an expansion or the root check throws: the worker's loop ends and
\* rejects the run, unless it was rejected before.
UserFails(r, w) ==
    /\ striped /\ Holds(r, w)
    /\ LET closure == [run[r] EXCEPT !.at[w] = Dead]
       IN  IF run[r].pc = "users"
           THEN Failed(r, closure)
           ELSE run' = [run EXCEPT ![r] = closure] /\ UNCHANGED processing
    /\ UNCHANGED <<striped, base, builder, busy, shards, published>>

(***************************************************************************)
(* The user MDUs of another deal: one after the other.                     *)
(***************************************************************************)
ShardUser(r) ==
    /\ ~striped /\ run[r].pc = "users" /\ run[r].at[1] = None
    /\ run[r].next < run[r].plan.users
    /\ LET i == run[r].next
       IN  run' = [run EXCEPT ![r].next = i + 1, ![r].mdus = @ @@ (i :> <<r, i>>),
                              ![r].at[1] = [i |-> i, input |-> <<r, i>>]]
    /\ UNCHANGED <<striped, base, builder, busy, processing, shards, published>>

ShardedUser(r) ==
    /\ ~striped /\ run[r].pc = "users" /\ Holds(r, 1)
    /\ run' = [run EXCEPT ![r] = userCommitted(run[r], 1)]
    /\ UNCHANGED <<striped, base, builder, busy, processing, shards, published>>

(***************************************************************************)
(* The witness MDUs.                                                       *)
(***************************************************************************)
\* Results in index order.
InOrder(f) == [i \in 1 .. Cardinality(DOMAIN f) |-> f[i - 1]]

\* Every worker has ended: the shards are listed, the commitments joined, and
\* their size compared with the plan.
UsersEnd(r) ==
    /\ run[r].pc = "users" /\ run[r].next >= run[r].plan.users
    /\ \A w \in DOMAIN run[r].at : run[r].at[w] = None
    /\ shards' = IF striped THEN InOrder(run[r].mdus) ELSE shards
    /\ LET full == FlattenSeq(InOrder(run[r].witness))
           closure == [run[r] EXCEPT !.data = full]
       IN  IF CeilDiv(Len(full), RawMduCapacity) # run[r].plan.witnesses
           THEN Failed(r, closure)
           ELSE /\ run' = [run EXCEPT ![r] = [closure EXCEPT !.pc = "witness"]]
                /\ UNCHANGED processing
    /\ UNCHANGED <<striped, base, builder, busy, published>>

\* The commitment of the next witness MDU arrives.
WitnessCommitted(r) ==
    /\ run[r].pc = "witness" /\ Len(run[r].wmdus) < run[r].plan.witnesses
    /\ LET i == Len(run[r].wmdus)
           work == weightedWorkForMdu(
                      nonTrivialBlobsForPayload(run[r].plan.witnessPayloads[i + 1]))
       IN  run' = [run EXCEPT ![r].wmdus = Append(@, Chunk(run[r].data, i)),
                              ![r].work = @ + work,
                              ![r].pc = IF i + 1 = run[r].plan.witnesses
                                        THEN "mdu0" ELSE "witness"]
    /\ UNCHANGED <<striped, base, builder, busy, processing, shards, published>>

(***************************************************************************)
(* MDU #0 and the published generation.                                    *)
(***************************************************************************)
\* Roots and record are staged on the builder; the table keeps what it had
\* where no root is written.
rootsFlat(r) == run[r].wmdus \o InOrder(run[r].mdus)
Staged(r) ==
    [made |-> TRUE,
     roots |-> rootsFlat(r) \o SubSeq(builder.roots, Len(rootsFlat(r)) + 1, Len(builder.roots)),
     records |-> Append(builder.records,
        [path |-> run[r].file.path, start |-> run[r].plan.start,
         size |-> run[r].size, flags |-> run[r].flags])]

\* A path the table already lists is refused.
DuplicatePath(r) == \E j \in DOMAIN builder.records : builder.records[j].path = run[r].file.path

Mdu0Starts(r) ==
    /\ run[r].pc = "mdu0" /\ busy = None
    /\ ~DuplicatePath(r)
    /\ busy' = r
    /\ run' = [run EXCEPT ![r].mdu0 = Staged(r)]
    /\ UNCHANGED <<striped, base, builder, processing, shards, published>>

Mdu0Committed(r) ==
    /\ busy = r
    /\ busy' = None
    /\ builder' = run[r].mdu0
    /\ run' = [run EXCEPT ![r].pc = "manifest", ![r].work = @ + weightedWorkForMdu(1)]
    /\ UNCHANGED <<striped, base, processing, shards, published>>

\* The manifest is computed and the generation published.
Publish(r) ==
    /\ run[r].pc = "manifest"
    /\ published' = [by |-> r, mdu0 |-> run[r].mdu0,
                     mdus |-> <<run[r].mdu0>> \o run[r].wmdus \o InOrder(run[r].mdus)]
    /\ run' = [run EXCEPT ![r].pc = "done"]
    /\ processing' = FALSE
    /\ UNCHANGED <<striped, base, builder, busy, shards>>

\* Any other awaited call may throw; a builder call does while another run's
\* MDU #0 is being committed, or when the path is already listed.
StepFails(r) ==
    /\ run[r].pc \in {"builder", "witness", "mdu0", "manifest"} \/ (~striped /\ run[r].pc = "users")
    /\ busy' = IF busy = r THEN None ELSE busy
    /\ Failed(r, run[r])
    /\ UNCHANGED <<striped, base, builder, shards, published>>

Step(r) ==
    \/ ChooseFile(r) \/ ReadFile(r) \/ ReadFails(r)
    \/ ResolveBase(r) \/ BaseFails(r) \/ Plan(r)
    \/ StartBuilder(r)
    \/ \E w \in 1 .. 6 : UserTake(r, w) \/ readAppendMdu(r, w) \/ UserExpanded(r, w) \/ UserFails(r, w)
    \/ ShardUser(r) \/ ShardedUser(r) \/ UsersEnd(r) \/ WitnessCommitted(r)
    \/ Mdu0Starts(r) \/ Mdu0Committed(r) \/ Publish(r) \/ StepFails(r)

Next == \E r \in Runs : Step(r)

Spec == Init /\ [][Next]_vars

(***************************************************************************)
(* Properties.                                                             *)
(***************************************************************************)
TypeOK ==
    /\ striped \in BOOLEAN /\ processing \in BOOLEAN
    /\ busy \in Runs \cup {None}
    /\ \A r \in Runs : run[r].next \in 0 .. run[r].plan.users

\* The user MDUs a run must publish: the committed ones, then its chunks.
Users(r) ==
    LET n == IF striped THEN base.users ELSE 0
    IN  [i \in 1 .. n + CeilDiv(run[r].size, RawMduCapacity) |->
            IF i <= n THEN <<"old", i - 1>> ELSE <<r, i - 1 - n>>]

\* A published generation is the one the file calls for: the committed user
\* MDUs unaltered and the file's chunks after them, in order whatever order
\* the pool finished in; witness MDUs that hold every user MDU's commitments
\* in the same order; a root table with the root of each MDU at its place; the
\* committed records and one for the file, at the first byte after the
\* committed MDUs; the shards of the same user MDUs; and all the planned work
\* done, even when an earlier run failed and its workers still go on.
PreparedIsGeneration ==
    published # None =>
       LET r == published.by
           users == Users(r)
           n == IF striped THEN base.users ELSE 0
           witness == SubSeq(published.mdus, 2, Len(published.mdus) - Len(users))
       IN  /\ SubSeq(published.mdus, Len(witness) + 2, Len(published.mdus)) = users
           /\ FlattenSeq(witness) = FlattenSeq([i \in DOMAIN users |-> witness_flat(users[i])])
           /\ published.mdu0.roots = Tail(published.mdus)
           /\ published.mdu0.records =
                 Append(IF n > 0 THEN base.records ELSE << >>,
                        [path |-> run[r].file.path, start |-> n * RawMduCapacity,
                         size |-> run[r].size, flags |-> run[r].flags])
           /\ striped => shards = users
           /\ Len(published.mdus) = run[r].plan.totalMdus
           /\ run[r].work = run[r].plan.workTotal

\* No two files of a published generation share a user MDU: "Current
\* native/browser append producers allocate a fresh MDU for each file."
FreshMduPerFile ==
    published # None =>
       LET records == published.mdu0.records
           Mdus(rec) == rec.start \div RawMduCapacity
                           .. CeilDiv(rec.start + rec.size, RawMduCapacity) - 1
       IN  \A i, j \in DOMAIN records : i # j => Mdus(records[i]) \cap Mdus(records[j]) = {}
=============================================================================
