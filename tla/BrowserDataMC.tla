---------------------------- MODULE BrowserDataMC ---------------------------
(***************************************************************************)
(* How the browser prepares the data it uploads and reads back what is     *)
(* stored, for TLC. The parts share no state: a behaviour is one of a      *)
(* single part, chosen at the start, and s1, s2, ... are the variables of  *)
(* the part that runs.                                                     *)
(***************************************************************************)
EXTENDS Integers, Sequences, TLC

CONSTANT None

VARIABLES part,
  s1, s2, s3, s4, s5, s6, s7, s8, s9, s10, s11, s12

vars == <<part,
  s1, s2, s3, s4, s5, s6, s7, s8, s9, s10, s11, s12>>

(* Three commits, the second a batch of two MDUs, the last one profiled;   *)
(* "wide" is the calibration's rival to "serial".                          *)
Calls == {"a", "b", "c"}
Backend == INSTANCE KzgBackend WITH
  Calls <- Calls, Blobs <- [c \in Calls |-> IF c = "a" THEN 1 ELSE 2],
  BatchMdus <- [c \in Calls |-> IF c = "c" THEN 1 ELSE 2],
  Dispatches <- [c \in Calls |-> IF c = "b" THEN 2 ELSE 1], Profiled <- {"c"}, MinBlobs <- 1,
  CalibrationMin <- 2, MaxConcurrent <- 1, MaxCommitters <- 4, MaxLost <- 1,
  Modes <- {"serial", "wide", "narrow"}, DefaultMode <- "serial", Broken <- {"narrow"},
  kind <- s1, circuit <- s2, probeStatus <- s3, cached <- s4, selected <- s5, calibrating <- s6, probing <- s7,
  committer <- s8, coms <- s9, retired <- s10, job <- s11, call <- s12

(* Four MDUs, the last with another shard length (the tail of the file).   *)
Scheduler == INSTANCE KzgScheduler WITH
  NumMdus <- 4, Blobs <- 2, Shape <- <<"full", "full", "full", "tail">>, MaxBatchMdus <- 4, MaxBatchBlobs <- 6,
  AppleCap <- 2, MaxQueueDepth <- 3, MaxCrashes <- 2,
  next <- s1, expansion <- s2, attached <- s3, spare <- s4, queue <- s5, run <- s6, cap <- s7, owner <- s8,
  reply <- s9, result <- s10, crashes <- s11, timedOut <- s12

(* Two callers of the metadata builder.                                    *)
Builder == INSTANCE GatewayWorker WITH
  Clients <- {"a", "b"}, Commit <- {}, Expand <- {}, Batches <- 3,
  Kinds <- {"initMdu0Builder", "loadMdu0Builder", "appendFileToMdu0", "setMdu0RootsBatch", "prepareMdu0Bytes",
            "prepareAndCommitMdu0", "getMdu0Bytes", "initRetrievalWasm", "initPolyStoreWasm"},
  MaxCalls <- 6, MaxCrashes <- 0, InitCrashes <- FALSE,
  wasm <- s1, instance <- s2, backend <- s3, builder <- s4, busy <- s5, pool <- s6, worker <- s7,
  members <- s8, call <- s9, answered <- s10, calls <- s11, crashes <- s12

(* MDUs of four bytes and two blobs; two runs, in a new deal or after one  *)
(* committed MDU.                                                          *)
Files == {[path |-> "a", size |-> 0, head |-> "plain"], [path |-> "a", size |-> 5, head |-> "plain"],
          [path |-> "b", size |-> 7, head |-> "bad"], [path |-> "committed", size |-> 4, head |-> "zstd"]}
Slab == INSTANCE PrepareSlab WITH
  Runs <- {"r1", "r2"}, Files <- Files, Existing <- {0, 1}, Hardware <- 3, BlobsPerMdu <- 2,
  ScalarsPerBlob <- 1, PayloadBytes <- 2, CommitmentBytes <- 1, HeaderBytes <- 1, K <- 2, M <- 1,
  Drops <- FALSE,
  striped <- s1, base <- s2, run <- s3, builder <- s4, busy <- s5, processing <- s6, shards <- s7,
  published <- s8

(* Two cells per blob and windows of two bits; a point of three words      *)
(* keeps the ratio of point and index capacities that 96 words have.       *)
Msm == INSTANCE KzgMsm WITH
  Points <- 2, Cells <- {0, 1, 2, 6, 11, 13, 22, 29}, FrModulus <- 29, BucketWidth <- 2, PointWords <- 3,
  WorkgroupSize <- 4, ReductionSize <- 2, MaxBlobs <- 2,
  mode <- s1, scratch <- s2, pc <- s3, last <- s4, answer <- s5, blobs <- s6

(* Two waves of two MDUs whose sessions may expire.                        *)
Wave == INSTANCE WaveRetrieval WITH
  NMdus <- 2, K <- 2, M <- 1, MaxGens <- 2, MaxFaults <- 2, Expiry <- TRUE,
  gen <- s1, sess <- s2, journal <- s3, ckpt <- s4, rows <- s5, disk <- s6, page <- s7, finished <- s8,
  faults <- s9

(* Two generations: the wanted file spans two MDUs in the first, and is    *)
(* the third record of the second, behind a deleted one.                   *)
file(path, first, count) == [path |-> path, first |-> first, count |-> count, flags |-> 0]
fat == << <<file("f", 1, 5)>>, <<file("", 0, 0), file("g", 0, 4), file("f", 4, 2)>> >>
Authority == INSTANCE RetrievalAuthority WITH
  K <- 2, M <- 1, Rows <- 2, Fat <- fat, UserMdus <- <<2, 2>>, Path <- "f", Owners <- {"owner", "sponsor"},
  Modes <- {"public", "restricted"}, V2At <- 1, V3At <- 2, MaxHeight <- 3,
  chain <- s1, sessions <- s2, wallet <- s3, header <- s4, pc <- s5, goal <- s6, asked <- s7, auth <- s8,
  rec <- s9, intent <- s10, sess <- s11, got <- s12

(* Up to three files whose sizes meet the edges of blobs and MDUs.         *)
Format == INSTANCE SlabFormat WITH
  PayloadBytes <- 3, ScalarsPerBlob <- 2, BlobsPerMdu <- 4, CommitmentBytes <- 1, K <- 2, M <- 3,
  Sizes <- {0, 1, 3, 5, 6, 8, 12, 23, 24, 25}, MaxFiles <- 3, Fail <- None,
  users <- s1, files <- s2

(* A gateway, a provider's base, one direct provider and a peer.           *)
Router == INSTANCE TransportRouter WITH
  Gw <- "gw", Sp <- "sp", Directs <- {"d1"}, Peer <- "peer", Providers <- {"p1", "p2"},
  Expected <- {"p1", None}, Trusted <- {"gw"}, Disabled <- FALSE, P2pEnabled <- TRUE,
  Ops <- {"list_files", "slab", "manifest_info", "mdu_kzg", "plan", "upload", "fetch", "window", "v3_metadata", "v3_chunk"},
  MaxCalls <- 1, MaxPolls <- 1,
  record <- s1, preference <- s2, node <- s3, call <- s4, calls <- s5

ASSUME /\ Backend!BackendAssumption /\ Scheduler!SchedulerAssumption
       /\ Builder!GatewayWorkerAssumption /\ Msm!MsmAssumption
ASSUME Authority!AuthorityAssumption /\ Format!FormatAssumption

Unused3 == <<part, s10, s11, s12>>
Unused4 == <<part, s9, s10, s11, s12>>
Unused6 == <<part, s7, s8, s9, s10, s11, s12>>
Unused7 == <<part, s6, s7, s8, s9, s10, s11, s12>>
Unused10 == <<part, s3, s4, s5, s6, s7, s8, s9, s10, s11, s12>>

-----------------------------------------------------------------------------
Init ==
  \/ part = "backend" /\ Backend!Init
  \/ part = "scheduler" /\ Scheduler!Init
  \/ part = "builder" /\ Builder!Init
  \/ part = "slab" /\ Slab!Init /\ s9 = 0 /\ s10 = 0 /\ s11 = 0 /\ s12 = 0
  \/ part = "msm" /\ Msm!Init /\ s7 = 0 /\ s8 = 0 /\ s9 = 0 /\ s10 = 0 /\ s11 = 0 /\ s12 = 0
  \/ part = "wave" /\ Wave!Init /\ s10 = 0 /\ s11 = 0 /\ s12 = 0
  \/ part = "authority" /\ Authority!Init
  \/ part = "format" /\ Format!Init /\ s3 = 0 /\ s4 = 0 /\ s5 = 0 /\ s6 = 0 /\ s7 = 0 /\ s8 = 0 /\ s9 = 0
     /\ s10 = 0 /\ s11 = 0 /\ s12 = 0
  \/ part = "transport" /\ Router!Init /\ s6 = 0 /\ s7 = 0 /\ s8 = 0 /\ s9 = 0 /\ s10 = 0 /\ s11 = 0 /\ s12 = 0

Next ==
  \/ part = "backend" /\ Backend!Next /\ UNCHANGED part
  \/ part = "scheduler" /\ Scheduler!Next /\ UNCHANGED part
  \/ part = "builder" /\ Builder!Next /\ UNCHANGED part
  \/ part = "slab" /\ Slab!Next /\ UNCHANGED Unused4
  \/ part = "msm" /\ Msm!Next /\ UNCHANGED Unused6
  \/ part = "wave" /\ Wave!Next /\ UNCHANGED Unused3
  \/ part = "authority" /\ Authority!Next /\ UNCHANGED part
  \/ part = "format" /\ Format!Next /\ UNCHANGED Unused10
  \/ part = "transport" /\ Router!Next /\ UNCHANGED Unused7

Spec == Init /\ [][Next]_vars

-----------------------------------------------------------------------------
(* Whichever GPU mode, calibration, lost device or fall-back a commit ran  *)
(* into, its answer is the one the CPU would have given; and the           *)
(* commitment computed on the GPU is right whatever earlier blobs left in  *)
(* the buffers, unless a thread stores past their end.                     *)
ParityPreserved ==
  /\ part = "backend" => Backend!ParityPreserved
  /\ part = "msm" => Msm!ParityInBounds

(* An MDU is resolved with the commitments of its own blobs, whatever was  *)
(* split, retried after a crash or done by the fall-back.                  *)
OwnCommitments == part = "scheduler" => Scheduler!OwnCommitments

(* The metadata builder holds what the operations that were answered put   *)
(* there, in their order, and nothing of one that failed.                  *)
BuilderIsItsHistory == part = "builder" => Builder!BuilderIsItsHistory

(* What a run publishes for upload is one whole generation of its file.    *)
PreparedIsGeneration == part = "slab" => Slab!PreparedIsGeneration

(* A session acknowledged and not settled has its bytes saved and is taken *)
(* up again.                                                               *)
AckedIsRemembered == part = "wave" => Wave!AckedIsRemembered

(* The pinned deal, the paid session and every accepted blob agree.        *)
BytesAreRequested == part = "authority" => Authority!BytesAreRequested

(* The windows of a read return exactly the bytes of the range asked for;  *)
(* recovery and append find for every user MDU what was stored for it.     *)
ReadsWhatIsStored == part = "format" => Format!WindowsReturnRange /\ Format!RecoveryFindsStored

(* An operation fails only after every candidate it may use was tried, and *)
(* a paid read is answered by the provider that is paid.                   *)
FallbackIsComplete ==
  part = "transport" => Router!FallbackIsComplete /\ Router!ServedByPaidProvider
=============================================================================
