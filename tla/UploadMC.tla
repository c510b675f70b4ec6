------------------------------ MODULE UploadMC ------------------------------
(***************************************************************************)
(* The upload of a file for TLC. Its parts share no state: a behaviour is  *)
(* one of a single part, chosen at the start, and s1, s2, ... are the      *)
(* variables of the part that runs.                                        *)
(***************************************************************************)
EXTENDS Integers, Sequences, TLC

CONSTANT None

VARIABLES part,
  s1, s2, s3, s4, s5, s6, s7, s8, s9, s10, s11, s12, s13, s14, s15, s16, s17, s18, s19

vars == <<part,
  s1, s2, s3, s4, s5, s6, s7, s8, s9, s10, s11, s12, s13, s14, s15, s16, s17, s18, s19>>

(* One panel whose slots may have to be replaced, without faults.          *)
Panel == INSTANCE UploadWorkflow WITH
  Faults <- {}, Providers <- {"p1", "p2", "p3", "p4"}, Slots <- {1, 2}, Assigned <- (1 :> "p1" @@ 2 :> "p2"),
  Clients <- {"c1"}, Files <- {"f1", "f2"}, Owner <- [f \in {"f1", "f2"} |-> "c1"], Gateway <- FALSE,
  MaxBumps <- 2, MaxPicks <- 1, MaxCommits <- 2, MaxReloads <- 1,
  chainRoot <- s1, assign <- s2, txs <- s3, receipts <- s4, committed <- s5, stored <- s6, seen <- s7,
  gwSlabs <- s8, disk <- s9, panel <- s10, job <- s11, up <- s12, cm <- s13, saves <- s14, mirrors <- s15,
  bumps <- s16, reloads <- s17, picks <- s18, sent <- s19

(* The same panel, with refused uploads and stale routes.                  *)
Faulty == INSTANCE UploadWorkflow WITH
  Faults <- {"refusal", "routing"}, Providers <- {"p1", "p2", "p3", "p4"}, Slots <- {1, 2},
  Assigned <- (1 :> "p1" @@ 2 :> "p2"), Clients <- {"c1"}, Files <- {"f1", "f2"},
  Owner <- [f \in {"f1", "f2"} |-> "c1"], Gateway <- FALSE, MaxBumps <- 1, MaxPicks <- 1, MaxCommits <- 2,
  MaxReloads <- 1,
  chainRoot <- s1, assign <- s2, txs <- s3, receipts <- s4, committed <- s5, stored <- s6, seen <- s7,
  gwSlabs <- s8, disk <- s9, panel <- s10, job <- s11, up <- s12, cm <- s13, saves <- s14, mirrors <- s15,
  bumps <- s16, reloads <- s17, picks <- s18, sent <- s19

(* Two panels on one deal, through the local gateway.                      *)
Mirrored == INSTANCE UploadWorkflow WITH
  Faults <- {}, Gateway <- TRUE, Providers <- {"p1"}, Slots <- {1}, Assigned <- (1 :> "p1"),
  Clients <- {"c1", "c2"}, Files <- {"f1", "f2", "f3"}, Owner <- [f1 |-> "c1", f2 |-> "c2", f3 |-> "c1"],
  MaxBumps <- 0, MaxPicks <- 1, MaxCommits <- 2, MaxReloads <- 0,
  chainRoot <- s1, assign <- s2, txs <- s3, receipts <- s4, committed <- s5, stored <- s6, seen <- s7,
  gwSlabs <- s8, disk <- s9, panel <- s10, job <- s11, up <- s12, cm <- s13, saves <- s14, mirrors <- s15,
  bumps <- s16, reloads <- s17, picks <- s18, sent <- s19

(* Two panels on one deal, with files dropped on a busy panel.             *)
Race == INSTANCE UploadWorkflow WITH
  Faults <- {"drop"}, Gateway <- FALSE, Providers <- {"p1"}, Slots <- {1}, Assigned <- (1 :> "p1"),
  Clients <- {"c1", "c2"}, Files <- {"f1", "f2", "f3"}, Owner <- [f1 |-> "c1", f2 |-> "c2", f3 |-> "c1"],
  MaxBumps <- 0, MaxPicks <- 1, MaxCommits <- 2, MaxReloads <- 0,
  chainRoot <- s1, assign <- s2, txs <- s3, receipts <- s4, committed <- s5, stored <- s6, seen <- s7,
  gwSlabs <- s8, disk <- s9, panel <- s10, job <- s11, up <- s12, cm <- s13, saves <- s14, mirrors <- s15,
  bumps <- s16, reloads <- s17, picks <- s18, sent <- s19

(* Two slots, a metadata MDU and a shard set; the concurrency limits       *)
(* are smaller than the number of requests.                                *)
Transfer == INSTANCE UploadTransfer WITH
  Slots <- 2, Mdus <- 1, ShardSets <- 1, MetaLimit <- 1, ShardLimit <- 1, DirectLimit <- 2,
  input <- s1, items <- s2, nextIndex <- s3, active <- s4, steps <- s5, firstError <- s6, events <- s7,
  stored <- s8, queue <- s9, produced <- s10, producer <- s11, workers <- s12, result <- s13, run <- s14,
  counters <- s15, stats <- s16, status <- s17, rendered <- s18

(* Two gateway processes; the first listens under two loopback names.      *)
Ingest == INSTANCE GatewayUpload WITH
  Gateways <- {"g1", "g2"}, Bases <- <<"seed", "default", "alternate">>,
  GatewayOf <- [seed |-> "g1", default |-> "g2", alternate |-> "g1"], HaveBase <- {"g2"}, Large <- FALSE,
  MaxFaults <- 5,
  pc <- s1, i <- s2, retried <- s3, err <- s4, flags <- s5, req <- s6, up <- s7, job <- s8, active <- s9,
  slab <- s10, n <- s11, faults <- s12

(* A file of three bytes, encoded and uploaded in three steps.             *)
Progress == INSTANCE ShardProgress WITH
  FileSize <- 3, Steps <- 3, Jump <- 2, MaxTime <- 7, MaxAttempts <- 2,
  now <- s1, processing <- s2, p <- s3, last <- s4, eta <- s5, job <- s6, reported <- s7, attempts <- s8

ASSUME /\ Panel!ConstantsAssumption /\ Faulty!ConstantsAssumption
       /\ Mirrored!ConstantsAssumption /\ Race!ConstantsAssumption
ASSUME Transfer!EngineAssumption
ASSUME Ingest!BasesAssumption

-----------------------------------------------------------------------------
Init ==
  \/ part = "panel" /\ Panel!Init
  \/ part = "faulty" /\ Faulty!Init
  \/ part = "gateway" /\ Mirrored!Init
  \/ part = "race" /\ Race!Init
  \/ part = "transfer" /\ Transfer!TInit /\ s19 = 0
  \/ part = "ingest" /\ Ingest!Init /\ s13 = 0 /\ s14 = 0 /\ s15 = 0 /\ s16 = 0 /\ s17 = 0 /\ s18 = 0 /\ s19 = 0
  \/ part = "progress" /\ Progress!Init /\ s9 = 0 /\ s10 = 0 /\ s11 = 0 /\ s12 = 0 /\ s13 = 0 /\ s14 = 0
     /\ s15 = 0 /\ s16 = 0 /\ s17 = 0 /\ s18 = 0 /\ s19 = 0

Next ==
  \/ part = "panel" /\ Panel!Next /\ UNCHANGED part
  \/ part = "faulty" /\ Faulty!Next /\ UNCHANGED part
  \/ part = "gateway" /\ Mirrored!Next /\ UNCHANGED part
  \/ part = "race" /\ Race!Next /\ UNCHANGED part
  \/ part = "transfer" /\ Transfer!TNext /\ UNCHANGED <<part, s19>>
  \/ part = "ingest" /\ Ingest!Next /\ UNCHANGED <<part, s13, s14, s15, s16, s17, s18, s19>>
  \/ part = "progress" /\ Progress!Next /\ UNCHANGED <<part, s9, s10, s11, s12, s13, s14, s15, s16, s17, s18, s19>>

Spec == Init /\ [][Next]_vars

-----------------------------------------------------------------------------
(* Every commit transaction a panel sends names a generation that is held, *)
(* slot by slot, by the providers the chain assigns at that moment.  A     *)
(* commit never drops a file that was committed before, whatever the two   *)
(* panels knew when they prepared theirs; where files are dropped on a     *)
(* busy panel, it drops none of the other panel's.                         *)
CommitsAreSafe ==
  [][/\ part = "panel" => Panel!SignsStaged
     /\ part = "gateway" => Mirrored!Appends
     /\ part = "race" => Race!DropsOwn]_vars

(* What a panel takes for committed, and what the browser keeps on disk as *)
(* a committed generation, was accepted by the chain.                      *)
LocalStateIsCommitted ==
  /\ part = "faulty" => Faulty!LocalStateIsCommitted
  /\ part = "gateway" => Mirrored!LocalStateIsCommitted

(* The result of a call of the engine accounts for every artifact; the     *)
(* card counts from events what the engine counts at its requests, and     *)
(* publishes no more than that.                                            *)
ResultAccounts == part = "transfer" => Transfer!ResultAccounts /\ Transfer!TransferReported

(* A gateway never receives or ingests one upload id twice at the same     *)
(* time.                                                                   *)
OneIngest == part = "ingest" => Ingest!OneIngest

(* The card shows no progress the job of this attempt has not made.        *)
ProgressHonest == part = "progress" => Progress!ProgressHonest
=============================================================================
