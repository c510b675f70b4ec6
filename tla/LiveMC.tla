------------------------------- MODULE LiveMC -------------------------------
(***************************************************************************)
(* What the website and the desktop app must eventually do, for TLC. Its   *)
(* parts share no state: a behaviour is one of a single part, chosen at    *)
(* the start, and s1, s2, ... are the variables of the part that runs. A   *)
(* part is fair as its own specification says.                             *)
(***************************************************************************)
EXTENDS Integers, Sequences, TLC

CONSTANT None

VARIABLES part,
  s1, s2, s3, s4, s5, s6, s7, s8, s9, s10, s11, s12, s13, s14, s15

vars == <<part,
  s1, s2, s3, s4, s5, s6, s7, s8, s9, s10, s11, s12, s13, s14, s15>>

(* Two hooks that share the record of the local gateway, at two loopback   *)
(* names.                                                                  *)
swap == [b \in {"ip8080", "host8080", "remote"} |-> CASE b = "ip8080" -> "host8080" [] b = "host8080" -> "ip8080" [] OTHER -> None]
Record == INSTANCE LocalGateway WITH
  Bases <- {"ip8080", "host8080", "remote"}, Trusted <- {"ip8080", "host8080"},
  Defaults <- <<"ip8080", "host8080">>, Swap <- swap, Config <- "remote", Disabled <- FALSE, Hooks <- {1, 2},
  Kinds <- {"user", "old", "none"}, MaxMounts <- 2, MaxShows <- 1, MaxChanges <- 1,
  listening <- s1, record <- s2, hook <- s3, mounts <- s4, shows <- s5, changes <- s6

(* Two accounts, of which the wallet exposes none or one.                  *)
Guard == INSTANCE NetworkGuard WITH
  Accounts <- {"a", "b"}, Exposures <- {<< >>, <<"a">>, <<"b">>}, Slots <- {1, 2}, MaxChanges <- 2,
  MaxFaults <- 1,
  wallet <- s1, addr <- s2, guard <- s3, refreshes <- s4, timer <- s5, switching <- s6, changes <- s7,
  faults <- s8

(* Two calls of ensureGateway and a tick in flight.                        *)
Desktop == INSTANCE DesktopGateway WITH
  EnsureSlots <- {"e1", "e2"}, TickSlots <- {"t1"}, MaxAttempts <- 2, Threshold <- 2, MaxClicks <- 1,
  MaxFaults <- 1,
  child <- s1, other <- s2, phase <- s3, managed <- s4, auto <- s5, base <- s6, failures <- s7, inFlight <- s8,
  cooling <- s9, th <- s10, stop <- s11, busy <- s12, wanted <- s13, clicks <- s14, faults <- s15

(* Every page; an account that is switched twice.                          *)
Polling == INSTANCE PagePolling WITH
  Pages <- {"rpc", "sessions", "params", "proofs", "observatory", "devnet", "status"}, Accounts <- {"a", "b"},
  NoOne <- "none", EndBlock <- 2, Slots <- {1, 2}, MaxHeight <- 3, MaxFailures <- 2, MaxSwitches <- 2,
  page <- s1, key <- s2, view <- s3, timer <- s4, req <- s5, height <- s6, failures <- s7, switches <- s8

(* Two callers of the worker's pools; one of their workers may die.        *)
Pools == INSTANCE GatewayWorker WITH
  Clients <- {"a", "b"}, Kinds <- {"initPolyStoreWasm", "shardFileProgressive", "expandMduRs"},
  Commit <- {"w1", "w2"}, Expand <- {"x1", "x2"}, Batches <- 2, MaxCalls <- 3, MaxCrashes <- 1,
  InitCrashes <- FALSE,
  wasm <- s1, instance <- s2, backend <- s3, builder <- s4, busy <- s5, pool <- s6, worker <- s7,
  members <- s8, call <- s9, answered <- s10, calls <- s11, crashes <- s12

(* Two slots, a metadata MDU and a shard set.                              *)
Engine == INSTANCE UploadEngine WITH
  Slots <- 2, Mdus <- 1, ShardSets <- 1, MetaLimit <- 1, ShardLimit <- 1, DirectLimit <- 2,
  input <- s1, items <- s2, nextIndex <- s3, active <- s4, steps <- s5, firstError <- s6, events <- s7,
  stored <- s8, queue <- s9, produced <- s10, producer <- s11, workers <- s12, result <- s13

(* One generation, read again until it is complete.                        *)
Retries == INSTANCE WaveRetrieval WITH
  NMdus <- 2, K <- 2, M <- 1, MaxGens <- 1, MaxFaults <- 2, Expiry <- FALSE,
  gen <- s1, sess <- s2, journal <- s3, ckpt <- s4, rows <- s5, disk <- s6, page <- s7, finished <- s8,
  faults <- s9

(* Two gateway processes; the first listens under two loopback names.      *)
Ingest == INSTANCE GatewayUpload WITH
  Gateways <- {"g1", "g2"}, Bases <- <<"seed", "default", "alternate">>,
  GatewayOf <- [seed |-> "g1", default |-> "g2", alternate |-> "g1"], HaveBase <- {"g2"}, Large <- FALSE,
  MaxFaults <- 5,
  pc <- s1, i <- s2, retried <- s3, err <- s4, flags <- s5, req <- s6, up <- s7, job <- s8, active <- s9,
  slab <- s10, n <- s11, faults <- s12

ASSUME Record!GatewayAssumption
ASSUME Pools!GatewayWorkerAssumption
ASSUME Engine!EngineAssumption
ASSUME Ingest!BasesAssumption

Unused2 == <<part, s14, s15>>
Unused3 == <<part, s13, s14, s15>>
Unused6 == <<part, s10, s11, s12, s13, s14, s15>>
Unused7 == <<part, s9, s10, s11, s12, s13, s14, s15>>
Unused9 == <<part, s7, s8, s9, s10, s11, s12, s13, s14, s15>>

-----------------------------------------------------------------------------
Init ==
  \/ part = "record" /\ Record!Init /\ s7 = 0 /\ s8 = 0 /\ s9 = 0 /\ s10 = 0 /\ s11 = 0 /\ s12 = 0 /\ s13 = 0
     /\ s14 = 0 /\ s15 = 0
  \/ part = "guard" /\ Guard!Init /\ s9 = 0 /\ s10 = 0 /\ s11 = 0 /\ s12 = 0 /\ s13 = 0 /\ s14 = 0 /\ s15 = 0
  \/ part = "desktop" /\ Desktop!Init
  \/ part = "polling" /\ Polling!Init /\ s9 = 0 /\ s10 = 0 /\ s11 = 0 /\ s12 = 0 /\ s13 = 0 /\ s14 = 0
     /\ s15 = 0
  \/ part = "pools" /\ Pools!Init /\ s13 = 0 /\ s14 = 0 /\ s15 = 0
  \/ part = "engine" /\ Engine!Init /\ s14 = 0 /\ s15 = 0
  \/ part = "retries" /\ Retries!Init /\ s10 = 0 /\ s11 = 0 /\ s12 = 0 /\ s13 = 0 /\ s14 = 0 /\ s15 = 0
  \/ part = "ingest" /\ Ingest!Init /\ s13 = 0 /\ s14 = 0 /\ s15 = 0

Next ==
  \/ part = "record" /\ Record!Next /\ UNCHANGED Unused9
  \/ part = "guard" /\ Guard!Next /\ UNCHANGED Unused7
  \/ part = "desktop" /\ Desktop!Next /\ UNCHANGED part
  \/ part = "polling" /\ Polling!Next /\ UNCHANGED Unused7
  \/ part = "pools" /\ Pools!Next /\ UNCHANGED Unused3
  \/ part = "engine" /\ Engine!Next /\ UNCHANGED Unused2
  \/ part = "retries" /\ Retries!Next /\ UNCHANGED Unused6
  \/ part = "ingest" /\ Ingest!Next /\ UNCHANGED Unused3

Fairness ==
  /\ \A h \in {1, 2} : WF_vars(part = "record" /\ Record!HookStep(h) /\ UNCHANGED Unused9)
  /\ \A s \in {1, 2} : WF_vars(part = "guard" /\ Guard!Refresh(s) /\ UNCHANGED Unused7)
  /\ WF_vars(part = "guard" /\ Guard!PollFires /\ UNCHANGED Unused7)
  /\ \A s \in {"e1", "e2", "t1"} : WF_vars(part = "desktop" /\ Desktop!ThreadStep(s) /\ UNCHANGED part)
  /\ WF_vars(part = "desktop" /\ Desktop!PollTimer /\ UNCHANGED part)
  /\ WF_vars(part = "desktop" /\ Desktop!CooldownEnds /\ UNCHANGED part)
  /\ WF_vars(part = "desktop" /\ Desktop!gatewayStop /\ UNCHANGED part)
  /\ WF_vars(part = "desktop" /\ Desktop!ChildListens /\ UNCHANGED part)
  /\ WF_vars(part = "polling" /\ Polling!SomeFires /\ UNCHANGED Unused7)
  /\ \A s \in {1, 2} : WF_vars(part = "polling" /\ Polling!NodeAnswers(s) /\ UNCHANGED Unused7)
  /\ \A s \in {1, 2} : WF_vars(part = "polling" /\ Polling!Ends(s) /\ UNCHANGED Unused7)
  /\ WF_vars(part = "pools" /\ Pools!WasmLoads /\ UNCHANGED Unused3)
  /\ \A c \in {"a", "b"} : WF_vars(part = "pools" /\ Pools!Handle(c) /\ UNCHANGED Unused3)
  /\ \A w \in {"w1", "w2", "x1", "x2"} : WF_vars(part = "pools" /\ Pools!Answers(w) /\ UNCHANGED Unused3)
  /\ WF_vars(part = "engine" /\ Engine!Progress /\ UNCHANGED Unused2)
  /\ WF_vars(part = "retries" /\ Retries!Attempt /\ UNCHANGED Unused6)
  /\ WF_vars(part = "ingest" /\ Ingest!Panel /\ UNCHANGED Unused3)
  /\ WF_vars(part = "ingest" /\ Ingest!GatewayUploadPost /\ UNCHANGED Unused3)
  /\ WF_vars(part = "ingest" /\ Ingest!BodyArrives /\ UNCHANGED Unused3)

Spec == Init /\ [][Next]_vars /\ Fairness

-----------------------------------------------------------------------------
(* What the pages show settles on the truth: once gateways, wallet and     *)
(* mounts are left alone, the shared record of the local gateway names a   *)
(* gateway exactly if there is one, and a connected page knows whether its *)
(* account is exposed and its network right; and a page that stays open    *)
(* ends by showing the chain as it is.                                     *)
ViewsSettle ==
  /\ <>[](part = "record" => Record!Settled)
  /\ <>[](part = "guard" => Guard!GuardTruthful)
  /\ <>[](part = "polling" => Polling!LeftOpen) => <>[](part = "polling" => Polling!ShowsChain)

(* A desktop app that is left alone with a gateway that can run ends up    *)
(* online.                                                                 *)
SettlesOnline ==
  <>[](part = "desktop" => Desktop!Servable) => <>[](part = "desktop" => Desktop!Online)

(* What was called returns: calls of the gateway worker when pool workers  *)
(* die, calls of the upload engine whatever its requests do, an ingest     *)
(* whatever is lost and whichever gateway crashes, and a download that the *)
(* user retries.                                                           *)
CallsReturn ==
  /\ \A c \in {"a", "b"} : []<>(part = "pools" => Pools!Answered(c))
  /\ []<>(part = "engine" => Engine!Returned)
  /\ []<>(part = "ingest" => Ingest!Ended)
  /\ []<>(part = "retries" => Retries!HandedOver)
=============================================================================
