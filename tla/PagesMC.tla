------------------------------- MODULE PagesMC ------------------------------
(***************************************************************************)
(* The pages of the website and the desktop app for TLC. Its parts share   *)
(* no state: a behaviour is one of a single part, chosen at the start, and *)
(* s1, s2, ... are the variables of the part that runs.                    *)
(***************************************************************************)
EXTENDS Integers, Sequences, TLC

CONSTANT None

VARIABLES part,
  s1, s2, s3, s4, s5, s6, s7, s8, s9, s10, s11, s12, s13, s14, s15, s16, s17, s18, s19, s20, s21, s22

vars == <<part,
  s1, s2, s3, s4, s5, s6, s7, s8, s9, s10, s11, s12, s13, s14, s15, s16, s17, s18, s19, s20, s21, s22>>

(* The explorer of a deal whose generations are also indexed by a gateway. *)
Page == INSTANCE DealExplorer WITH
  MaxRoot <- 2, Tabs <- {"t1"}, FileJobs <- {"files1"}, MaxInputs <- 1, MaxPolls <- 1, MaxFaults <- 1,
  GatewayUploads <- TRUE, MayClose <- FALSE, Explorer <- TRUE,
  head <- s1, fs <- s2, writer <- s3, saved <- s4, props <- s5, view <- s6, jobs <- s7, touched <- s8,
  reader <- s9, spent <- s10

(* Saves of generations that may be cut off, without the explorer.         *)
Store == INSTANCE DealExplorer WITH
  MaxRoot <- 4, Tabs <- {"t1"}, FileJobs <- {"files1", "files2"}, MaxInputs <- 0, MaxPolls <- 1,
  MaxFaults <- 0, GatewayUploads <- FALSE, MayClose <- TRUE, Explorer <- FALSE,
  head <- s1, fs <- s2, writer <- s3, saved <- s4, props <- s5, view <- s6, jobs <- s7, touched <- s8,
  reader <- s9, spent <- s10

(* Two accounts; the first owns a deal of each mode.                       *)
OldDeals == <<[owner |-> "a", mode2 |-> FALSE], [owner |-> "a", mode2 |-> TRUE]>>
providerRow(caps, life) == [status |-> "active", draining |-> FALSE, caps |-> caps, life |-> life, bonded |-> TRUE]
Dashboard == INSTANCE DealDashboard WITH
  Accounts <- {"a", "b"}, InitialDeals <- OldDeals, PageSlots <- {"p1", "p2"}, CommitSlots <- {"c1"},
  Providers <- <<providerRow("general", "ACTIVE"), providerRow("archive", "JAILED")>>, Slots <- 2,
  MaxDeals <- 3, MaxRoots <- 2, MaxChanges <- 3, OverridesExpire <- TRUE, MaxAttempts <- 2,
  addr <- s1, ready <- s2, prov <- s3, chain <- s4, deals <- s5, overrides <- s6, fetch <- s7, target <- s8,
  staged <- s9, upload <- s10, commit <- s11, creating <- s12, roots <- s13, changes <- s14

(* Two accounts in the wallet of the connected page.                       *)
Wallet == INSTANCE WalletSession WITH
  Accounts <- {"a", "b"}, MaxChanges <- 2, MaxFaults <- 1, MaxDeals <- 2, FaucetAttempts <- 2,
  LcdIsLocal <- {TRUE, FALSE},
  addr <- s1, verdict <- s2, bal <- s3, load <- s4, evm <- s5, funds <- s6, faucet <- s7, deals <- s8,
  page <- s9, listing <- s10, creating <- s11, late <- s12, changes <- s13, faults <- s14

(* Two providers with a base each; one is paired, and the other may be.    *)
Console == INSTANCE ProviderConsole WITH
  Providers <- {"p1", "p2"}, Operators <- {"o1"}, Bases <- {"b1", "b2"}, Host <- [b1 |-> "p1", b2 |-> "p2"],
  MaxHeight <- 1, Paired0 <- [p1 |-> "o1", p2 |-> None], Endpoint0 <- [p1 |-> "b1", p2 |-> None],
  ActionNames <- {"status_refresh", "rotate_endpoint"}, MaxActions <- 1, MaxLoads <- 1,
  height <- s1, pending <- s2, pairing <- s3, byOperator <- s4, endpoint <- s5, account <- s6, wish <- s7,
  pairings <- s8, registry <- s9, selected <- s10, rotation <- s11, controlBase <- s12, status <- s13,
  loads <- s14, statusReqs <- s15, admin <- s16, unpairing <- s17, actions <- s18, consents <- s19

(* One provider that two operators may want to pair.                       *)
Onboarding == INSTANCE ProviderOnboarding WITH
  Providers <- {"p1"}, Operators <- {"o1", "o2"}, Bases <- {"b1"}, Host <- [b1 |-> "p1"],
  Paired0 <- [p1 |-> None], Endpoint0 <- [p1 |-> None], MaxHeight <- 3, MaxRefreshes <- 1, MaxEvents <- 2,
  MaxPolls <- 1,
  height <- s1, pending <- s2, pairing <- s3, byOperator <- s4, endpoint <- s5, account <- s6, wish <- s7,
  wallet <- s8, draft <- s9, prefilled <- s10, authToken <- s11, links <- s12, pairings <- s13,
  registry <- s14, status <- s15, probe <- s16, refreshes <- s17, statusReqs <- s18, probeReqs <- s19,
  approval <- s20, events <- s21, polls <- s22

(* Two keys, one endpoint; one edit.                                       *)
Launchpad == INSTANCE DesktopLaunchpad WITH
  Keys <- {"k1", "k2"}, Endpoints <- {"e1"}, MaxEdits <- 1,
  status <- s1, run <- s2, key <- s3, address <- s4, endpoint <- s5, deployment <- s6, tab <- s7,
  registered <- s8, funded <- s9, provider <- s10, edits <- s11

(* Two loads in flight; every other load of the loop probes.               *)
Bar == INSTANCE StatusBar WITH
  Loads <- {1, 2}, ProbeEvery <- 2, Kinds <- {"gateway", "daemon", "nothing"}, Trusted <- TRUE,
  Disabled <- FALSE, Faucet <- TRUE, MaxTicks <- 1, MaxSyncs <- 1,
  listening <- s1, gatewayPath <- s2, cachedGateway <- s3, load <- s4, tick <- s5, timer <- s6,
  refreshing <- s7, shown <- s8, syncs <- s9

ASSUME Page!RootAssumption /\ Store!RootAssumption
ASSUME Console!ConsoleAssumption /\ Console!RegistryAssumption
ASSUME Onboarding!OnboardingAssumption /\ Onboarding!RegistryAssumption

Unused3 == <<part, s20, s21, s22>>
Unused8 == <<part, s15, s16, s17, s18, s19, s20, s21, s22>>
Unused11 == <<part, s12, s13, s14, s15, s16, s17, s18, s19, s20, s21, s22>>
Unused12 == <<part, s11, s12, s13, s14, s15, s16, s17, s18, s19, s20, s21, s22>>
Unused13 == <<part, s10, s11, s12, s13, s14, s15, s16, s17, s18, s19, s20, s21, s22>>

-----------------------------------------------------------------------------
Init ==
  \/ part = "explorer" /\ Page!Init /\ s11 = 0 /\ s12 = 0 /\ s13 = 0 /\ s14 = 0 /\ s15 = 0 /\ s16 = 0 /\ s17 = 0
     /\ s18 = 0 /\ s19 = 0 /\ s20 = 0 /\ s21 = 0 /\ s22 = 0
  \/ part = "store" /\ Store!Init /\ s11 = 0 /\ s12 = 0 /\ s13 = 0 /\ s14 = 0 /\ s15 = 0 /\ s16 = 0 /\ s17 = 0
     /\ s18 = 0 /\ s19 = 0 /\ s20 = 0 /\ s21 = 0 /\ s22 = 0
  \/ part = "dashboard" /\ Dashboard!Init /\ s15 = 0 /\ s16 = 0 /\ s17 = 0 /\ s18 = 0 /\ s19 = 0 /\ s20 = 0
     /\ s21 = 0 /\ s22 = 0
  \/ part = "wallet" /\ Wallet!Init /\ s15 = 0 /\ s16 = 0 /\ s17 = 0 /\ s18 = 0 /\ s19 = 0 /\ s20 = 0 /\ s21 = 0
     /\ s22 = 0
  \/ part = "console" /\ Console!Init /\ s20 = 0 /\ s21 = 0 /\ s22 = 0
  \/ part = "onboarding" /\ Onboarding!Init
  \/ part = "launchpad" /\ Launchpad!Init /\ s12 = 0 /\ s13 = 0 /\ s14 = 0 /\ s15 = 0 /\ s16 = 0 /\ s17 = 0
     /\ s18 = 0 /\ s19 = 0 /\ s20 = 0 /\ s21 = 0 /\ s22 = 0
  \/ part = "statusbar" /\ Bar!Init /\ s10 = 0 /\ s11 = 0 /\ s12 = 0 /\ s13 = 0 /\ s14 = 0 /\ s15 = 0 /\ s16 = 0
     /\ s17 = 0 /\ s18 = 0 /\ s19 = 0 /\ s20 = 0 /\ s21 = 0 /\ s22 = 0

Next ==
  \/ part = "explorer" /\ Page!Next /\ UNCHANGED Unused12
  \/ part = "store" /\ Store!Next /\ UNCHANGED Unused12
  \/ part = "dashboard" /\ Dashboard!Next /\ UNCHANGED Unused8
  \/ part = "wallet" /\ Wallet!Next /\ UNCHANGED Unused8
  \/ part = "console" /\ Console!Next /\ UNCHANGED Unused3
  \/ part = "onboarding" /\ Onboarding!Next /\ UNCHANGED part
  \/ part = "launchpad" /\ Launchpad!Next /\ UNCHANGED Unused11
  \/ part = "statusbar" /\ Bar!Next /\ UNCHANGED Unused13

Spec == Init /\ [][Next]_vars

-----------------------------------------------------------------------------
(* A local copy that the explorer offers for download belongs to the root  *)
(* that was asked for, and a save that was reported stays readable as one  *)
(* whole generation, wherever a later save is cut off.                     *)
LocalCopiesWhole ==
  /\ part = "explorer" => Page!OfferedIsRequested
  /\ part = "store" => Store!SavedSurvives

(* A root committed from the dashboard is shown until the chain answers    *)
(* with it.                                                                *)
OptimisticRootShown == part = "dashboard" => Dashboard!OptimisticRootShown

(* The deal the first-file page shows belongs to the connected account.    *)
DealShownIsOwned == part = "wallet" => Wallet!DealShownIsOwned

(* The provider registry holds what was meant: an endpoint was registered  *)
(* by the host itself or signed for it by an operator, and a pairing is    *)
(* the one the provider last asked for.                                    *)
RegistryWasMeant ==
  /\ part = "console" => Console!EndpointsWereMeant
  /\ part = "onboarding" => Onboarding!PairingWasWanted

(* The setup steps of the launchpad account for what was done, and the     *)
(* status bar keeps polling and shows what its probes found.               *)
PanelsAccount ==
  /\ part = "launchpad" => Launchpad!StepsAccount
  /\ part = "statusbar" => Bar!LoopAlive
=============================================================================
