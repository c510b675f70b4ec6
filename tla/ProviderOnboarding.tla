------------------------- MODULE ProviderOnboarding -------------------------
(***************************************************************************)
(* The provider onboarding page (SpOnboarding): the operator connects and  *)
(* funds a wallet, the provider's host opens a link request, the operator  *)
(* approves it, describes the public endpoint, and runs the bootstrap      *)
(* command the page derives on the host.  The draft of the form survives   *)
(* reloads in localStorage, one draft for every account.                   *)
(*                                                                         *)
(* An endpoint is named by its HTTP base: a plan is built for every base   *)
(* and none for the empty field.  The agent prompt, the tunnel commands    *)
(* and the wording of the steps are left out.                              *)
(***************************************************************************)
EXTENDS ProviderRegistry, FiniteSetsExt

CONSTANTS Host,           \* external: the daemon that answers at each base
          MaxRefreshes,   \* bound: refreshLiveState calls in flight at once
          MaxEvents,      \* bound: edits, account and wallet changes, reloads
          MaxPolls        \* bound: status and health requests
OnboardingAssumption ==
  Host \in [Bases -> Providers] /\ {MaxRefreshes, MaxEvents, MaxPolls} \subseteq Nat

VARIABLES wallet,       \* [ready, funded] of the session hook
          draft,        \* localStorage and the fields it mirrors
          prefilled,    \* state: endpointPrefillInitialized
          authToken,    \* sessionStorage: a token was typed
          links,        \* state: pendingLinks
          pairings,     \* state: operatorPairings
          registry,     \* state: providers
          status,       \* state: publicStatus, or None
          probe,        \* state: healthProbe
          refreshes,    \* refreshLiveState calls in flight
          statusReqs,   \* bases whose /status answer is outstanding
          probeReqs,    \* bases whose /health answer is outstanding
          approval,     \* the approval in progress, or None
          events,       \* user events so far
          polls         \* status and health requests so far
form == <<wallet, draft, prefilled, authToken>>
live == <<links, pairings, registry>>
health == <<status, probe, statusReqs, probeReqs, polls>>
vars == <<chain, account, form, live, health, refreshes, approval, events>>

NoRegistry == [p \in Providers |-> None]
Idle == [is |-> "idle", base |-> None]

(* Every variable keeps its type.                                          *)
TypeOK ==
  /\ RegistryTypeOK
  /\ wallet \in [ready : BOOLEAN, funded : BOOLEAN]
  /\ draft \in [repoReady : BOOLEAN, keySet : BOOLEAN, endpointValue : Bases \cup {None},
                providerAddress : Providers \cup {None}]
  /\ {prefilled, authToken} \subseteq BOOLEAN
  /\ registry \in [Providers -> Bases \cup {None}]
  /\ statusReqs \cup probeReqs \subseteq Bases
  /\ probe.is \in {"idle", "loading", "ok", "error"}

-----------------------------------------------------------------------------
(* What the page derives.                                                  *)

Newest(ls) == CHOOSE l \in ls : \A m \in ls : l.height >= m.height
MineOf(ls, a) == {l \in ls : l.operator = a}

(* Newest pairing of the connected account among the loaded ones. *)
findConfirmedProviderPairing(prs, a) ==
  IF MineOf(prs, a) = {} THEN None ELSE Newest(MineOf(prs, a)).provider

(* Newest link request naming the connected account. *)
findMostRecentPendingProviderLink(ls, a) ==
  IF MineOf(ls, a) = {} THEN None ELSE Newest(MineOf(ls, a)).provider

confirmedPairing == findConfirmedProviderPairing(pairings, account)
pendingLink == findMostRecentPendingProviderLink(links, account)

activeProviderAddress ==
  IF confirmedPairing # None THEN confirmedPairing
  ELSE IF draft.providerAddress # None THEN draft.providerAddress ELSE pendingLink

(* The registered endpoint of the active provider, None when it has none. *)
onchainEndpointOf(reg, p) == IF p = None THEN None ELSE reg[p]
firstOnchainEndpoint == onchainEndpointOf(registry, activeProviderAddress)

(* The typed endpoint, else the one on chain. *)
buildProviderEndpointPlan == draft.endpointValue
effectiveEndpointPlan ==
  IF buildProviderEndpointPlan # None THEN buildProviderEndpointPlan
  ELSE firstOnchainEndpoint

effectivePublicBase ==
  IF firstOnchainEndpoint # None THEN firstOnchainEndpoint ELSE effectiveEndpointPlan

authoritativePublicBase ==
  IF status # None /\ status.base # None THEN status.base ELSE effectivePublicBase

(* The daemon at the public base is another provider than the approved one *)
providerIdentityMismatch ==
  confirmedPairing # None /\ status # None /\ status.address # confirmedPairing

(* A daemon's own report is authoritative; the browser's probe counts      *)
(* only without one, and only for the base it probed.                      *)
publicHealthReady ==
  IF status # None THEN ~providerIdentityMismatch /\ status.ok
  ELSE probe.is = "ok" /\ probe.base = effectivePublicBase

canApproveLink ==
  wallet.ready /\ wallet.funded /\ account # None /\ pendingLink # None
    /\ confirmedPairing = None

(* Readiness of the steps, the step the page points at, and whether the    *)
(* bootstrap command is shown.                                             *)
buildProviderOnboardingFlow ==
  LET ready == [wallet  |-> wallet.ready /\ wallet.funded /\ account # None,
                host    |-> draft.repoReady,
                pairing |-> draft.keySet /\ confirmedPairing # None,
                publish |-> /\ confirmedPairing # None /\ effectiveEndpointPlan # None
                            /\ firstOnchainEndpoint # None /\ publicHealthReady]
  IN [ready |-> ready,
      current |-> IF ~ready.wallet THEN "wallet" ELSE IF ~ready.host THEN "host"
                  ELSE IF ~ready.pairing THEN "pairing"
                  ELSE IF ~ready.publish THEN "publish" ELSE "console",
      commandReady |-> /\ account # None /\ draft.repoReady /\ draft.keySet
                       /\ confirmedPairing # None /\ effectiveEndpointPlan # None]

(* The command: operator, expected provider, endpoint.  The token falls    *)
(* back to the devnet's shared default.                                    *)
bootstrapCommand ==
  [operator |-> account, provider |-> confirmedPairing,
   endpoint |-> effectiveEndpointPlan,
   auth |-> IF authToken THEN "typed" ELSE "default"]

-----------------------------------------------------------------------------
EmptyDraft == [repoReady |-> FALSE, keySet |-> TRUE, endpointValue |-> None,
               providerAddress |-> None]

Init ==
  /\ RegistryInit
  /\ events = 0 /\ polls = 0
  /\ wallet \in [ready : BOOLEAN, funded : BOOLEAN]
  /\ draft = EmptyDraft /\ prefilled = FALSE /\ authToken = FALSE
  /\ links = {} /\ pairings = {} /\ registry = NoRegistry
  /\ status = None /\ probe = Idle /\ statusReqs = {} /\ probeReqs = {}
  /\ refreshes = {} /\ approval = None

NewRefresh(o) == [operator |-> o, stage |-> "asked", links |-> {}, pairings |-> {}]

(* The prefill effect: once, from the registered endpoint, and only into   *)
(* an empty field.                                                         *)
Prefill ==
  /\ ~prefilled
  /\ draft.endpointValue # None \/ firstOnchainEndpoint # None
  /\ prefilled' = TRUE
  /\ draft' = [draft EXCEPT !.endpointValue =
       IF draft.endpointValue # None THEN draft.endpointValue ELSE firstOnchainEndpoint]
  /\ UNCHANGED <<chain, account, wallet, authToken, live, health, refreshes, approval, events>>

(* Connecting, disconnecting or switching the wallet; funding; the         *)
(* network guard.  Without an account the live lists are emptied.          *)
AccountChanges ==
  /\ events < MaxEvents /\ events' = events + 1
  /\ \E a \in (Operators \cup {None}) \ {account} :
       /\ account' = a
       /\ IF a = None
          THEN /\ links' = {} /\ pairings' = {} /\ registry' = NoRegistry
               /\ UNCHANGED refreshes
          ELSE /\ Cardinality(refreshes) < MaxRefreshes
               /\ refreshes' = refreshes \cup {NewRefresh(a)}
               /\ UNCHANGED live
  /\ UNCHANGED <<chain, form, health, approval>>

WalletChanges ==
  /\ events < MaxEvents /\ events' = events + 1
  /\ wallet' \in [ready : BOOLEAN, funded : BOOLEAN]
  /\ wallet' # wallet
  /\ UNCHANGED <<chain, account, draft, prefilled, authToken, live, health,
                 refreshes, approval>>

(* The host checkbox, the key name, the endpoint fields, the token. *)
EditsDraft ==
  /\ events < MaxEvents /\ events' = events + 1
  /\ \/ draft' = [draft EXCEPT !.repoReady = ~@] /\ UNCHANGED authToken
     \/ draft' = [draft EXCEPT !.keySet = ~@] /\ UNCHANGED authToken
     \/ \E b \in Bases \cup {None} :
          draft' = [draft EXCEPT !.endpointValue = b] /\ UNCHANGED authToken
     \/ authToken' = ~authToken /\ UNCHANGED draft
  /\ UNCHANGED <<chain, account, wallet, prefilled, live, health, refreshes, approval>>

(* A reload keeps the draft and the token and drops everything in flight. *)
Reloads ==
  /\ events < MaxEvents /\ events' = events + 1
  /\ prefilled' = FALSE
  /\ links' = {} /\ pairings' = {} /\ registry' = NoRegistry
  /\ status' = None /\ probe' = Idle /\ statusReqs' = {} /\ probeReqs' = {}
  /\ refreshes' = IF account = None THEN {} ELSE {NewRefresh(account)}
  /\ approval' = IF approval = None THEN None ELSE [approval EXCEPT !.page = FALSE]
  /\ UNCHANGED <<chain, account, wallet, draft, authToken, polls>>

-----------------------------------------------------------------------------
(* refreshLiveState: by timer, by button and after an approval.            *)

RefreshPolls ==
  /\ account # None /\ Cardinality(refreshes) < MaxRefreshes
  /\ refreshes' = refreshes \cup {NewRefresh(account)}
  /\ UNCHANGED <<chain, account, form, live, health, approval, events>>

(* The links and the pairings are fetched together; each query that fails  *)
(* counts as an empty list.                                                *)
RefreshLists ==
  /\ \E r \in refreshes :
       /\ r.stage = "asked"
       /\ \E ls \in {PendingLinksOf(r.operator), {}},
             prs \in {ProvidersByOperator(r.operator), {}} :
            refreshes' = (refreshes \ {r}) \cup
              {[r EXCEPT !.stage = "listed", !.links = ls, !.pairings = prs]}
  /\ UNCHANGED <<chain, account, form, live, health, approval, events>>

(* The lists reach the page, for whatever account is connected by then.    *)
(* The registry is asked for only when a list has an entry.                *)
RefreshApplies ==
  /\ \E r \in refreshes :
       /\ r.stage = "listed"
       /\ links' = r.links /\ pairings' = r.pairings
       /\ IF r.links \cup r.pairings = {}
          THEN /\ registry' = NoRegistry
               /\ refreshes' = refreshes \ {r}
          ELSE /\ refreshes' = (refreshes \ {r}) \cup {[r EXCEPT !.stage = "registry"]}
               /\ UNCHANGED registry
  /\ UNCHANGED <<chain, account, form, health, approval, events>>

RefreshRegistry ==
  /\ \E r \in refreshes :
       /\ r.stage = "registry"
       /\ refreshes' = refreshes \ {r}
       /\ registry' \in {endpoint, NoRegistry}
  /\ UNCHANGED <<chain, account, form, links, pairings, health, approval, events>>

-----------------------------------------------------------------------------
(* Health of the public base.                                              *)

StatusPolls ==
  /\ polls < MaxPolls /\ polls' = polls + 1
  /\ authoritativePublicBase # None
  /\ statusReqs' = statusReqs \cup {authoritativePublicBase}
  /\ UNCHANGED <<chain, account, form, live, status, probe, probeReqs, refreshes, approval, events>>

(* Without a base the last status is forgotten. *)
StatusForgotten ==
  /\ authoritativePublicBase = None /\ status # None
  /\ status' = None
  /\ UNCHANGED <<chain, account, form, live, probe, statusReqs, probeReqs,
                 refreshes, approval, events, polls>>

StatusReturns ==
  /\ \E b \in statusReqs, ok \in BOOLEAN :
       /\ statusReqs' = statusReqs \ {b}
       /\ status' \in {None, [address |-> Host[b], base |-> endpoint[Host[b]], ok |-> ok]}
  /\ UNCHANGED <<chain, account, form, live, probe, probeReqs, refreshes, approval, events, polls>>

ProbePolls ==
  /\ polls < MaxPolls /\ polls' = polls + 1
  /\ effectivePublicBase # None /\ confirmedPairing # None
  /\ probeReqs' = probeReqs \cup {effectivePublicBase}
  /\ probe' = [is |-> "loading", base |-> effectivePublicBase]
  /\ UNCHANGED <<chain, account, form, live, status, statusReqs, refreshes, approval, events>>

ProbeForgotten ==
  /\ effectivePublicBase = None \/ confirmedPairing = None
  /\ probe # Idle
  /\ probe' = Idle
  /\ UNCHANGED <<chain, account, form, live, status, statusReqs, probeReqs,
                 refreshes, approval, events, polls>>

ProbeReturns ==
  /\ \E b \in probeReqs, is \in {"ok", "error"} :
       /\ probeReqs' = probeReqs \ {b}
       /\ probe' = [is |-> is, base |-> b]
  /\ UNCHANGED <<chain, account, form, live, status, statusReqs, refreshes, approval, events, polls>>

-----------------------------------------------------------------------------
(* Approval.                                                               *)

handleApproveLink ==
  /\ canApproveLink /\ approval = None
  /\ approval' = [stage |-> "sent", operator |-> account, provider |-> pendingLink,
                  page |-> TRUE]
  /\ UNCHANGED <<chain, account, form, live, health, refreshes, events>>

(* Mined or refused; a refused one reverts. *)
ApprovalMined ==
  /\ approval # None /\ approval.stage = "sent"
  /\ \/ /\ ApproveProviderLink(approval.operator, approval.provider)
        /\ approval' = [approval EXCEPT !.stage = "ok"]
     \/ /\ ~MayApprove(approval.operator, approval.provider)
        /\ approval' = [approval EXCEPT !.stage = "failed"]
        /\ UNCHANGED chain
  /\ UNCHANGED <<account, form, live, health, refreshes, events>>

(* The receipt, a refusal in the wallet, or a lost receipt.  On success    *)
(* the provider joins the stored draft and the lists are refreshed for     *)
(* the account of the click.                                               *)
ApprovalSettles ==
  /\ approval # None
  /\ approval' = None
  /\ IF approval.stage = "ok" /\ approval.page
     THEN /\ draft' = [draft EXCEPT !.providerAddress = approval.provider]
          /\ refreshes' = refreshes \cup {NewRefresh(approval.operator)}
     ELSE UNCHANGED <<draft, refreshes>>
  /\ UNCHANGED <<chain, account, wallet, prefilled, authToken, live, health, events>>

(* The bootstrap command is run on the host whose key it expects. *)
HostBootstraps ==
  /\ buildProviderOnboardingFlow.commandReady
  /\ LET c == bootstrapCommand IN
       \/ RegisterProvider(c.provider, c.endpoint)
       \/ UpdateProviderEndpoints(c.provider, c.endpoint)
  /\ UNCHANGED <<account, form, live, health, refreshes, approval, events>>

HostLinks ==
  /\ \E p \in Providers :
       \/ \E o \in Operators : RequestProviderLink(p, o)
       \/ CancelProviderLink(p)
       \/ UnpairProvider(p, p)
  /\ UNCHANGED <<account, form, live, health, refreshes, approval, events>>

Next ==
  \/ Prefill \/ AccountChanges \/ WalletChanges \/ EditsDraft \/ Reloads
  \/ RefreshPolls \/ RefreshLists \/ RefreshApplies \/ RefreshRegistry
  \/ StatusPolls \/ StatusForgotten \/ StatusReturns
  \/ ProbePolls \/ ProbeForgotten \/ ProbeReturns
  \/ handleApproveLink \/ ApprovalMined \/ ApprovalSettles
  \/ HostBootstraps \/ HostLinks

Spec == Init /\ [][Next]_vars

-----------------------------------------------------------------------------
(* "provider onboarding blocks bootstrap until the shared auth token is    *)
(* supplied" (sp-onboarding.spec.ts): the page shows no bootstrap command  *)
(* while the token field is empty.                                         *)
BootstrapNeedsAuth == buildProviderOnboardingFlow.commandReady => authToken
=============================================================================
