-------------------------- MODULE ProviderConsole ---------------------------
(***************************************************************************)
(* The provider console page (SpDashboard) with the daemons it operates.   *)
(* The page lists the providers paired with the connected account, polls   *)
(* the chain and the selected daemon's /status, and sends signed admin     *)
(* requests to a daemon over HTTP.  Neither poll is cancelled when the     *)
(* account or the selection changes, so late answers land on another       *)
(* provider's view; what keeps that harmless is the daemon's own check of  *)
(* every request.                                                          *)
(*                                                                         *)
(* A browser step is one run of code between two awaits together with the  *)
(* React effects its state changes trigger.  The health probe, the copied  *)
(* shell commands and the key-name field only display and are left out.    *)
(***************************************************************************)
EXTENDS ProviderRegistry, FiniteSetsExt

CONSTANTS Host,         \* external: the daemon that answers at each base
          ActionNames,  \* the admin buttons exercised
          MaxActions,   \* bound: signed actions in one behaviour
          MaxLoads      \* bound: load() calls in flight at once
ConsoleAssumption ==
  /\ Host \in [Bases -> Providers] /\ {MaxActions, MaxLoads} \subseteq Nat
  /\ ActionNames \subseteq {"status_refresh", "run_doctor", "rotate_endpoint"}

VARIABLES pairings,     \* state: the operator's pairings as last loaded
          registry,     \* state: the provider registry as last loaded
          selected,     \* state: selectedProvider
          rotation,     \* state: rotationEndpoint, the form field
          controlBase,  \* state: selectedControlBase
          status,       \* state: publicStatus, or None
          loads,        \* load() calls in flight: operator and LCD answer
          statusReqs,   \* bases whose /status answer is outstanding
          admin,        \* the signed action in progress, or None
          unpairing,    \* the unpair transaction in progress, or None
          actions,      \* admin requests and unpairings so far
          consents      \* ghost: <<operator, provider, endpoint>> signed for
page == <<pairings, registry, selected, rotation, controlBase, status>>
calls == <<loads, statusReqs, admin, unpairing, actions, consents>>
vars == <<chain, account, page, calls>>

Registry == [Providers -> Bases \cup {None}]
NoRegistry == [p \in Providers |-> None]

(* Every variable keeps its type.                                          *)
TypeOK ==
  /\ RegistryTypeOK
  /\ \A r \in pairings : r.provider \in Providers /\ r.operator \in Operators
  /\ registry \in Registry
  /\ selected \in Providers \cup {None}
  /\ {rotation, controlBase} \subseteq Bases \cup {None}
  /\ status = None \/ (status.address \in Providers /\ status.base \in Bases \cup {None})
  /\ statusReqs \subseteq Bases
  /\ actions \in 0..MaxActions
  /\ consents \subseteq Operators \X Providers \X (Bases \cup {None})

-----------------------------------------------------------------------------
(* What the page derives from its state.                                   *)

(* Records sorted by pairing height, newest first.  Two pairings of one    *)
(* operator never share a height here: each takes a block of its own.      *)
buildOperatorProviderRecords(prs) ==
  {[provider |-> r.provider, operator |-> r.operator, height |-> r.height] : r \in prs}

First(prs) == (CHOOSE r \in prs : \A s \in prs : r.height >= s.height).provider

findOperatorProviderRecord(prs, p) ==
  \E r \in buildOperatorProviderRecords(prs) : r.provider = p

activeOf(prs, sel) ==
  IF findOperatorProviderRecord(prs, sel) THEN sel
  ELSE IF prs = {} THEN None ELSE First(prs)

active == activeOf(pairings, selected)

primaryBase(reg, p) == IF p = None THEN None ELSE reg[p]

effectiveBase(st, base, reg, p) ==
  IF st # None /\ st.base # None THEN st.base
  ELSE IF base # None THEN base ELSE primaryBase(reg, p)

effectiveControlBase == effectiveBase(status, controlBase, registry, active)

controlPlaneReady == account # None /\ effectiveControlBase # None

(* The effects that follow a new selection or newly loaded records: a      *)
(* vanished selection moves to the first record, and the form, the base    *)
(* and the status restart from the active record.                          *)
ShowRecords(prs, reg, sel) ==
  LET act == activeOf(prs, sel) IN
  /\ pairings' = prs
  /\ registry' = reg
  /\ selected' = act
  /\ rotation' = primaryBase(reg, act)
  /\ controlBase' = primaryBase(reg, act)
  /\ status' = None
  /\ statusReqs' = statusReqs \cup ({primaryBase(reg, act)} \ {None, effectiveControlBase})

-----------------------------------------------------------------------------
Init ==
  /\ RegistryInit
  /\ pairings = {} /\ registry = NoRegistry /\ selected = None
  /\ rotation = None /\ controlBase = None /\ status = None
  /\ loads = {} /\ statusReqs = {} /\ admin = None /\ unpairing = None
  /\ actions = 0 /\ consents = {}

NewLoad(o) == [operator |-> o, answered |-> FALSE, pairs |-> {}, regs |-> NoRegistry]

(* The wallet connects, disconnects or changes account.  Without an        *)
(* account the page forgets its records; with one it loads at once.        *)
AccountChanges ==
  /\ \E a \in (Operators \cup {None}) \ {account} :
       /\ account' = a
       /\ IF a = None
          THEN /\ ShowRecords({}, NoRegistry, selected)
               /\ UNCHANGED loads
          ELSE /\ Cardinality(loads) < MaxLoads
               /\ loads' = loads \cup {NewLoad(a)}
               /\ UNCHANGED <<page, statusReqs>>
  /\ UNCHANGED <<chain, admin, unpairing, actions, consents>>

(* The ten-second timer of the connected account. *)
LoadPolls ==
  /\ account # None /\ Cardinality(loads) < MaxLoads
  /\ loads' = loads \cup {NewLoad(account)}
  /\ UNCHANGED <<chain, account, page, statusReqs, admin, unpairing, actions, consents>>

(* The two LCD queries of a load are answered. *)
LcdAnswers ==
  /\ \E l \in loads :
       /\ ~l.answered
       /\ loads' = (loads \ {l}) \cup
            {[l EXCEPT !.answered = TRUE, !.pairs = ProvidersByOperator(l.operator),
                       !.regs = endpoint]}
  /\ UNCHANGED <<chain, account, page, statusReqs, admin, unpairing, actions, consents>>

(* load() resumes, or its catch empties the lists.  Nothing asks whether   *)
(* the account is still the one the load was started for.                  *)
LoadReturns ==
  /\ \E l \in loads :
       /\ loads' = loads \ {l}
       /\ \/ l.answered /\ ShowRecords(l.pairs, l.regs, selected)
          \/ ShowRecords({}, NoRegistry, selected)
  /\ UNCHANGED <<chain, account, admin, unpairing, actions, consents>>

Selects ==
  /\ \E p \in {r.provider : r \in pairings} \ {active} :
       ShowRecords(pairings, registry, p)
  /\ UNCHANGED <<chain, account, loads, admin, unpairing, actions, consents>>

(* The operator edits the endpoint field or the control base. *)
EditsRotation ==
  /\ active # None
  /\ \E b \in Bases : rotation' = b
  /\ UNCHANGED <<chain, account, pairings, registry, selected, controlBase, status, calls>>

EditsControlBase ==
  /\ active # None
  /\ \E b \in Bases :
       /\ controlBase' = b
       /\ statusReqs' = statusReqs \cup
            ({effectiveBase(status, b, registry, active)} \ {effectiveControlBase})
  /\ UNCHANGED <<chain, account, pairings, registry, selected, rotation, status,
                 loads, admin, unpairing, actions, consents>>

(* The twelve-second timer, and the refresh button. *)
StatusPolls ==
  /\ effectiveControlBase # None
  /\ statusReqs' = statusReqs \cup {effectiveControlBase}
  /\ UNCHANGED <<chain, account, page, loads, admin, unpairing, actions, consents>>

(* The daemon's snapshot: its own address, and the HTTP base of the        *)
(* endpoint it is registered with.                                         *)
buildProviderDaemonStatus(p) == [address |-> p, base |-> endpoint[p]]

(* loadPublicStatus resumes with whatever the asked base answered, or      *)
(* fails; a status that names another base starts a poll of that base.     *)
StatusReturns ==
  /\ \E b \in statusReqs :
     \E st \in {buildProviderDaemonStatus(Host[b]), None} :
       LET base == effectiveBase(st, controlBase, registry, active) IN
       /\ status' = st
       /\ statusReqs' = (statusReqs \ {b}) \cup ({base} \ {None, effectiveControlBase})
  /\ UNCHANGED <<chain, account, pairings, registry, selected, rotation, controlBase,
                 loads, admin, unpairing, actions, consents>>

-----------------------------------------------------------------------------
(* Signed admin actions.                                                   *)

(* requireActiveProvider: the record of the active provider with the       *)
(* effective base in place of its own.                                     *)
requireActiveProvider == active # None /\ effectiveControlBase # None

(* The buttons that are enabled: no action may be in progress, and a       *)
(* rotation needs an endpoint.                                             *)
adminOffered(name) ==
  /\ controlPlaneReady /\ admin = None
  /\ name = "rotate_endpoint" => rotation # None

unpairOffered == account # None /\ active # None /\ unpairing = None /\ admin = None

(* A click on one of the three buttons; the wallet is asked to sign. *)
AdminClicks(name) ==
  /\ adminOffered(name) /\ requireActiveProvider
  /\ actions < MaxActions
  /\ admin' = [action |-> name, stage |-> "sign", provider |-> active,
               endpoint |-> IF name = "rotate_endpoint" THEN rotation ELSE None,
               base |-> effectiveControlBase, signer |-> account]
  /\ UNCHANGED <<chain, account, page, loads, statusReqs, unpairing, actions, consents>>

(* The wallet signs for the account of the click, and the request leaves. *)
signRequest ==
  /\ admin # None /\ admin.stage = "sign"
  /\ admin' = [admin EXCEPT !.stage = "sent"]
  /\ actions' = actions + 1
  /\ consents' = consents \cup {<<admin.signer, admin.provider, admin.endpoint>>}
  /\ UNCHANGED <<chain, account, page, loads, statusReqs, unpairing>>

(* Fault: a daemon serves a request that names another provider. *)
VerifiedForAnyone(d, r) ==
  pairing[d] # None /\ pairing[d].operator = r.signer

(* The daemon at the base checks that it is the named provider and that    *)
(* the signer is the operator it is paired with on chain.  Times, nonces   *)
(* and the signature's bytes are taken as good.                            *)
verifyProviderAdminRequest(d, r) ==
  /\ r.provider = d
  /\ pairing[d] # None
  /\ pairing[d].operator = r.signer

DaemonVerifies ==
  /\ admin # None /\ admin.stage = "sent"
  /\ admin' = [admin EXCEPT !.stage =
       IF verifyProviderAdminRequest(Host[admin.base], admin)
       THEN IF admin.action = "rotate_endpoint" THEN "verified" ELSE "ok"
       ELSE "failed"]
  /\ UNCHANGED <<chain, account, page, loads, statusReqs, unpairing, actions, consents>>

(* The daemon submits the registration or update with the provider's key. *)
providerAdminRegisterOrUpdateEndpoint ==
  /\ admin # None /\ admin.stage = "verified"
  /\ LET d == Host[admin.base] IN
       \/ /\ RegisterProvider(d, admin.endpoint)
          /\ admin' = [admin EXCEPT !.stage = "ok"]
       \/ /\ UpdateProviderEndpoints(d, admin.endpoint)
          /\ admin' = [admin EXCEPT !.stage = "ok"]
       \/ /\ admin' = [admin EXCEPT !.stage = "failed"]
          /\ UNCHANGED chain
  /\ UNCHANGED <<account, page, loads, statusReqs, unpairing, actions, consents>>

(* execute() settles: the wallet refused, the request or its answer was    *)
(* lost, or the daemon answered.  A rotation that succeeded reloads for    *)
(* the account whose callback this is, the one of the click.               *)
AdminSettles ==
  /\ admin # None
  /\ admin.stage # "verified"
  /\ loads' = IF admin.stage = "ok" /\ admin.action = "rotate_endpoint"
              THEN loads \cup {NewLoad(admin.signer)} ELSE loads
  /\ admin' = None
  /\ UNCHANGED <<chain, account, page, statusReqs, unpairing, actions, consents>>

-----------------------------------------------------------------------------
(* Unpairing by transaction.                                               *)

UnpairClicks ==
  /\ unpairOffered /\ actions < MaxActions
  /\ unpairing' = [provider |-> active, signer |-> account, stage |-> "sent"]
  /\ actions' = actions + 1
  /\ UNCHANGED <<chain, account, page, loads, statusReqs, admin, consents>>

(* The transaction is mined, or refused by the handler. *)
UnpairMined ==
  /\ unpairing # None /\ unpairing.stage = "sent"
  /\ \/ /\ UnpairProvider(unpairing.signer, unpairing.provider)
        /\ unpairing' = [unpairing EXCEPT !.stage = "ok"]
     \/ /\ ~MayUnpair(unpairing.signer, unpairing.provider)
        /\ unpairing' = [unpairing EXCEPT !.stage = "failed"]
        /\ UNCHANGED chain
  /\ UNCHANGED <<account, page, loads, statusReqs, admin, actions, consents>>

(* handleUnpairProvider resumes with the receipt, or an error. *)
UnpairSettles ==
  /\ unpairing # None
  /\ unpairing' = None
  /\ IF unpairing.stage = "ok"
     THEN /\ status' = None
          /\ loads' = loads \cup {NewLoad(unpairing.signer)}
     ELSE UNCHANGED <<status, loads>>
  /\ UNCHANGED <<chain, account, pairings, registry, selected, rotation, controlBase,
                 statusReqs, admin, actions, consents>>

-----------------------------------------------------------------------------
(* The other side: links and the host's own registration. *)
HostActs ==
  /\ \E p \in Providers :
       \/ \E o \in Operators : RequestProviderLink(p, o)
       \/ UnpairProvider(p, p)
       \/ \E o \in Operators : ApproveProviderLink(o, p)
       \/ \E b \in Bases : Host[b] = p /\ RegisterProvider(p, b)
  /\ UNCHANGED <<account, page, calls>>

Next ==
  \/ AccountChanges \/ LoadPolls \/ LcdAnswers \/ LoadReturns
  \/ Selects \/ EditsRotation \/ EditsControlBase
  \/ StatusPolls \/ StatusReturns
  \/ \E name \in ActionNames : AdminClicks(name)
  \/ signRequest \/ DaemonVerifies \/ providerAdminRegisterOrUpdateEndpoint
  \/ AdminSettles \/ UnpairClicks \/ UnpairMined \/ UnpairSettles
  \/ HostActs

Spec == Init /\ [][Next]_vars

-----------------------------------------------------------------------------
(* The chain never registers an endpoint nobody meant for that provider:   *)
(* a provider's endpoint is one its own host registered, or one an         *)
(* operator signed for this very provider.  Late status answers send       *)
(* requests to the wrong daemon (requireActiveProvider takes the base from *)
(* whatever status arrived last), so this rests on the daemon's checks in  *)
(* verifyProviderAdminRequest.                                             *)
EndpointsWereMeant ==
  \A p \in Providers : endpoint[p] # None =>
    \/ Host[endpoint[p]] = p
    \/ \E o \in Operators : <<o, p, endpoint[p]>> \in consents

(* "The signed action targets <provider> over <base>" (SpDashboard): a     *)
(* request leaves for a base where the named provider's daemon answers, or *)
(* for the base the operator chose in the control base field.              *)
TargetsOwnDaemon ==
  [][admin = None /\ admin' # None =>
       Host[admin'.base] = admin'.provider \/ admin'.base = controlBase]_vars
=============================================================================
