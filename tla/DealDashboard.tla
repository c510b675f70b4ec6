--------------------------- MODULE DealDashboard ---------------------------
(***************************************************************************)
(* The dashboard page: the list of deals it shows, the deal it has         *)
(* selected, creating a deal, and committing content into one.             *)
(*                                                                         *)
(* Nothing orders the listings the page asks for: one may be overtaken by  *)
(* another, by a commit or by an account change.  Roots a commit of this   *)
(* page has written are shown at once, through overrides that a later      *)
(* listing drops when the chain reports the same root.                     *)
(*                                                                         *)
(* Effects run with the render that triggers them, so choosing the newest  *)
(* deal and forgetting the staged upload are part of the step that changes *)
(* the selection (Select).  Roots are numbers; 0 is an empty deal.         *)
(***************************************************************************)
EXTENDS Naturals, Sequences, SequencesExt

CONSTANTS
    Accounts,        \* the accounts of the wallet
    InitialDeals,    \* the chain's first deals: a sequence of [owner, mode2]
    PageSlots,       \* listings asked by the account effect, in flight together
    CommitSlots,     \* commits in flight together
    Providers,       \* the registered providers: [status, draining, caps, life, bonded]
    Slots,           \* K + M of the profile being created
    MaxDeals,        \* bound: deals on the chain
    MaxRoots,        \* bound: roots made
    MaxChanges,      \* bound: what the user and the clock do
    OverridesExpire, \* do the two minutes of an override pass within the run
    MaxAttempts,     \* attempts of the two refresh loops (10 and 20 in the code)
    None

VARIABLES
    addr,       \* the connected account, or None
    ready,      \* funded, permitted and on the right network
    prov,       \* what fetchProviders last stored: [list, health, collateral]
    chain,      \* the deals on the chain: [owner, mode2, hist], hist the roots so far
    deals,      \* the page's deals: a sequence of [id, owner, mode2, cid]
    overrides,  \* optimisticCidOverridesRef: deal -> root, 0 for none
    fetch,      \* the listings: thread -> [st, owner, snap, tries]
    target,     \* targetDealId, None for ''
    staged,     \* stagedUpload: its root, or 0
    upload,     \* the upload in flight: [st, deal, owner, prev]
    commit,     \* slot -> [st, deal, owner, prev, root]
    creating,   \* handleCreateDeal: [st, prev, owner, id]
    roots,      \* roots made so far
    changes

vars == <<addr, ready, prov, chain, deals, overrides, fetch, target, staged,
          upload, commit, creating, roots, changes>>

Threads == PageSlots \cup CommitSlots \cup {"create"}

DealIds == 1..MaxDeals

cid(d) == IF chain[d].hist = <<>> THEN 0 ELSE Last(chain[d].hist)

---------------------------------------------------------------------------
(* Which providers can take a new deal *)

providerMatchesServiceHintBase(p, base) ==
    CASE base = "hot" -> p.caps \in {"general", "edge"}
      [] base = "cold" -> p.caps \in {"archive", "general"}
      [] OTHER -> TRUE

lifecycleBlocks(life) == life \in {"DELINQUENT", "DRAINING", "JAILED", "EXITED"}

Eligible(p) ==
    /\ p.status \in {"", "active"}
    /\ ~p.draining
    /\ providerMatchesServiceHintBase(p, "general")
    /\ prov.collateral => p.bonded
    /\ prov.health => ~lifecycleBlocks(p.life)

summarizeProviderEligibility ==
    [loaded |-> prov.health \/ prov.collateral,
     providerCount |-> Len(prov.list),
     eligibleCount |-> Len(SelectSeq(prov.list, Eligible))]

formatProviderEligibilityError(sum, slots) ==
    /\ slots > 0
    /\ \/ sum.providerCount = 0
       \/ ~sum.loaded /\ slots > sum.providerCount
       \/ sum.loaded /\ slots > sum.eligibleCount

createDealProviderError ==
    formatProviderEligibilityError(summarizeProviderEligibility, Slots)

fetchProviders(okList, okHealth, okCollateral) ==
    /\ addr # None
    /\ prov' = [list |-> IF okList THEN Providers ELSE prov.list,
                health |-> okHealth, collateral |-> okCollateral]
    /\ prov' # prov
    /\ UNCHANGED <<addr, ready, chain, deals, overrides, fetch, target, staged,
                   upload, commit, creating, roots, changes>>

---------------------------------------------------------------------------
(* The selected deal *)

ownedDeals(ds, a) == SelectSeq(ds, LAMBDA d : a = None \/ d.owner = a)

targetDeal == IF \E i \in DOMAIN deals : deals[i].id = target
              THEN deals[CHOOSE i \in DOMAIN deals : deals[i].id = target]
              ELSE None

(* No deal is selected: the newest of the account's own *)
autoSelect(t, ds, a) ==
    LET owned == ownedDeals(ds, a) IN
    IF t # None \/ a = None \/ owned = <<>> THEN t ELSE Last(owned).id

(* The render with selection t, list ds and account a, and its effects *)
Select(t, ds, a) ==
    /\ target' = autoSelect(t, ds, a)
    /\ staged' = IF t = target /\ target' = target THEN staged ELSE 0

isTargetDealMode2 == targetDeal = None \/ targetDeal.mode2

chooseDeal(d) ==
    /\ changes < MaxChanges
    /\ \E i \in DOMAIN ownedDeals(deals, addr) : ownedDeals(deals, addr)[i].id = d
    /\ target # d
    /\ Select(d, deals, addr)
    /\ changes' = changes + 1
    /\ UNCHANGED <<addr, ready, prov, chain, deals, overrides, fetch, upload,
                   commit, creating, roots>>

---------------------------------------------------------------------------
(* Listings *)

NotFetching == [st |-> "idle", owner |-> None, snap |-> <<>>, tries |-> 0]

Asked(owner, tries) == [st |-> "asked", owner |-> owner, snap |-> <<>>, tries |-> tries]

(* The node answers with the deals of the chain as they are now *)
lcdFetchDeals(t) ==
    /\ fetch[t].st = "asked"
    /\ fetch' = [fetch EXCEPT ![t].st = "read",
                     ![t].snap = [d \in DOMAIN chain |->
                         [id |-> d, owner |-> chain[d].owner,
                          mode2 |-> chain[d].mode2, cid |-> cid(d)]]]
    /\ UNCHANGED <<addr, ready, prov, chain, deals, overrides, target, staged,
                   upload, commit, creating, roots, changes>>

merged(all, ov) ==
    [i \in DOMAIN all |->
        IF ov[all[i].id] = 0 THEN all[i] ELSE [all[i] EXCEPT !.cid = ov[all[i].id]]]

(* The overrides the listing leaves: one the chain agrees with is dropped *)
remaining(all, ov) ==
    [d \in DealIds |->
        IF \E i \in DOMAIN all : all[i].id = d /\ all[i].cid = ov[d] THEN 0 ELSE ov[d]]

filtered(list, owner) ==
    LET own == SelectSeq(list, LAMBDA d : d.owner = owner)
    IN IF own = <<>> THEN list ELSE own

(* What the answer does to the page; sel is the selection it leaves *)
\* Fault: the answer is shown as the node gave it, and an override is only
\* kept for the next one.
fetchDealsUnmerged(t, ok, sel) ==
    /\ IF ok
       THEN /\ deals' = filtered(fetch[t].snap, fetch[t].owner)
            /\ overrides' = remaining(fetch[t].snap, overrides)
       ELSE UNCHANGED <<deals, overrides>>
    /\ Select(sel, deals', addr)
    /\ UNCHANGED <<addr, ready, prov, chain, upload, commit, roots, changes>>

fetchDeals(t, ok, sel) ==
    /\ IF ok
       THEN /\ deals' = filtered(merged(fetch[t].snap, overrides), fetch[t].owner)
            /\ overrides' = remaining(fetch[t].snap, overrides)
       ELSE UNCHANGED <<deals, overrides>>
    /\ Select(sel, deals', addr)
    /\ UNCHANGED <<addr, ready, prov, chain, upload, commit, roots, changes>>

Answer(t, ok) == fetch[t].st = (IF ok THEN "read" ELSE "asked")

pageListing(t, ok) ==
    /\ Answer(t, ok)
    /\ fetchDeals(t, ok, target)
    /\ fetch' = [fetch EXCEPT ![t] = NotFetching]
    /\ UNCHANGED creating

(* One pass of a refresh loop: over when found, or when the attempts are *)
Again(t, found) ==
    IF found \/ fetch[t].tries + 1 = MaxAttempts THEN NotFetching
    ELSE [NotFetching EXCEPT !.st = "sleeping", !.owner = fetch[t].owner,
                             !.tries = fetch[t].tries + 1]

LoopTimer(t) ==
    /\ fetch[t].st = "sleeping"
    /\ fetch' = [fetch EXCEPT ![t] = Asked(fetch[t].owner, fetch[t].tries)]
    /\ UNCHANGED <<addr, ready, prov, chain, deals, overrides, target, staged,
                   upload, commit, creating, roots, changes>>

refreshDealsAfterContentCommit(t, ok) ==
    /\ Answer(t, ok)
    /\ fetchDeals(t, ok, target)
    /\ fetch' = [fetch EXCEPT ![t] = Again(t, ok /\ \E i \in DOMAIN deals' :
           deals'[i].id = commit[t].deal /\ deals'[i].cid = commit[t].root)]
    /\ UNCHANGED creating

(* The loop's end selects the deal that was created *)
refreshDealsAfterCreate(ok) ==
    LET t == "create"
        list == filtered(merged(fetch[t].snap, overrides), fetch[t].owner)
        next == Again(t, ok /\ \E i \in DOMAIN list : list[i].id = creating.id)
    IN  /\ Answer(t, ok)
        /\ fetchDeals(t, ok, IF next.st = "idle" THEN creating.id ELSE target)
        /\ fetch' = [fetch EXCEPT ![t] = next]
        /\ creating' = IF next.st = "idle" THEN [creating EXCEPT !.st = "idle"] ELSE creating

(* Two minutes after a commit its override counts no more *)
OverrideExpires(d) ==
    /\ OverridesExpire
    /\ overrides[d] # 0
    /\ changes < MaxChanges
    /\ overrides' = [overrides EXCEPT ![d] = 0]
    /\ changes' = changes + 1
    /\ UNCHANGED <<addr, ready, prov, chain, deals, fetch, target, staged, upload,
                   commit, creating, roots>>

---------------------------------------------------------------------------
(* Creating a deal *)

NotCreating == [st |-> "idle", prev |-> None, owner |-> None, id |-> 0]

(* handleCreateDealClick lets only a ready page through; the checks of the
   profile and of the providers put the selection back *)
handleCreateDeal ==
    /\ ready /\ addr # None
    /\ creating.st = "idle"
    /\ changes < MaxChanges
    /\ changes' = changes + 1
    /\ IF createDealProviderError
       THEN Select(target, deals, addr) /\ UNCHANGED creating
       ELSE /\ target' = autoSelect(None, deals, addr)
            /\ staged' = 0
            /\ creating' = [st |-> "signing", prev |-> target, owner |-> addr, id |-> 0]
    /\ UNCHANGED <<addr, ready, prov, chain, deals, overrides, fetch, upload,
                   commit, roots>>

ChainCreates ==
    /\ creating.st = "signing"
    /\ Len(chain) < MaxDeals
    /\ chain' = Append(chain, [owner |-> creating.owner, mode2 |-> TRUE, hist |-> <<>>])
    /\ creating' = [creating EXCEPT !.st = "mined", !.id = Len(chain) + 1]
    /\ UNCHANGED <<addr, ready, prov, deals, overrides, fetch, target, staged,
                   upload, commit, roots, changes>>

dealCreated ==
    /\ creating.st = "mined"
    /\ creating' = [creating EXCEPT !.st = "refreshing"]
    /\ fetch' = [fetch EXCEPT !["create"] = Asked(creating.owner, 0)]
    /\ UNCHANGED <<addr, ready, prov, chain, deals, overrides, target, staged,
                   upload, commit, roots, changes>>

(* The wallet refuses, the transaction reverts or its receipt never comes *)
createFails ==
    /\ creating.st \in {"signing", "mined"}
    /\ Select(creating.prev, deals, addr)
    /\ creating' = NotCreating
    /\ UNCHANGED <<addr, ready, prov, chain, deals, overrides, fetch, upload,
                   commit, roots, changes>>

---------------------------------------------------------------------------
(* Committing content *)

NotUploading == [st |-> "idle", deal |-> 0, owner |-> None, prev |-> 0]
NotCommitting == [st |-> "idle", deal |-> 0, owner |-> None, prev |-> 0, root |-> 0]

shownCid == IF targetDeal = None THEN 0 ELSE targetDeal.cid

(* The content tab: a file for the selected deal of the first mode *)
handleFileChange ==
    /\ addr # None /\ ready /\ target # None /\ ~isTargetDealMode2
    /\ upload.st = "idle"
    /\ roots < MaxRoots
    /\ upload' = [st |-> "uploading", deal |-> target, owner |-> addr, prev |-> shownCid]
    /\ UNCHANGED <<addr, ready, prov, chain, deals, overrides, fetch, target,
                   staged, commit, creating, roots, changes>>

uploadFails ==
    /\ upload.st = "uploading"
    /\ upload' = NotUploading
    /\ UNCHANGED <<addr, ready, prov, chain, deals, overrides, fetch, target,
                   staged, commit, creating, roots, changes>>

(* The upload answers: it is staged and, in the same step, on its way to the
   deal its handler was called with *)
uploaded(s) ==
    /\ upload.st = "uploading"
    /\ commit[s].st = "idle" /\ fetch[s].st = "idle"
    /\ roots' = roots + 1
    /\ staged' = roots + 1
    /\ commit' = [commit EXCEPT ![s] =
          [st |-> "signing", deal |-> upload.deal, owner |-> upload.owner,
           prev |-> upload.prev, root |-> roots + 1]]
    /\ upload' = NotUploading
    /\ UNCHANGED <<addr, ready, prov, chain, deals, overrides, fetch, target,
                   creating, changes>>

updateLoading == \E s \in CommitSlots : commit[s].st \in {"signing", "mined"}

(* The button commits the staged upload into the selected deal *)
commitStaged(s) ==
    /\ ready /\ addr # None
    /\ ~updateLoading
    /\ commit[s].st = "idle" /\ fetch[s].st = "idle"
    /\ staged # 0 /\ target # None /\ ~isTargetDealMode2
    /\ changes < MaxChanges
    /\ changes' = changes + 1
    /\ commit' = [commit EXCEPT ![s] =
          [st |-> "signing", deal |-> target, owner |-> addr, prev |-> shownCid,
           root |-> staged]]
    /\ UNCHANGED <<addr, ready, prov, chain, deals, overrides, fetch, target,
                   staged, upload, creating, roots>>

(* The chain takes a root that replaces the one the page named *)
submitUpdate(s) ==
    LET c == commit[s] IN
    /\ c.st = "signing"
    /\ chain[c.deal].owner = c.owner /\ cid(c.deal) = c.prev
    /\ c.root \notin Range(chain[c.deal].hist)
    /\ chain' = [chain EXCEPT ![c.deal].hist = Append(@, c.root)]
    /\ commit' = [commit EXCEPT ![s].st = "mined"]
    /\ UNCHANGED <<addr, ready, prov, deals, overrides, fetch, target, staged,
                   upload, creating, roots, changes>>

(* The mode 2 panel, of the selected deal, has a root of its own mined *)
sharderCommits(s) ==
    /\ ready /\ target # None /\ targetDeal # None
    /\ targetDeal.mode2 /\ targetDeal.owner = addr
    /\ commit[s].st = "idle" /\ fetch[s].st = "idle"
    /\ roots < MaxRoots
    /\ roots' = roots + 1
    /\ chain' = [chain EXCEPT ![target].hist = Append(@, roots + 1)]
    /\ commit' = [commit EXCEPT ![s] =
          [st |-> "mined", deal |-> target, owner |-> addr, prev |-> cid(target),
           root |-> roots + 1]]
    /\ UNCHANGED <<addr, ready, prov, deals, overrides, fetch, target, staged,
                   upload, creating, changes>>

(* The receipt: handleUpdateContent and handleMduCommitSuccess go on alike *)
contentCommitted(s) ==
    LET c == commit[s] IN
    /\ c.st = "mined"
    /\ overrides' = [overrides EXCEPT ![c.deal] = c.root]
    /\ deals' = [i \in DOMAIN deals |->
          IF deals[i].id = c.deal THEN [deals[i] EXCEPT !.cid = c.root] ELSE deals[i]]
    /\ commit' = [commit EXCEPT ![s].st = "idle"]
    /\ fetch' = [fetch EXCEPT ![s] = Asked(c.owner, 0)]
    /\ UNCHANGED <<addr, ready, prov, chain, target, staged, upload, creating,
                   roots, changes>>

commitFails(s) ==
    /\ commit[s].st \in {"signing", "mined"}
    /\ commit' = [commit EXCEPT ![s] = NotCommitting]
    /\ UNCHANGED <<addr, ready, prov, chain, deals, overrides, fetch, target,
                   staged, upload, creating, roots, changes>>

---------------------------------------------------------------------------
(* The account, and the session's verdict *)

AccountRenders(a) ==
    /\ a # addr
    /\ changes < MaxChanges
    /\ changes' = changes + 1
    /\ addr' = a
    /\ overrides' = [d \in DealIds |-> 0]
    /\ IF a = None
       THEN /\ deals' = <<>>
            /\ prov' = [list |-> <<>>, health |-> FALSE, collateral |-> FALSE]
            /\ UNCHANGED fetch
       ELSE /\ \E t \in PageSlots : /\ fetch[t].st = "idle"
                                    /\ fetch' = [fetch EXCEPT ![t] = Asked(a, 0)]
            /\ UNCHANGED <<deals, prov>>
    /\ Select(target, deals', a)
    /\ UNCHANGED <<ready, chain, upload, commit, creating, roots>>

SessionChanges ==
    /\ changes < MaxChanges
    /\ changes' = changes + 1
    /\ ready' = ~ready
    /\ UNCHANGED <<addr, prov, chain, deals, overrides, fetch, target, staged,
                   upload, commit, creating, roots>>

---------------------------------------------------------------------------
Init ==
    /\ addr = None
    /\ ready = TRUE
    /\ prov = [list |-> <<>>, health |-> FALSE, collateral |-> FALSE]
    /\ chain = [d \in DOMAIN InitialDeals |->
          [owner |-> InitialDeals[d].owner, mode2 |-> InitialDeals[d].mode2, hist |-> <<>>]]
    /\ deals = <<>>
    /\ overrides = [d \in DealIds |-> 0]
    /\ fetch = [t \in Threads |-> NotFetching]
    /\ target = None
    /\ staged = 0
    /\ upload = NotUploading
    /\ commit = [s \in CommitSlots |-> NotCommitting]
    /\ creating = NotCreating
    /\ roots = 0
    /\ changes = 0

Next ==
    \/ \E b1, b2, b3 \in BOOLEAN : fetchProviders(b1, b2, b3)
    \/ \E d \in DealIds : chooseDeal(d) \/ OverrideExpires(d)
    \/ \E t \in Threads : lcdFetchDeals(t) \/ LoopTimer(t)
    \/ \E t \in PageSlots, ok \in BOOLEAN : pageListing(t, ok)
    \/ \E s \in CommitSlots, ok \in BOOLEAN : refreshDealsAfterContentCommit(s, ok)
    \/ \E ok \in BOOLEAN : refreshDealsAfterCreate(ok)
    \/ handleCreateDeal \/ ChainCreates \/ dealCreated \/ createFails
    \/ handleFileChange \/ uploadFails
    \/ \E s \in CommitSlots :
          uploaded(s) \/ commitStaged(s) \/ submitUpdate(s) \/ sharderCommits(s)
            \/ contentCommitted(s) \/ commitFails(s)
    \/ \E a \in Accounts \cup {None} : AccountRenders(a)
    \/ SessionChanges

Spec == Init /\ [][Next]_vars

---------------------------------------------------------------------------
TypeOK ==
    /\ addr \in Accounts \cup {None}
    /\ ready \in BOOLEAN
    /\ overrides \in [DealIds -> 0..MaxRoots]
    /\ target \in DealIds \cup {None}
    /\ staged \in 0..MaxRoots
    /\ upload.st \in {"idle", "uploading"}
    /\ \A s \in CommitSlots : commit[s].st \in {"idle", "signing", "mined"}
    /\ \A t \in Threads : fetch[t].st \in {"idle", "asked", "read", "sleeping"}
    /\ creating.st \in {"idle", "signing", "mined", "refreshing"}
    /\ changes \in 0..MaxChanges

(* While a root this page has committed waits for the chain to report it,  *)
(* the page shows that root and no other for its deal, whichever listings  *)
(* were asked before the commit and answer after it (the override map of   *)
(* fetchDeals).                                                            *)
OptimisticRootShown ==
    \A i \in DOMAIN deals :
        overrides[deals[i].id] # 0 => deals[i].cid = overrides[deals[i].id]

(* "Prevent accidental uploads to a stale deal while createDeal is still   *)
(* in-flight." (Dashboard.tsx:1082): from the click to the answer of the   *)
(* wallet no earlier deal takes an upload, unless the user selects one.    *)
NoStaleTarget ==
    [][creating.st = "idle" /\ creating'.st = "signing" => target' = None]_vars

(* "update the selected deal immediately so Deal Explorer can refresh      *)
(* while the LCD catches up" (Dashboard.tsx:1360): a root once shown for a *)
(* deal is not replaced by one the deal had before it, as long as the      *)
(* account stays (and, in the run, no override runs out).                  *)
ShownNeverRegresses ==
    [][(addr' = addr /\ changes' = changes) =>
        \A i \in DOMAIN deals, j \in DOMAIN deals' :
            LET d == deals[i].id  h == chain[d].hist IN
            d = deals'[j].id /\ deals[i].cid \in Range(h) =>
                \E p, q \in DOMAIN h : /\ h[p] = deals[i].cid /\ q >= p
                                       /\ deals'[j].cid = chain'[d].hist[q]]_vars
===========================================================================
