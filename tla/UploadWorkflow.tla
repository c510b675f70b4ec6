--------------------------- MODULE UploadWorkflow ---------------------------
(***************************************************************************)
(* The browser upload panel of a striped deal (FileSharder.tsx and the     *)
(* hooks it uses), for several panels - tabs or browsers of the owner - on *)
(* one deal.  A panel loads the deal, prepares a file into a new           *)
(* generation that appends to the base generation it knows, uploads it to  *)
(* the provider of every slot, replaces the providers that do not answer,  *)
(* commits the new manifest root with a compare-and-swap on the previous   *)
(* one, and saves the committed generation in the browser.  A panel that   *)
(* has a local gateway first lets the gateway ingest the file.             *)
(*                                                                         *)
(* A generation is the sequence of the files it holds, and its manifest    *)
(* root is that sequence: the root of a deal without content is << >>.     *)
(* Code between two awaits is one step.  React effects are actions: other  *)
(* events may come between a state change and the effect it triggers.      *)
(***************************************************************************)
EXTENDS Integers, FiniteSets, Sequences, SequencesExt

CONSTANTS Clients,      \* upload panels open on the deal
          Files,        \* files users pick
          Owner,        \* the panel at which each file is picked
          Slots, Providers,
          Assigned,     \* the provider of each slot before the first upload
          Gateway,      \* TRUE: a local gateway is connected
          Faults,       \* what may happen beyond unreachable providers:
                        \*   "refusal": a provider refuses an artifact for good
                        \*   "routing": a replaced slot's routing cannot be read
                        \*   "drop": a file is dropped while the panel is busy
          None,
          MaxBumps,     \* bound: slot replacements
          MaxPicks,     \* bound: times a file is picked
          MaxCommits,   \* bound: commit transactions sent
          MaxReloads    \* bound: page reloads

Roots == SeqOf(Files, Cardinality(Files) * MaxPicks)
Routing == [Slots -> Providers]

ConstantsAssumption ==
    /\ IsFiniteSet(Clients) /\ IsFiniteSet(Files) /\ IsFiniteSet(Slots)
    /\ Owner \in [Files -> Clients] /\ Assigned \in Routing
    /\ Gateway \in BOOLEAN /\ Faults \subseteq {"refusal", "routing", "drop"}
    /\ {MaxBumps, MaxPicks, MaxCommits, MaxReloads} \subseteq Nat

VARIABLES
    chainRoot,   \* the deal's manifest root on the chain
    assign,      \* the chain's provider of each slot
    txs,         \* commit transactions sent and not yet executed
    receipts,    \* results of executed ones: hash -> "ok" | "reverted"
    committed,   \* history: every root the chain has accepted
    stored,      \* <<provider, slot, root>>: every artifact of the slot is held
    seen,        \* provider or gateway -> previous roots its preflight cached
    gwSlabs,     \* <<label, generation>>: slabs the local gateway holds
    disk,        \* client -> the browser's saved generation [label, mdus]
    panel,       \* client -> the panel's React state and refs
    job,         \* file -> processFile in progress
    up,          \* file -> uploadMode2 in progress
    cm,          \* client -> commitContent in progress
    saves,       \* client -> commit-success tasks not finished, oldest first
    mirrors,     \* client -> <<root, base>> being mirrored to the gateway
    bumps, reloads, picks, sent

chain == <<chainRoot, assign, txs, receipts, committed>>
network == <<stored, seen, gwSlabs>>
counters == <<bumps, reloads, picks, sent>>
vars == <<chain, network, disk, panel, job, up, cm, saves, mirrors, counters>>

(* The panel before anything happened (the useState and useRef defaults). *)
NewPanel ==
    [setup |-> "loading", base |-> << >>, slots |-> None, snap |-> None,
     file |-> None, root |-> None, local |-> FALSE,
     processing |-> FALSE, phase |-> "idle",
     uploading |-> FALSE, complete |-> FALSE, upErr |-> FALSE,
     autoUp |-> None, autoCm |-> None,
     pending |-> FALSE, confirming |-> FALSE, success |-> FALSE,
     hash |-> None, cerr |-> "none", lastStale |-> FALSE,
     lastTx |-> None, lastCm |-> None, lastPer |-> None]

NoJob == [pc |-> "idle", base |-> << >>, awaits |-> {}, root |-> None,
          retried |-> FALSE]
NoUp == [pc |-> "idle", root |-> None, base |-> << >>, slots |-> None,
         left |-> {}, failed |-> {}, fatal |-> FALSE, slot |-> None,
         was |-> None, now |-> None, snap |-> None, tries |-> 0]
NoCommit == [pc |-> "idle", prev |-> << >>, root |-> None, hash |-> None]
EmptyDisk == [label |-> None, mdus |-> None]

Init ==
    /\ chainRoot = << >> /\ assign = Assigned
    /\ txs = {} /\ receipts = << >> /\ committed = {}
    /\ stored = {} /\ seen = [n \in Providers \cup {None} |-> {}] /\ gwSlabs = {}
    /\ disk = [c \in Clients |-> EmptyDisk]
    /\ panel = [c \in Clients |-> NewPanel]
    /\ job = [f \in Files |-> NoJob] /\ up = [f \in Files |-> NoUp]
    /\ cm = [c \in Clients |-> NoCommit]
    /\ saves = [c \in Clients |-> << >>] /\ mirrors = [c \in Clients |-> {}]
    /\ bumps = 0 /\ reloads = 0 /\ picks = [f \in Files |-> 0]
    /\ sent = 0

Set(c, r) == panel' = [panel EXCEPT ![c] = r @@ panel[c]]

(* A node accepts an upload when the X-PolyStore-Previous-Manifest-Root it *)
(* carries is the deal's root, or was when the node last looked: a positive *)
(* answer is cached (None is the local gateway).                           *)
Accepts(node, prev) == prev = chainRoot \/ prev \in seen[node]

See(node, prev) == seen' = [seen EXCEPT ![node] = @ \cup {prev}]

-----------------------------------------------------------------------------
(* What the panel shows.  Every formula is a derived value of the render.  *)

isAlreadyCommitted(p) == p.success /\ p.lastCm = p.root

readyToUpload(p) == p.root # None /\ ~p.complete /\ p.local

readyToCommit(p) == p.root # None /\ p.complete /\ ~isAlreadyCommitted(p)

commitDisplayError(p) == p.cerr \notin {"none", "rejected"}

(* The states of the four workflow steps: select, expand, upload, commit.  *)
workflowSteps(p) ==
    LET selected == p.file # None \/ p.processing \/ p.root # None
        committing == p.pending \/ p.confirming
        uploadDone == p.complete \/ isAlreadyCommitted(p) \/ committing
        expansionError == p.phase = "error"
    IN  << IF selected THEN "done" ELSE IF expansionError THEN "error" ELSE "active",
           IF expansionError /\ (p.processing \/ p.root # None) THEN "error"
           ELSE IF p.processing THEN "active"
           ELSE IF p.root # None \/ (Gateway /\ (p.uploading \/ uploadDone)) THEN "done"
           ELSE "idle",
           IF p.upErr THEN "error"
           ELSE IF p.uploading THEN "active"
           ELSE IF uploadDone THEN "done"
           ELSE IF p.root # None THEN "active" ELSE "idle",
           IF commitDisplayError(p) THEN "error"
           ELSE IF isAlreadyCommitted(p) THEN "done"
           ELSE IF committing \/ readyToCommit(p) THEN "active" ELSE "idle" >>

(* The step the panel expands: the first in error, else the first active,  *)
(* else the last one done.                                                 *)
activeWorkflowStepIndex(p) ==
    LET s == workflowSteps(p)
        At(state) == {i \in 1..4 : s[i] = state}
    IN  IF At("error") # {} THEN Min(At("error"))
        ELSE IF At("active") # {} THEN Min(At("active"))
        ELSE Max(At("done"))

(* The "Select file" label is in the first step and the commit button in   *)
(* the fourth; a step's body is rendered while it is expanded or in error. *)
Expanded(p, i) == activeWorkflowStepIndex(p) = i \/ workflowSteps(p)[i] = "error"

showRetryUpload(p) ==
    /\ ~p.complete /\ ~p.uploading /\ ~p.processing
    /\ p.phase = "error" \/ p.upErr \/ readyToUpload(p)

(* resetUploadPanel, and the lastFileMetaRef reset its callers add.        *)
ResetFields ==
    [file |-> None, root |-> None, local |-> FALSE, processing |-> FALSE,
     phase |-> "idle", uploading |-> FALSE, complete |-> FALSE, upErr |-> FALSE,
     autoUp |-> None, autoCm |-> None]

-----------------------------------------------------------------------------
(* Loading the deal: the deal is read first, the endpoints of its providers *)
(* afterwards, and only then is the snapshot applied.                      *)

ReadDeal(c) ==
    /\ panel[c].setup = "loading"
    /\ Set(c, [setup |-> "endpoints", snap |-> [root |-> chainRoot, slots |-> assign]])
    /\ UNCHANGED <<chain, network, disk, job, up, cm, saves, mirrors, counters>>

applyDealSetupSnapshot(s) == [base |-> s.root, slots |-> s.slots, snap |-> None]

loadDealSetupSnapshot(c) ==
    /\ panel[c].setup = "endpoints"
    /\ Set(c, [setup |-> "ready"] @@ applyDealSetupSnapshot(panel[c].snap))
    /\ UNCHANGED <<chain, network, disk, job, up, cm, saves, mirrors, counters>>

-----------------------------------------------------------------------------
(* processFile: the closure keeps the base and the routing of the render   *)
(* in which the file was picked.                                           *)

LocalSaves(c) == {s \in Range(saves[c]) : s.kind = "local"}

(* The panel is cleared for the new file and a path is chosen.             *)
Started(j) == [j EXCEPT !.pc = IF Gateway THEN "gateway" ELSE "wasm", !.awaits = {}]
StartedPanel(f) == [file |-> f, processing |-> TRUE, phase |-> "work"] @@ ResetFields

(* A file is picked.  While a committed slab is being saved it waits for   *)
(* that save; otherwise preparation starts in the same step.               *)
PickFile(f) ==
    LET c == Owner[f]
        j == [NoJob EXCEPT !.pc = "wait", !.base = panel[c].base, !.awaits = LocalSaves(c)]
    IN
    /\ panel[c].setup = "ready"
    /\ "drop" \in Faults \/ Expanded(panel[c], 1)
    /\ job[f].pc = "idle" /\ up[f].pc = "idle" /\ picks[f] < MaxPicks
    /\ picks' = [picks EXCEPT ![f] = @ + 1]
    /\ IF j.awaits # {} THEN job' = [job EXCEPT ![f] = j] /\ UNCHANGED panel
       ELSE job' = [job EXCEPT ![f] = Started(j)] /\ Set(c, StartedPanel(f))
    /\ UNCHANGED <<chain, network, disk, up, cm, saves, mirrors, bumps, reloads, sent>>

(* The save that was running when the file was picked has ended.           *)
StartFile(f) ==
    /\ job[f].pc = "wait"
    /\ job[f].awaits \cap LocalSaves(Owner[f]) = {}
    /\ job' = [job EXCEPT ![f] = Started(job[f])]
    /\ Set(Owner[f], StartedPanel(f))
    /\ UNCHANGED <<chain, network, disk, up, cm, saves, mirrors, counters>>

(* A preparation that stops with an error message.                         *)
PrepareFails(f, uploadError) ==
    LET c == Owner[f] IN
    /\ job' = [job EXCEPT ![f] = NoJob]
    /\ Set(c, [phase |-> "error", processing |-> FALSE,
               upErr |-> panel[c].upErr \/ uploadError])
    /\ UNCHANGED <<chain, network, disk, up, cm, saves, mirrors, counters>>

(* The gateway ingests the file on top of the deal's current root, uploads *)
(* every slot and answers the new root; without the slab of that root it   *)
(* answers that its append state is missing.                               *)
GatewayIngest(f) ==
    /\ job[f].pc = "gateway"
    /\ \/ /\ chainRoot # << >> /\ \A s \in gwSlabs : s[1] # chainRoot
          /\ job' = [job EXCEPT ![f].pc = "missing"]
          /\ UNCHANGED <<stored, gwSlabs>>
       \/ \E g \in {s[2] : s \in {t \in gwSlabs : t[1] = chainRoot}}
                     \cup (IF chainRoot = << >> THEN {<< >>} ELSE {}) :
             /\ gwSlabs' = gwSlabs \cup {<<Append(g, f), Append(g, f)>>}
             /\ stored' = stored \cup {<<assign[s], s, Append(g, f)>> : s \in Slots}
             /\ job' = [job EXCEPT ![f].pc = "ingested", ![f].root = Append(g, f)]
    /\ UNCHANGED <<chain, seen, disk, panel, up, cm, saves, mirrors, counters>>

(* No gateway answers, or it reports that the providers do not, or fails.  *)
GatewayUnreachable(f) ==
    /\ job[f].pc = "gateway"
    /\ job' = [job EXCEPT ![f].pc = "wasm"]
    /\ Set(Owner[f], [upErr |-> FALSE])
    /\ UNCHANGED <<chain, network, disk, up, cm, saves, mirrors, counters>>

GatewayFails(f) ==
    /\ job[f].pc \in {"gateway", "missing"}
    /\ PrepareFails(f, TRUE)

finalizeGatewaySuccess(f) ==
    /\ job[f].pc = "ingested"
    /\ job' = [job EXCEPT ![f] = NoJob]
    /\ Set(Owner[f], [root |-> job[f].root, local |-> FALSE, upErr |-> FALSE,
                      complete |-> TRUE, phase |-> "done", processing |-> FALSE])
    /\ UNCHANGED <<chain, network, disk, up, cm, saves, mirrors, counters>>

(* The append state is missing: the saved generation is posted to the      *)
(* gateway under the saved root label, with no previous root, and the same *)
(* upload is tried once more.                                              *)
RehydrateLabel(c) ==
    IF disk[c].label # None THEN disk[c].label
    ELSE IF panel[c].lastCm # None THEN panel[c].lastCm ELSE chainRoot

rehydrateGatewayFromOpfs(f) ==
    LET c == Owner[f]  label == RehydrateLabel(c) IN
    /\ job[f].pc = "missing" /\ ~job[f].retried
    /\ label # << >> /\ disk[c].mdus # None /\ Accepts(None, << >>)
    /\ gwSlabs' = gwSlabs \cup {<<label, disk[c].mdus>>}
    /\ See(None, << >>)
    /\ job' = [job EXCEPT ![f].pc = "gateway", ![f].retried = TRUE]
    /\ UNCHANGED <<chain, stored, disk, panel, up, cm, saves, mirrors, counters>>

GatewayStateMissing(f) ==
    /\ job[f].pc = "missing"
    /\ job' = [job EXCEPT ![f].pc = "wasm"]
    /\ Set(Owner[f], [upErr |-> FALSE])
    /\ UNCHANGED <<chain, network, disk, up, cm, saves, mirrors, counters>>

-----------------------------------------------------------------------------
(* Preparation in the browser.                                             *)

ensureWasmReady(f) ==
    /\ job[f].pc = "wasm"
    /\ job' = [job EXCEPT ![f].pc = "append"]
    /\ UNCHANGED <<chain, network, disk, panel, up, cm, saves, mirrors, counters>>

WasmInitFails(f) == job[f].pc = "wasm" /\ PrepareFails(f, FALSE)

evaluateCacheFreshness(local, chainManifest) ==
    IF chainManifest = << >> \/ local = None THEN "unknown"
    ELSE IF local = chainManifest THEN "fresh" ELSE "stale"

(* The saved generation serves when its metadata verifies against the      *)
(* generation the chain pins, and that one is the panel's base.            *)
loadLocalAppendBase(f) ==
    /\ disk[Owner[f]].mdus # None
    /\ chainRoot = job[f].base /\ disk[Owner[f]].mdus = chainRoot

(* The providers' copy of the pinned generation, read with paid sessions.  *)
bootstrapMode2AppendBaseFromNetwork(f) == chainRoot = job[f].base

(* The generation to append to.  A panel without a base starts empty; any  *)
(* other base is read from the browser unless it is stale, else from the   *)
(* providers.                                                              *)
resolveMode2AppendBase(f) ==
    /\ job[f].pc = "append"
    /\ \/ /\ job[f].base = << >>
          /\ job' = [job EXCEPT ![f].pc = "encode"]
       \/ /\ job[f].base # << >>
          /\ \/ /\ evaluateCacheFreshness(disk[Owner[f]].label, job[f].base) # "stale"
                /\ loadLocalAppendBase(f)
             \/ bootstrapMode2AppendBaseFromNetwork(f)
          /\ job' = [job EXCEPT ![f].pc = "pinned"]
    /\ UNCHANGED <<chain, network, disk, panel, up, cm, saves, mirrors, counters>>

AppendBaseFails(f) ==
    /\ job[f].pc = "append" /\ job[f].base # << >>
    /\ PrepareFails(f, FALSE)

(* The chain's generation is read once more before the file is encoded.    *)
CheckPinnedBase(f) ==
    /\ job[f].pc = "pinned"
    /\ IF chainRoot = job[f].base
       THEN /\ job' = [job EXCEPT ![f].pc = "encode"]
            /\ UNCHANGED <<chain, network, disk, panel, up, cm, saves, mirrors, counters>>
       ELSE PrepareFails(f, FALSE)

(* The new generation is ready: its root, manifest, MDUs and shards.       *)
Prepared(f) ==
    /\ job[f].pc = "encode"
    /\ job' = [job EXCEPT ![f] = NoJob]
    /\ Set(Owner[f], [root |-> Append(job[f].base, f), local |-> TRUE,
                      phase |-> "done", processing |-> FALSE])
    /\ UNCHANGED <<chain, network, disk, up, cm, saves, mirrors, counters>>

EncodeFails(f) == job[f].pc = "encode" /\ PrepareFails(f, FALSE)

-----------------------------------------------------------------------------
(* Upload to the slots' providers.                                         *)

(* startPreparedUpload and the synchronous part of uploadMode2.            *)
startPreparedUpload(c) ==
    LET p == panel[c]  f == Last(p.root) IN
    /\ p.root # None /\ ~p.processing /\ ~p.uploading /\ ~p.complete
    /\ up[f].pc = "idle" /\ p.slots # None
    /\ up' = [up EXCEPT ![f] = [NoUp EXCEPT !.pc = "send", !.root = p.root,
                 !.base = p.base, !.slots = p.slots, !.left = Slots]]
    /\ Set(c, [autoUp |-> p.root, uploading |-> TRUE, upErr |-> FALSE,
               complete |-> FALSE])
    /\ UNCHANGED <<chain, network, disk, job, cm, saves, mirrors, counters>>

AutoUpload(c) ==
    /\ readyToUpload(panel[c]) /\ panel[c].autoUp # panel[c].root
    /\ startPreparedUpload(c)

retryPreparedUpload(c) ==
    /\ showRetryUpload(panel[c]) /\ Expanded(panel[c], 3)
    /\ panel[c].root # None /\ panel[c].local
    /\ startPreparedUpload(c)

(* The end of uploadMode2, in success and in error.                        *)
UploadComplete(f) ==
    LET c == Owner[f] IN
    /\ up' = [up EXCEPT ![f] = NoUp]
    /\ Set(c, [complete |-> TRUE, uploading |-> FALSE])
    /\ mirrors' = IF Gateway
                  THEN [mirrors EXCEPT ![c] = @ \cup {<<up[f].root, up[f].base>>}]
                  ELSE mirrors
    /\ UNCHANGED <<chain, disk, job, cm, saves, counters>>

UploadFails(f) ==
    /\ up' = [up EXCEPT ![f] = NoUp]
    /\ Set(Owner[f], [upErr |-> TRUE, uploading |-> FALSE])
    /\ UNCHANGED <<chain, disk, job, cm, saves, mirrors, counters>>

(* One slot's artifacts reach its provider, or the provider cannot be      *)
(* reached, or it refuses them: because the previous root is stale, or for *)
(* a reason that replacing the provider would not mend.                    *)
SlotStored(f, s) ==
    LET p == up[f].slots[s] IN
    /\ Accepts(p, up[f].base)
    /\ stored' = stored \cup {<<p, s, up[f].root>>}
    /\ See(p, up[f].base)
    /\ UNCHANGED gwSlabs

MayRefuse(f) == "refusal" \in Faults \/ up[f].base # chainRoot

UploadSlot(f, s) ==
    /\ up[f].pc = "send" /\ s \in up[f].left
    /\ \/ SlotStored(f, s) /\ up' = [up EXCEPT ![f].left = @ \ {s}]
       \/ /\ up' = [up EXCEPT ![f].left = @ \ {s}, ![f].failed = @ \cup {s}]
          /\ UNCHANGED network
       \/ /\ MayRefuse(f)
          /\ up' = [up EXCEPT ![f].left = @ \ {s}, ![f].fatal = TRUE]
          /\ UNCHANGED network
    /\ UNCHANGED <<chain, disk, panel, job, cm, saves, mirrors, counters>>

(* The next slot to recover and the provider the panel believes it has.    *)
NextRecovery(u) ==
    LET s == Min(u.failed) IN
    [u EXCEPT !.pc = "bump", !.slot = s, !.was = u.slots[s], !.tries = 0]

(* Only recoverable failures are looked at once there is one.              *)
UploadEnds(f) ==
    /\ up[f].pc = "send" /\ up[f].left = {}
    /\ UNCHANGED network
    /\ \/ up[f].failed = {} /\ ~up[f].fatal /\ UploadComplete(f)
       \/ up[f].failed = {} /\ up[f].fatal /\ UploadFails(f)
       \/ /\ up[f].failed # {}
          /\ up' = [up EXCEPT ![f] = NextRecovery(up[f])]
          /\ UNCHANGED <<chain, disk, panel, job, cm, saves, mirrors, counters>>

(* The owner signs a replacement; the chain replaces the provider the      *)
(* transaction names, and only while the deal has no content.              *)
bumpSetupSlot(f) ==
    LET u == up[f] IN
    /\ u.pc = "bump"
    /\ chainRoot = << >> /\ assign[u.slot] = u.was /\ bumps < MaxBumps
    /\ bumps' = bumps + 1
    /\ \E p \in Providers \ Range(assign) :
          /\ assign' = [assign EXCEPT ![u.slot] = p]
          /\ up' = [up EXCEPT ![f].pc = "route", ![f].now = p]
    /\ UNCHANGED <<chainRoot, txs, receipts, committed, network, disk, panel, job, cm,
                   saves, mirrors, reloads, picks, sent>>

waitForUpdatedSetupSlot(f) ==
    LET u == up[f] IN
    /\ u.pc = "route" /\ assign[u.slot] = u.now
    /\ up' = [up EXCEPT ![f].pc = "endpoints",
                        ![f].snap = [root |-> chainRoot, slots |-> assign]]
    /\ UNCHANGED <<chain, network, disk, panel, job, cm, saves, mirrors, counters>>

ApplyRouting(f) ==
    LET u == up[f] IN
    /\ u.pc = "endpoints"
    /\ up' = [up EXCEPT ![f].pc = "retry", ![f].slots = u.snap.slots, ![f].snap = None]
    /\ Set(Owner[f], applyDealSetupSnapshot(u.snap))
    /\ UNCHANGED <<chain, network, disk, job, cm, saves, mirrors, counters>>

(* The replacement is refused, or its routing never shows up.              *)
RecoveryFails(f) ==
    /\ \/ up[f].pc = "bump"
       \/ up[f].pc = "route" /\ assign[up[f].slot] # up[f].now
       \/ up[f].pc \in {"route", "endpoints"} /\ "routing" \in Faults
    /\ UNCHANGED network
    /\ UploadFails(f)

\* Fault: the upload is complete after the first recovered slot.
uploadStripedSlotOnce(f) ==
    LET u == up[f] IN
    /\ u.pc = "retry"
    /\ \/ SlotStored(f, u.slot) /\ UploadComplete(f)
       \/ UNCHANGED network /\ UploadFails(f)

(* Only the replaced slot is uploaded again, at most three times.          *)
uploadStripedSlot(f) ==
    LET u == up[f]  rest == [u EXCEPT !.failed = @ \ {u.slot}] IN
    /\ u.pc = "retry"
    /\ \/ /\ SlotStored(f, u.slot)
          /\ IF rest.failed = {} THEN UploadComplete(f)
             ELSE /\ up' = [up EXCEPT ![f] = NextRecovery(rest)]
                  /\ UNCHANGED <<chain, disk, panel, job, cm, saves, mirrors, counters>>
       \/ /\ UNCHANGED network
          /\ u.tries < 2
          /\ up' = [up EXCEPT ![f].pc = "bump", ![f].was = u.now, ![f].tries = @ + 1]
          /\ UNCHANGED <<chain, disk, panel, job, cm, saves, mirrors, counters>>
       \/ /\ UNCHANGED network
          /\ u.tries = 2 \/ MayRefuse(f)
          /\ UploadFails(f)

(* mirrorSlabToGateway, started when an upload completed.                  *)
mirrorSlabToGateway(c) ==
    \E m \in mirrors[c] :
        /\ mirrors' = [mirrors EXCEPT ![c] = @ \ {m}]
        /\ \/ Accepts(None, m[2]) /\ gwSlabs' = gwSlabs \cup {<<m[1], m[1]>>} /\ See(None, m[2])
           \/ UNCHANGED <<gwSlabs, seen>>
        /\ UNCHANGED <<chain, stored, disk, panel, job, up, cm, saves, counters>>

-----------------------------------------------------------------------------
(* Commit: triggerPreparedCommit and useDirectCommit's commitContent.  The *)
(* previous root is the base the panel shows when the commit starts.       *)

\* Fault: the commit names the deal's latest root instead of its own base.
triggerPreparedCommitLatest(c) ==
    LET p == panel[c] IN
    /\ readyToCommit(p) /\ ~p.pending /\ ~p.confirming
    /\ cm' = [cm EXCEPT ![c] = [pc |-> "wallet", prev |-> chainRoot, root |-> p.root,
                                hash |-> None]]
    /\ Set(c, [autoCm |-> p.root, pending |-> TRUE, success |-> FALSE, hash |-> None,
               cerr |-> "none", lastStale |-> FALSE])
    /\ UNCHANGED <<chain, network, disk, job, up, saves, mirrors, counters>>

triggerPreparedCommit(c) ==
    LET p == panel[c] IN
    /\ readyToCommit(p) /\ ~p.pending /\ ~p.confirming
    /\ cm' = [cm EXCEPT ![c] = [pc |-> "wallet", prev |-> p.base, root |-> p.root,
                                hash |-> None]]
    /\ Set(c, [autoCm |-> p.root, pending |-> TRUE, success |-> FALSE, hash |-> None,
               cerr |-> "none", lastStale |-> FALSE])
    /\ UNCHANGED <<chain, network, disk, job, up, saves, mirrors, counters>>

AutoCommit(c) ==
    /\ panel[c].autoCm # panel[c].root
    /\ triggerPreparedCommit(c)

CommitClick(c) ==
    /\ Expanded(panel[c], 4) /\ panel[c].autoCm = panel[c].root
    /\ triggerPreparedCommit(c)

CommitFails(c, error) ==
    /\ cm' = [cm EXCEPT ![c] = NoCommit]
    /\ Set(c, [pending |-> FALSE, confirming |-> FALSE, success |-> FALSE, cerr |-> error])
    /\ UNCHANGED <<chain, network, disk, job, up, saves, mirrors, counters>>

(* The wallet refuses, reports the revert its own simulation met, fails,   *)
(* or sends the transaction.                                               *)
WalletRefuses(c) ==
    /\ cm[c].pc = "wallet"
    /\ \E e \in {"rejected", "stale", "other"} :
          /\ e = "stale" => cm[c].prev # chainRoot
          /\ CommitFails(c, e)

sendTransaction(c) ==
    LET h == <<c, sent + 1>> IN
    /\ cm[c].pc = "wallet" /\ sent < MaxCommits
    /\ sent' = sent + 1
    /\ txs' = txs \cup {[hash |-> h, prev |-> cm[c].prev, root |-> cm[c].root]}
    /\ cm' = [cm EXCEPT ![c].pc = "receipt", ![c].hash = h]
    /\ Set(c, [hash |-> h, pending |-> FALSE, confirming |-> TRUE])
    /\ UNCHANGED <<chainRoot, assign, receipts, committed, network, disk, job, up, saves,
                   mirrors, bumps, reloads, picks>>

\* Fault: the chain does not compare the previous root.
ExecuteCommitBlind(t) ==
    /\ t \in txs
    /\ txs' = txs \ {t}
    /\ chainRoot' = t.root
    /\ committed' = committed \cup {t.root}
    /\ receipts' = (t.hash :> "ok") @@ receipts
    /\ UNCHANGED <<assign, network, disk, panel, job, up, cm, saves, mirrors, counters>>

(* The chain executes a commit: it requires the previous root to be the    *)
(* deal's current one.                                                     *)
ExecuteCommit(t) ==
    /\ t \in txs
    /\ txs' = txs \ {t}
    /\ IF t.prev = chainRoot
       THEN /\ chainRoot' = t.root
            /\ committed' = committed \cup {t.root}
            /\ receipts' = (t.hash :> "ok") @@ receipts
       ELSE /\ receipts' = (t.hash :> "reverted") @@ receipts
            /\ UNCHANGED <<chainRoot, committed>>
    /\ UNCHANGED <<assign, network, disk, panel, job, up, cm, saves, mirrors, counters>>

(* A receipt, a reverted one, or 90 seconds without one.                   *)
waitForTransactionReceipt(c) ==
    /\ cm[c].pc = "receipt"
    /\ \/ /\ cm[c].hash \in DOMAIN receipts /\ receipts[cm[c].hash] = "ok"
          /\ cm' = [cm EXCEPT ![c] = NoCommit]
          /\ Set(c, [confirming |-> FALSE, success |-> TRUE])
          /\ UNCHANGED <<chain, network, disk, job, up, saves, mirrors, counters>>
       \/ /\ cm[c].hash \in DOMAIN receipts => receipts[cm[c].hash] = "reverted"
          /\ CommitFails(c, "other")

\* Fault: the effect runs as soon as the transaction has a hash.
CommitSentEffect(c) ==
    LET p == panel[c] IN
    /\ p.root # None /\ p.hash # None /\ p.lastTx # p.hash
    /\ Set(c, [lastTx |-> p.hash, lastCm |-> p.root, base |-> p.root])
    /\ saves' = [saves EXCEPT ![c] = Append(@,
                        [kind |-> IF p.local THEN "local" ELSE "index",
                         root |-> p.root, hash |-> p.hash])]
    /\ UNCHANGED <<chain, network, disk, job, up, cm, mirrors, counters>>

(* The commit-success effect: once per transaction hash, for the root the  *)
(* panel shows at that moment.                                             *)
CommitSuccessEffect(c) ==
    LET p == panel[c] IN
    /\ p.success /\ p.root # None /\ p.hash # None /\ p.lastTx # p.hash
    /\ Set(c, [lastTx |-> p.hash, lastCm |-> p.root, base |-> p.root])
    /\ saves' = IF p.local /\ p.lastPer = p.root THEN saves
                ELSE [saves EXCEPT ![c] = Append(@,
                        [kind |-> IF p.local THEN "local" ELSE "index",
                         root |-> p.root, hash |-> p.hash])]
    /\ UNCHANGED <<chain, network, disk, job, up, cm, mirrors, counters>>

SaveEnds(c, s) == saves' = [saves EXCEPT ![c] = Remove(@, s)]

(* The committed slab is written as a new complete generation, one save at *)
(* a time; a failed write leaves the saved generation as it was.           *)
writeSlabGenerationAtomically(c) ==
    LET waiting == SelectSeq(saves[c], LAMBDA s : s.kind = "local") IN
    /\ waiting # << >>
    /\ SaveEnds(c, Head(waiting))
    /\ LET root == Head(waiting).root IN
       \/ /\ disk' = [disk EXCEPT ![c] = [label |-> root, mdus |-> root]]
          /\ Set(c, [lastPer |-> root] @@ ResetFields)
       \/ UNCHANGED disk /\ Set(c, ResetFields)
    /\ UNCHANGED <<chain, network, job, up, cm, mirrors, counters>>

(* After a commit through the gateway only the root label and the metadata *)
(* are written, and only when a file table could be found.                 *)
SaveGatewayIndex(c) ==
    \E s \in Range(saves[c]) :
        /\ s.kind = "index"
        /\ SaveEnds(c, s)
        /\ \/ disk' = [disk EXCEPT ![c].label = s.root]
           \/ UNCHANGED disk
        /\ Set(c, ResetFields)
        /\ UNCHANGED <<chain, network, job, up, cm, mirrors, counters>>

(* A commit refused as stale clears the browser's generation, once.        *)
StaleCommitEffect(c) ==
    /\ panel[c].cerr = "stale" /\ ~panel[c].lastStale
    /\ disk' = [disk EXCEPT ![c] = EmptyDisk]
    /\ Set(c, [lastStale |-> TRUE, lastPer |-> None])
    /\ UNCHANGED <<chain, network, job, up, cm, saves, mirrors, counters>>

(* The page is reloaded: everything but the saved generation is lost.      *)
Reload(c) ==
    /\ reloads < MaxReloads
    /\ reloads' = reloads + 1
    /\ panel' = [panel EXCEPT ![c] = NewPanel]
    /\ job' = [f \in Files |-> IF Owner[f] = c THEN NoJob ELSE job[f]]
    /\ up' = [f \in Files |-> IF Owner[f] = c THEN NoUp ELSE up[f]]
    /\ cm' = [cm EXCEPT ![c] = NoCommit]
    /\ saves' = [saves EXCEPT ![c] = << >>]
    /\ mirrors' = [mirrors EXCEPT ![c] = {}]
    /\ UNCHANGED <<chain, network, disk, bumps, picks, sent>>

-----------------------------------------------------------------------------
PanelStep(c) ==
    \/ ReadDeal(c) \/ loadDealSetupSnapshot(c)
    \/ AutoUpload(c) \/ retryPreparedUpload(c)
    \/ AutoCommit(c) \/ CommitClick(c)
    \/ WalletRefuses(c) \/ sendTransaction(c) \/ waitForTransactionReceipt(c)
    \/ CommitSuccessEffect(c) \/ writeSlabGenerationAtomically(c)
    \/ SaveGatewayIndex(c) \/ StaleCommitEffect(c)
    \/ mirrorSlabToGateway(c) \/ Reload(c)

FileStep(f) ==
    \/ PickFile(f) \/ StartFile(f)
    \/ GatewayIngest(f) \/ GatewayUnreachable(f) \/ GatewayFails(f)
    \/ finalizeGatewaySuccess(f) \/ rehydrateGatewayFromOpfs(f) \/ GatewayStateMissing(f)
    \/ ensureWasmReady(f) \/ WasmInitFails(f)
    \/ resolveMode2AppendBase(f) \/ AppendBaseFails(f) \/ CheckPinnedBase(f)
    \/ Prepared(f) \/ EncodeFails(f)
    \/ \E s \in Slots : UploadSlot(f, s)
    \/ UploadEnds(f) \/ bumpSetupSlot(f) \/ waitForUpdatedSetupSlot(f)
    \/ ApplyRouting(f) \/ RecoveryFails(f) \/ uploadStripedSlot(f)

Next ==
    \/ \E c \in Clients : PanelStep(c)
    \/ \E f \in Files : FileStep(f)
    \/ \E t \in txs : ExecuteCommit(t)

Spec == Init /\ [][Next]_vars

-----------------------------------------------------------------------------
(* Every commit transaction a panel sends names a generation that is held, *)
(* slot by slot, by the providers the chain assigns at that moment:        *)
(* "Commit becomes available after upload".                                *)
SignsStaged == \A t \in txs' \ txs : \A s \in Slots : <<assign[s], s, t.root>> \in stored
SignedIsStaged == [][SignsStaged]_vars

(* A commit never drops a file that was committed before, whatever the     *)
(* panels knew when they prepared theirs: litepaper.md, "That prevents     *)
(* concurrent writers, stale gateways, or stale local state from           *)
(* overwriting the wrong generation."                                      *)
Appends == chainRoot' # chainRoot => IsPrefix(chainRoot, chainRoot')
NoOverwrite == [][Appends]_vars

(* Even when files are dropped on a busy panel, a commit of one panel never *)
(* drops a file that another panel committed: whitepaper.md, "concurrent   *)
(* writers cannot silently overwrite each other."                          *)
DropsOwn ==
    \A t \in txs \ txs' : \A f \in Range(chainRoot) \ Range(chainRoot') : Owner[f] = t.hash[1]
NoForeignOverwrite == [][DropsOwn]_vars

(* What a panel takes for committed, and what the browser keeps on disk as *)
(* a committed generation, was accepted by the chain.                      *)
LocalStateIsCommitted ==
    \A c \in Clients :
        /\ panel[c].base \in committed \cup {<< >>}
        /\ {panel[c].lastCm, panel[c].lastPer, disk[c].label, disk[c].mdus}
              \subseteq committed \cup {None}
=============================================================================
