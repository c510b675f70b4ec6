---------------------------- MODULE StorageAudit ----------------------------
(***************************************************************************)
(* The slots of one Mode 2 deal, their make-before-break repair, and the   *)
(* storage audits frozen from them once retrieval v2 is active: the live   *)
(* assignment view, the epoch snapshots, the proofs against them, repair   *)
(* readiness, and what the end of an epoch does to the deal.               *)
(*                                                                         *)
(* Source: x/polystorechain/keeper/storage_audit.go,                       *)
(* storage_audit_proof.go, storage_audit_rewards.go, msg_slot_repair.go,   *)
(* repair_readiness.go, mode2_repair.go, repair_attempts.go, draining.go,  *)
(* rotation.go, provider_collateral.go and msg_server.go.  v2 is active    *)
(* from block 1, in which the deal is created.  Reward payments, evidence  *)
(* and slot health are outside.  So are Mode2MissedEpochs and              *)
(* Mode2RepairReadinessProofs: under v2 both are overwritten from the      *)
(* frozen record immediately before each read.                             *)
(*                                                                         *)
(* A definition marked "Fault:" is a wrong variant of the one that follows *)
(* it; the properties below are known to notice it.                        *)
(***************************************************************************)
EXTENDS Integers, FiniteSets

CONSTANTS
    Slots,          \* slot indices of the deal, 0 .. K + M - 1
    Providers,      \* registered providers, numbered in address order
    NoProvider,     \* the empty pending provider
    FirstProvider,  \* the assignment CreateDeal made
    Contents,       \* contents that may be committed: root, user and witness MDUs
    Rows,           \* leaves of one MDU that a slot holds, 64 / K
    QuotaBps, QuotaMin, QuotaMax,   \* sampling policy of an assignment
    RepairBps,      \* params.RepairReadinessQuotaBps
    EpochLen,       \* StorageAuditEpochLength
    FirstEnd,       \* deal.EndBlock at creation, exclusive
    Extension,      \* blocks one ExtendDeal buys
    Grace,          \* params.DealExtensionGraceBlocks
    EvictAfter,     \* params.EvictAfterMissedEpochs; 0 disables
    BackoffEpochs,  \* params.RepairBackoffEpochs
    MaxDrain,       \* params.MaxDrainBytesPerEpoch, in slots
    MaxRotate,      \* params.RotationBytesPerEpoch, in slots
    RatioBps,       \* params.MaxRepairingBytesRatioBps; 0 disables
    MaxBumps,       \* params.MaxSetupBumpsPerSlot
    Drainable,      \* bound: the providers that may set their draining flag
    Underbonded,    \* bound: the providers whose collateral may fall short
    MaxGen,         \* bound: the last generation of the model
    MaxEnd,         \* bound: the last end block of the model
    MaxHeight       \* bound: the last block of the model

\* A deal before its first commit.
NoContent == [root |-> "none", mdus |-> 0, witness |-> 0]

ASSUME SlotsAssumption ==
    /\ Slots \subseteq Nat /\ IsFiniteSet(Slots)
    /\ Providers \subseteq Nat /\ NoProvider \notin Providers
    /\ FirstProvider \in [Slots -> Providers]
    /\ \A s, t \in Slots : FirstProvider[s] = FirstProvider[t] => s = t
    /\ Drainable \subseteq Providers /\ Underbonded \subseteq Providers

ASSUME ContentsAssumption ==
    /\ Contents \subseteq [root : {c.root : c \in Contents}, mdus : Nat \ {0}, witness : Nat]
    /\ \A c \in Contents : c.root # NoContent.root

ASSUME QuotaAssumption ==
    /\ Rows \in Nat \ {0}
    /\ QuotaBps \in Nat /\ QuotaBps <= 10000
    /\ RepairBps \in Nat /\ RepairBps <= 10000
    /\ QuotaMin \in Nat /\ QuotaMax \in Nat

ASSUME PolicyAssumption ==
    /\ EpochLen \in Nat \ {0, 1}
    /\ FirstEnd \in Nat /\ Extension \in Nat \ {0} /\ Grace \in Nat
    /\ EvictAfter \in Nat /\ BackoffEpochs \in Nat \ {0}
    /\ MaxDrain \in Nat /\ MaxRotate \in Nat /\ RatioBps \in Nat /\ MaxBumps \in Nat

ASSUME BoundsAssumption ==
    MaxGen \in Nat /\ MaxEnd \in Nat /\ FirstEnd <= MaxEnd /\ MaxHeight \in Nat \ {0}

VARIABLES
    height,     \* the block being executed
    ended,      \* EndBlock of this height has run
    draining,   \* providers with the draining flag
    dealEnd,    \* deal.EndBlock
    slot,       \* deal.Mode2Slots
    gen,        \* deal.CurrentGen
    content,    \* deal.ManifestRoot, TotalMdus and WitnessMdus
    ready,      \* Mode2RepairReadiness; 0 is absent
    tried,      \* SetupTriedProvider; SetupBumpNonce is its size
    cooldown,   \* RepairAttemptStates.CooldownUntilEpoch
    view,       \* StorageAuditAssignments
    audits,     \* StorageAudits of each epoch; {} once pruned
    finalized,  \* the StorageAuditEpochs with Finalized set
    seeded,     \* the epochs whose shared anchor captured a seed
    proved      \* history: repair records whose whole list was proved

dealVars == <<dealEnd, slot, gen, content>>
epochVars == <<audits, finalized, seeded>>
auditVars == <<height, ended, draining, dealEnd, slot, gen, content, ready,
               tried, cooldown, view, audits, finalized, seeded, proved>>

\* TotalMdus: MDU 0, the witness and the user MDUs; 0 before the first commit.
TotalMdus(c) == IF c = NoContent THEN 0 ELSE 1 + c.witness + c.mdus

EpochOf(h) == ((h - 1) \div EpochLen) + 1
IsEpochStart(h) == (h - 1) % EpochLen = 0
IsEpochEnd(h) == h % EpochLen = 0
Epochs == 1..EpochOf(MaxHeight)

\* end_block is exclusive.
Live(end) == height < end

\* AuditWindow: the blocks that may answer epoch e for a deal with this end.
EpochStart(e) == (e - 1) * EpochLen + 1
AuditWindow(e, end) ==
    (EpochStart(e) + 1)..(IF e * EpochLen < end THEN e * EpochLen ELSE end - 1)

CeilDiv(a, b) == (a + b - 1) \div b

\* storageAuditQuota: how many positions of the slot's population are sampled.
StorageAuditQuota(c, kind) ==
    LET u == c.mdus * Rows
        asked == CeilDiv(u * QuotaBps, 10000)
        atLeast == IF asked < QuotaMin THEN QuotaMin ELSE asked
        atMost == IF atLeast > QuotaMax THEN QuotaMax ELSE atLeast
        q == IF atMost > u THEN u ELSE atMost
        r == CeilDiv(q * RepairBps, 10000)
    IN IF u = 0 \/ QuotaMax = 0 THEN 0
       ELSE IF kind = "Audit" THEN q
       ELSE IF r = 0 THEN 1 ELSE r

(***************************************************************************)
(* Writing the deal: every handler goes through                            *)
(* setDealWithAssignmentCollateralLocks, which first brings the assignment *)
(* view and the readiness markers in line with the deal to be stored.      *)
(***************************************************************************)
Assigned(s, p, kind, end, g, c) ==
    [slot |-> s, provider |-> p, kind |-> kind, end |-> end, gen |-> g, content |-> c]

\* Fault: the outgoing provider keeps its assignment through a repair.
AssignmentsKeepingOld(end, sl, g, c) ==
    IF c = NoContent \/ ~Live(end) THEN {}
    ELSE {Assigned(s, sl[s].provider, "Audit", end, g, c) : s \in Slots}
         \cup {Assigned(s, sl[s].pending, "Repair", end, g, c) :
                  s \in {x \in Slots : sl[x].status = "REPAIRING" /\ sl[x].target = g}}

\* storageAssignmentsForDeal
Assignments(end, sl, g, c) ==
    IF c = NoContent \/ ~Live(end) THEN {}
    ELSE {Assigned(s, sl[s].provider, "Audit", end, g, c) :
             s \in {x \in Slots : sl[x].status = "ACTIVE"}}
         \cup {Assigned(s, sl[s].pending, "Repair", end, g, c) :
                  s \in {x \in Slots : sl[x].status = "REPAIRING" /\ sl[x].target = g}}

\* Fault: the marker survives a change of content.
SameRepairAnyContent(s, sl, g, c) ==
    slot[s].status = sl[s].status /\ slot[s].pending = sl[s].pending

\* A readiness marker stays usable only for the same repair of the same content.
SameRepair(s, sl, g, c) ==
    /\ slot[s].status = sl[s].status
    /\ slot[s].pending = sl[s].pending
    /\ slot[s].target = sl[s].target
    /\ gen = g /\ content = c

SetDeal(end, sl, g, c) ==
    /\ dealEnd' = end /\ slot' = sl /\ gen' = g /\ content' = c
    /\ view' = Assignments(end, sl, g, c)
    /\ ready' = [s \in Slots |-> IF SameRepair(s, sl, g, c) THEN ready[s] ELSE 0]

(***************************************************************************)
(* The owner's and the providers' transactions.                            *)
(***************************************************************************)
Tx == ~ended

\* Providers that pass the draining screen; the health and collateral screens
\* may still refuse any of them.
Eligible == Providers \ draining

\* A repair that starts now, with p as the replacement to catch up.
Repairing(x, p) == [x EXCEPT !.status = "REPAIRING", !.pending = p, !.target = gen]

StartSlotRepair(s, p) ==
    /\ Tx /\ Live(dealEnd)
    /\ slot[s].status # "REPAIRING"
    /\ p \in Eligible /\ p # slot[s].provider
    /\ SetDeal(dealEnd, [slot EXCEPT ![s] = Repairing(slot[s], p)], gen, content)
    /\ cooldown' = [cooldown EXCEPT ![s] = 0]
    /\ UNCHANGED <<height, ended, draining, tried, epochVars, proved>>

\* Fault: the marker is not compared with the target.
Mode2RepairReadyAny(s) == slot[s].pending # NoProvider

\* mode2RepairReady: the stored value is the proved target plus one.
Mode2RepairReady(s) == ready[s] = slot[s].target + 1

\* A slot in the hands of p.
Serving(p) == [provider |-> p, status |-> "ACTIVE", pending |-> NoProvider, target |-> 0]

\* The generation moves so that the challenges change; repairs of the other
\* slots keep the target they have.
CompleteSlotRepair(s) ==
    /\ Tx /\ Live(dealEnd) /\ gen < MaxGen
    /\ slot[s].status = "REPAIRING"
    /\ Mode2RepairReady(s)
    /\ SetDeal(dealEnd, [slot EXCEPT ![s] = Serving(slot[s].pending)], gen + 1, content)
    /\ UNCHANGED <<height, ended, draining, tried, cooldown, epochVars, proved>>

\* Repairs under way are pointed at a new root's generation.
Retargeted(g) ==
    [s \in Slots |-> IF slot[s].status = "REPAIRING" THEN [slot[s] EXCEPT !.target = g]
                     ELSE slot[s]]

\* Fault: the generation moves on the first commit only.
UpdateDealContentSameGen(c) ==
    /\ Tx /\ Live(dealEnd)
    /\ TotalMdus(c) >= TotalMdus(content) /\ c # content
    /\ content # NoContent => c.witness = content.witness
    /\ IF content = NoContent THEN SetDeal(dealEnd, Retargeted(gen + 1), gen + 1, c)
       ELSE SetDeal(dealEnd, slot, gen, c)
    /\ UNCHANGED <<height, ended, draining, tried, cooldown, epochVars, proved>>

\* Committing what is already committed changes nothing here.
UpdateDealContent(c) ==
    /\ Tx /\ Live(dealEnd)
    /\ TotalMdus(c) >= TotalMdus(content) /\ c # content
    /\ content # NoContent => c.witness = content.witness
    /\ IF c.root = content.root THEN SetDeal(dealEnd, slot, gen, c)
       ELSE gen < MaxGen /\ SetDeal(dealEnd, Retargeted(gen + 1), gen + 1, c)
    /\ UNCHANGED <<height, ended, draining, tried, cooldown, epochVars, proved>>

\* Fault: the new end is stored without refreshing the view.
ExtendDealOnly ==
    /\ Tx /\ height <= dealEnd + Grace
    /\ dealEnd' = (IF height > dealEnd THEN height ELSE dealEnd) + Extension
    /\ dealEnd' <= MaxEnd
    /\ UNCHANGED <<height, ended, draining, slot, gen, content, ready, view, tried,
                   cooldown, epochVars, proved>>

\* An expired deal may be revived within the grace period.
ExtendDeal ==
    /\ Tx /\ height <= dealEnd + Grace
    /\ LET end == (IF height > dealEnd THEN height ELSE dealEnd) + Extension IN
       end <= MaxEnd /\ SetDeal(end, slot, gen, content)
    /\ UNCHANGED <<height, ended, draining, tried, cooldown, epochVars, proved>>

\* The deal is stored again with nothing changed but its money: AddCredit, opens
\* and refunds of sessions, the latter also after it has expired.
StoreDealMoney ==
    /\ Tx
    /\ SetDeal(dealEnd, slot, gen, content)
    /\ UNCHANGED <<height, ended, draining, tried, cooldown, epochVars, proved>>

\* Fault: a provider that did not answer the setup may be tried again.
BumpAnyone(s, p) ==
    /\ Tx /\ Live(dealEnd)
    /\ gen = 0 /\ content = NoContent
    /\ slot[s].status = "ACTIVE"
    /\ p \in Eligible /\ \A t \in Slots : p # slot[t].provider /\ p # slot[t].pending
    /\ tried' = [tried EXCEPT ![s] = @ \cup {slot[s].provider}]
    /\ SetDeal(dealEnd, [slot EXCEPT ![s] = Serving(p)], gen, content)
    /\ UNCHANGED <<height, ended, draining, cooldown, epochVars, proved>>

\* Before the first commit a provider may be swapped for one outside the deal
\* that has not held this slot.
BumpDealSetupSlot(s, p) ==
    /\ Tx /\ Live(dealEnd)
    /\ gen = 0 /\ content = NoContent
    /\ slot[s].status = "ACTIVE"
    /\ Cardinality(tried[s]) < MaxBumps
    /\ p \in Eligible /\ \A t \in Slots : p # slot[t].provider /\ p # slot[t].pending
    /\ p \notin tried[s]
    /\ tried' = [tried EXCEPT ![s] = @ \cup {slot[s].provider}]
    /\ SetDeal(dealEnd, [slot EXCEPT ![s] = Serving(p)], gen, content)
    /\ UNCHANGED <<height, ended, draining, cooldown, epochVars, proved>>

SetProviderDraining(p, flag) ==
    /\ Tx /\ (p \in draining) # flag
    /\ draining' = IF flag THEN draining \cup {p} ELSE draining \ {p}
    /\ UNCHANGED <<height, ended, dealVars, ready, tried, cooldown, view, epochVars, proved>>

(***************************************************************************)
(* A system proof for one sampled position of a frozen record.             *)
(***************************************************************************)
Complete(a) == Cardinality(a.done) = a.need

\* completeFrozenRepairReadiness: the record is about the present repair.
StillPending(a) ==
    /\ gen = a.gen /\ content = a.content
    /\ slot[a.slot].status = "REPAIRING"
    /\ slot[a.slot].pending = a.provider
    /\ slot[a.slot].target = a.gen

ProveFrozenStorageAudit(e, a, i) ==
    /\ Tx
    /\ e \notin finalized
    /\ height \in AuditWindow(e, a.end) /\ e \in seeded
    /\ i \notin a.done
    /\ LET b == [a EXCEPT !.done = @ \cup {i}]
           caughtUp == b.kind = "Repair" /\ Complete(b)
       IN /\ audits' = [audits EXCEPT ![e] = (@ \ {a}) \cup {b}]
          /\ ready' = IF caughtUp /\ StillPending(b)
                      THEN [ready EXCEPT ![b.slot] = slot[b.slot].target + 1] ELSE ready
          /\ proved' = IF caughtUp
                       THEN proved \cup {<<b.slot, b.provider, b.gen, b.content>>} ELSE proved
    /\ UNCHANGED <<height, ended, draining, dealVars, tried, cooldown, view, finalized, seeded>>

(***************************************************************************)
(* The end of an epoch: finalizeStorageAuditEpoch.                         *)
(***************************************************************************)
Lapsed(a) == a.kind = "Audit" /\ ~Complete(a)

\* The same provider's count for the same slot in the epoch before.
PreviousMisses(e, a) ==
    LET old == {b \in audits[e - 1] : b.kind = "Audit" /\ b.slot = a.slot
                                      /\ b.provider = a.provider} IN
    IF e = 1 \/ old = {} THEN 0 ELSE (CHOOSE b \in old : TRUE).missed

\* Fault: a missing seed counts as a missing answer.
FinalRecordAlways(e, a) == IF Lapsed(a) THEN [a EXCEPT !.missed = PreviousMisses(e, a) + 1] ELSE a

\* A record is usable, and its provider answerable, only with a captured seed.
FinalRecord(e, a) ==
    IF e \in seeded /\ Lapsed(a) THEN [a EXCEPT !.missed = PreviousMisses(e, a) + 1] ELSE a

CoolingDown(s, e) == cooldown[s] # 0 /\ e <= cooldown[s]

\* Slots a pass may put under repair.
Movable(e) == {s \in Slots : Live(dealEnd) /\ slot[s].status = "ACTIVE" /\ ~CoolingDown(s, e)}

\* applyMode2QuotaShortfall: only the provider that still holds the slot.
QuotaShortfall(e) ==
    {s \in Movable(e) : EvictAfter > 0 /\ \E a \in audits[e] :
        /\ a.slot = s /\ a.provider = slot[s].provider
        /\ FinalRecord(e, a).missed >= EvictAfter}

\* Fault: the budget admits one slot too many.
RoomOverBudget(moved, n, budget) == n <= budget

\* totalMode2ActiveAndRepairingSlotBytes, in slots: all of a deal are equally large.
ActiveSlots == Cardinality({s \in Slots : slot[s].status = "ACTIVE"})

\* The next of a pass's slots is considered: n are scheduled by this pass and
\* "moved" by the passes before it.
Room(moved, n, budget) ==
    LET active == ActiveSlots - moved - n
        repairing == Cardinality(Slots) - active
    IN /\ n + 1 <= budget
       /\ RatioBps = 0 \/ active = 0 \/ repairing + 1 <= CeilDiv(active * RatioBps, 10000)

\* A pass walks "due" in order, before[s] being walked before s, and stops for
\* good at the first slot without room; a slot that finds no replacement takes
\* none.
Considered(due, before, pick, moved, budget) ==
    {s \in due : Room(moved, Cardinality({t \in due : t \in before[s] /\ pick[t] # NoProvider}), budget)}

ByProvider ==
    [s \in Slots |-> {t \in Slots : \/ slot[t].provider < slot[s].provider
                                    \/ slot[t].provider = slot[s].provider /\ t < s}]
BySlot == [s \in Slots |-> {t \in Slots : t < s}]

Found(pick, S) == {s \in S : pick[s] # NoProvider}

\* scheduleUnderbondedRepairs: the first slots, as many as their provider has
\* beyond its collateral.
UnderbondedSlots(due, pick, excess) ==
    {s \in due : LET p == slot[s].provider IN
        /\ p \in Underbonded
        /\ Cardinality({t \in due : t < s /\ slot[t].provider = p /\ pick[t] # NoProvider}) < excess[p]}

\* EndBlock of the last block of epoch e.  pick is what
\* selectMode2ReplacementProvider answers for each slot: an eligible provider,
\* one already in the deal when no other passes the screens.  excess counts the
\* assignments a provider has beyond its collateral.
FinalizeStorageAuditEpoch(e, pick, excess) ==
    LET quota == QuotaShortfall(e)
        underbonded == UnderbondedSlots(Movable(e) \ quota, pick, excess)
        left == Movable(e) \ (quota \cup underbonded)
        moved1 == Found(pick, quota \cup underbonded)
        drain == IF content = NoContent THEN {}
                 ELSE Considered({s \in left : slot[s].provider \in draining}, ByProvider,
                                 pick, Cardinality(moved1), MaxDrain)
        moved2 == moved1 \cup Found(pick, drain)
        rotate == IF content = NoContent THEN {}
                  ELSE Considered({s \in left : slot[s].provider \notin draining}, BySlot,
                                  pick, Cardinality(moved2), MaxRotate)
        attempted == quota \cup underbonded \cup drain \cup rotate
        moved == Found(pick, attempted)
    IN /\ ~ended /\ IsEpochEnd(height) /\ e = EpochOf(height)
       /\ \A s \in Slots : pick[s] # slot[s].provider
       /\ ended' = TRUE
       /\ audits' = [audits EXCEPT ![e] = {FinalRecord(e, a) : a \in @}]
       /\ finalized' = finalized \cup {e}
       /\ cooldown' = [s \in Slots |-> IF s \in moved THEN 0
                                       ELSE IF s \in attempted THEN e + BackoffEpochs ELSE cooldown[s]]
       /\ IF moved = {} THEN UNCHANGED <<dealVars, view, ready>>
          ELSE SetDeal(dealEnd, [s \in Slots |-> IF s \in moved THEN Repairing(slot[s], pick[s])
                                                 ELSE slot[s]], gen, content)
       /\ UNCHANGED <<height, draining, tried, seeded, proved>>

(***************************************************************************)
(* BeginBlock: processStorageAudits, then the capture of the anchor.       *)
(***************************************************************************)
\* The record of an assignment for epoch e.
Frozen(v, e) ==
    [slot |-> v.slot, provider |-> v.provider, kind |-> v.kind, end |-> v.end,
     gen |-> v.gen, content |-> v.content,
     need |-> StorageAuditQuota(v.content, v.kind), done |-> {}, missed |-> 0]

BeginBlock(seed) ==
    LET h == height + 1
        e == EpochOf(h)
        current == {v \in view : v.end > h}
        due == {v \in current : AuditWindow(e, v.end) # {} /\ StorageAuditQuota(v.content, v.kind) > 0}
    IN /\ h <= MaxHeight /\ (IsEpochEnd(height) => ended)
       /\ height' = h /\ ended' = FALSE
       /\ IF IsEpochStart(h)
          THEN /\ audits' = [x \in Epochs |-> IF x = e THEN {Frozen(v, e) : v \in due}
                                              ELSE IF x = e - 2 THEN {} ELSE audits[x]]
               /\ view' = current
               /\ finalized' = finalized \ {e - 2}
               /\ seeded' = (seeded \ {e - 2}) \cup (IF seed /\ due # {} THEN {e} ELSE {})
          ELSE UNCHANGED <<audits, view, finalized, seeded>>
       /\ UNCHANGED <<draining, dealVars, ready, tried, cooldown, proved>>

(***************************************************************************)
(* The specification.                                                      *)
(***************************************************************************)
\* Block 1 has begun: epoch 1 is frozen empty and CreateDeal has been executed.
AuditInit ==
    /\ height = 1 /\ ended = FALSE
    /\ draining = {}
    /\ dealEnd = FirstEnd
    /\ slot = [s \in Slots |-> Serving(FirstProvider[s])]
    /\ gen = 0 /\ content = NoContent
    /\ ready = [s \in Slots |-> 0]
    /\ tried = [s \in Slots |-> {}]
    /\ cooldown = [s \in Slots |-> 0]
    /\ view = {}
    /\ audits = [e \in Epochs |-> {}]
    /\ finalized = {} /\ seeded = {}
    /\ proved = {}

Transaction ==
    \/ \E s \in Slots, p \in Providers : StartSlotRepair(s, p)
    \/ \E s \in Slots : CompleteSlotRepair(s)
    \/ \E c \in Contents : UpdateDealContent(c)
    \/ ExtendDeal
    \/ StoreDealMoney
    \/ \E s \in Slots, p \in Providers : BumpDealSetupSlot(s, p)
    \/ \E p \in Drainable, flag \in BOOLEAN : SetProviderDraining(p, flag)
    \/ \E e \in Epochs : \E a \in audits[e] : \E i \in 0..(a.need - 1) :
          ProveFrozenStorageAudit(e, a, i)

Block ==
    \/ \E pick \in [Slots -> Eligible \cup {NoProvider}],
          excess \in [Underbonded -> 0..Cardinality(Slots)] :
          FinalizeStorageAuditEpoch(EpochOf(height), pick, excess)
    \/ \E seed \in BOOLEAN : BeginBlock(seed)

AuditNext == Transaction \/ Block

AuditSpec == AuditInit /\ [][AuditNext]_auditVars

(***************************************************************************)
(* Properties.                                                             *)
(***************************************************************************)
SlotStates == [provider : Providers, status : {"ACTIVE", "REPAIRING"},
               pending : Providers \cup {NoProvider}, target : 0..MaxGen]
ViewStates == [slot : Slots, provider : Providers, kind : {"Audit", "Repair"}, end : 0..MaxEnd,
              gen : 0..MaxGen, content : Contents]

RecordStates == [slot : Slots, provider : Providers, kind : {"Audit", "Repair"}, end : 0..MaxEnd,
                 gen : 0..MaxGen, content : Contents, need : Nat, done : SUBSET Nat, missed : Nat]

\* Every collection keeps its shape; a slot has a pending provider exactly while
\* it is under repair (storageAssignmentsForDeal fails otherwise, in EndBlock too).
AuditTypeOK ==
    /\ height \in 1..MaxHeight /\ ended \in BOOLEAN
    /\ draining \subseteq Drainable
    /\ dealEnd \in 0..MaxEnd /\ gen \in 0..MaxGen
    /\ slot \in [Slots -> SlotStates]
    /\ \A s \in Slots : (slot[s].status = "ACTIVE") <=> (slot[s].pending = NoProvider)
    /\ content \in Contents \cup {NoContent}
    /\ ready \in [Slots -> 0..(MaxGen + 1)]
    /\ tried \in [Slots -> SUBSET Providers]
    /\ cooldown \in [Slots -> Nat]
    /\ view \subseteq ViewStates
    /\ audits \in [Epochs -> SUBSET RecordStates]
    /\ finalized \subseteq Epochs /\ seeded \subseteq Epochs

\* While the deal lives, the assignment view is exactly what its slots and its
\* content call for, whichever handler wrote the deal last
\* (syncStorageAuditAssignments runs under every writer).
ViewMatchesDeal == Live(dealEnd) => view = Assignments(dealEnd, slot, gen, content)

\* A marker that CompleteSlotRepair would accept says that the pending provider
\* itself proved, in one epoch, its whole list for the content the deal has now:
\* no change of candidate, content, size or generation in between, no expiry and
\* revival, lets an old proof count.
ReadyMeansProved ==
    \A s \in Slots : slot[s].status = "REPAIRING" /\ Mode2RepairReady(s)
        => <<s, slot[s].pending, gen, content>> \in proved

\* Once there is content a slot changes hands only by a promotion, and the
\* promoted provider has proved the deal's content of that moment.
PromotedProved ==
    [][\A s \in Slots : content # NoContent /\ slot'[s].provider # slot[s].provider
         => <<s, slot'[s].provider, gen, content>> \in proved]_auditVars

\* During setup a slot never goes back to a provider it has left, it changes
\* hands at most MaxBumps times, and no provider gets two slots, whatever
\* repairs, draining and expiry do in between.
SetupMakesProgress ==
    content = NoContent => \A s \in Slots :
        /\ slot[s].provider \notin tried[s] /\ Cardinality(tried[s]) <= MaxBumps
        /\ \A t \in Slots : slot[t].provider = slot[s].provider => s = t

\* The record of epoch e shows that p, holding slot s, did not answer although
\* it could.
Missed(e, s, p) ==
    e \in seeded /\ \E a \in audits[e] :
        a.slot = s /\ a.provider = p /\ a.kind = "Audit" /\ Cardinality(a.done) < a.need

\* Without draining, rotation or missing collateral, EndBlock takes a slot away
\* only from a provider that itself missed this epoch and the ones before it,
\* with a seed each time (EvictAfter is at most 2 here: two epochs are retained).
EvictionEarned ==
    [][\A s \in Slots :
         ended' # ended /\ slot[s].status = "ACTIVE" /\ slot'[s].status = "REPAIRING"
           => \A e \in (EpochOf(height) - EvictAfter + 1)..EpochOf(height) :
                 e >= 1 /\ Missed(e, s, slot[s].provider)]_auditVars

\* EndBlock never enlarges the assignment view.  setDeal fails above 64
\* assignments of the whole chain, and in EndBlock a failure stops the chain.
EndBlockNeverGrowsView ==
    [][ended' /\ ~ended => Cardinality(view') <= Cardinality(view)]_auditVars

\* The voluntary passes keep to their budgets and to the cap on slots under
\* repair: whatever quota misses and missing collateral take first, draining and
\* rotation only use what is left.
PassesKeepBudgets ==
    [][LET moved == {s \in Slots : slot[s].status = "ACTIVE" /\ slot'[s].status = "REPAIRING"}
           spare == {s \in moved : slot[s].provider \notin Underbonded}
       IN (ended' /\ ~ended /\ EvictAfter = 0) =>
            /\ Cardinality({s \in spare : slot[s].provider \in draining}) <= MaxDrain
            /\ Cardinality({s \in spare : slot[s].provider \notin draining}) <= MaxRotate
            /\ (spare # {} /\ RatioBps # 0) =>
                  Cardinality({s \in Slots : slot'[s].status = "REPAIRING"})
                    <= CeilDiv(ActiveSlots * RatioBps, 10000)]_auditVars

\* Every record can be answered: it samples at least one position and no more
\* than the slot has (StorageAuditContext fails otherwise, in BeginBlock), and
\* its window is not empty.
RecordsAnswerable ==
    \A e \in Epochs : \A a \in audits[e] :
        a.need \in 1..(a.content.mdus * Rows) /\ AuditWindow(e, a.end) # {}

\* A generation names one root: frozen records and live assignments of one
\* generation never disagree, so a provider asked for (deal, generation) knows
\* what to keep.
GenerationNamesRoot ==
    \A v, w \in view \cup UNION {audits[e] : e \in Epochs} :
        v.gen = w.gen => v.content.root = w.content.root

\* What the repository says of a repair: the pending provider catches up to the
\* current generation and the slot becomes ACTIVE.  It can only do so while it
\* has a repair assignment.
RepairIsObliged ==
    \A s \in Slots : slot[s].status = "REPAIRING" /\ Live(dealEnd) /\ content # NoContent
        => \E v \in view : v.slot = s /\ v.kind = "Repair"

=============================================================================
