------------------------- MODULE StorageAudit_Proofs -------------------------
(***************************************************************************)
(* Theorems about the slots of a deal and their storage audits, for every  *)
(* number of slots, providers, contents and every parameter; then about    *)
(* the frozen records: what they ask, what their generation means, what an *)
(* eviction rests on; and about the assignments the end of an epoch leaves *)
(* behind.                                                                 *)
(***************************************************************************)
EXTENDS StorageAudit, TLAPS, FiniteSetTheorems, FunctionTheorems

(***************************************************************************)
(* The sampling quota.                                                     *)
(***************************************************************************)

\* A share of at most 10000 basis points, rounded up, is at most the whole.
LEMMA ShareBounded ==
    ASSUME NEW q \in Nat, NEW b \in Nat, b <= 10000
    PROVE  CeilDiv(q * b, 10000) \in 0..q
<1> DEFINE a == q * b
<1>1. a \in Nat /\ a <= q * 10000 OBVIOUS
<1> HIDE DEF a
<1>2. (a + 10000 - 1) \div 10000 \in 0..q BY <1>1
<1>3. QED BY <1>2 DEF CeilDiv, a

\* storageAuditQuota never asks for more positions than the slot has.
LEMMA QuotaBounded ==
    ASSUME NEW c \in Contents, NEW kind \in {"Audit", "Repair"}
    PROVE  StorageAuditQuota(c, kind) \in 0..(c.mdus * Rows)
<1> DEFINE u == c.mdus * Rows
<1>1. c.mdus \in Nat /\ Rows \in Nat BY ContentsAssumption, QuotaAssumption
<1>2. u \in Nat BY <1>1
<1> HIDE DEF u
<1> DEFINE asked == CeilDiv(u * QuotaBps, 10000)
<1>4. asked \in 0..u BY <1>2, QuotaAssumption, ShareBounded
<1> HIDE DEF asked
<1> DEFINE atLeast == IF asked < QuotaMin THEN QuotaMin ELSE asked
           atMost == IF atLeast > QuotaMax THEN QuotaMax ELSE atLeast
           q == IF atMost > u THEN u ELSE atMost
<1>5. q \in 0..u BY <1>2, <1>4, QuotaAssumption
<1> HIDE DEF q
<1> DEFINE r == CeilDiv(q * RepairBps, 10000)
<1>6. r \in 0..q BY <1>2, <1>5, QuotaAssumption, ShareBounded
<1> HIDE DEF r
<1>7. StorageAuditQuota(c, kind) = IF u = 0 \/ QuotaMax = 0 THEN 0
                                   ELSE IF kind = "Audit" THEN q ELSE IF r = 0 THEN 1 ELSE r
  BY DEF StorageAuditQuota, u, asked, q, r
<1>8. StorageAuditQuota(c, kind) \in 0..u BY <1>2, <1>5, <1>6, <1>7
<1>9. QED BY <1>8 DEF u

(***************************************************************************)
(* Types.                                                                  *)
(***************************************************************************)

\* A slot map the deal may store.
SlotsOK(sl) ==
    /\ sl \in [Slots -> SlotStates]
    /\ \A s \in Slots : (sl[s].status = "ACTIVE") <=> (sl[s].pending = NoProvider)

\* The assignments of a well-formed deal are well formed.
LEMMA AssignmentsTyped ==
    ASSUME NEW end \in 0..MaxEnd, NEW sl, SlotsOK(sl), NEW g \in 0..MaxGen,
           NEW c \in Contents \cup {NoContent}
    PROVE  Assignments(end, sl, g, c) \subseteq ViewStates
<1>1. \A s \in Slots : sl[s].status = "REPAIRING" => sl[s].pending \in Providers
  BY DEF SlotsOK, SlotStates
<1>2. \A s \in Slots : sl[s].provider \in Providers BY DEF SlotsOK, SlotStates
<1>3. QED BY <1>1, <1>2 DEF Assignments, Assigned, ViewStates

\* Writing a well-formed deal keeps every collection it touches well formed.
LEMMA SetDealTyped ==
    ASSUME AuditTypeOK, NEW end \in 0..MaxEnd, NEW sl, SlotsOK(sl), NEW g \in 0..MaxGen,
           NEW c \in Contents \cup {NoContent}, SetDeal(end, sl, g, c)
    PROVE  /\ dealEnd' \in 0..MaxEnd /\ gen' \in 0..MaxGen
           /\ SlotsOK(slot')
           /\ content' \in Contents \cup {NoContent}
           /\ ready' \in [Slots -> 0..(MaxGen + 1)]
           /\ view' \subseteq ViewStates
<1>1. view' \subseteq ViewStates BY AssignmentsTyped DEF SetDeal
<1>2. ready' \in [Slots -> 0..(MaxGen + 1)]
  BY BoundsAssumption DEF SetDeal, AuditTypeOK
<1>3. QED BY <1>1, <1>2 DEF SetDeal

\* A slot in the hands of a provider is well formed.
LEMMA ServingTyped ==
    ASSUME NEW p \in Providers
    PROVE  /\ Serving(p) \in SlotStates
           /\ Serving(p).status = "ACTIVE"
           /\ Serving(p).pending = NoProvider
BY BoundsAssumption DEF Serving, SlotStates

\* A repair of slot s by p makes a well-formed slot.
LEMMA RepairingTyped ==
    ASSUME AuditTypeOK, NEW s \in Slots, NEW p \in Providers
    PROVE  /\ Repairing(slot[s], p) \in SlotStates
           /\ Repairing(slot[s], p).status = "REPAIRING"
           /\ Repairing(slot[s], p).pending = p
BY DEF AuditTypeOK, SlotStates, Repairing

\* Every block of the model lies in one of its epochs.
LEMMA EpochsCover ==
    ASSUME NEW h \in 1..MaxHeight
    PROVE  EpochOf(h) \in Epochs
<1> DEFINE a == (h - 1) \div EpochLen
           b == (MaxHeight - 1) \div EpochLen
<1>1. EpochLen \in Nat \ {0} /\ MaxHeight \in Nat /\ h \in Nat /\ 1 <= h /\ h <= MaxHeight
  BY PolicyAssumption, BoundsAssumption
<1>2. a \in Nat /\ EpochLen * a <= h - 1 BY <1>1
<1>3. b \in Nat /\ MaxHeight - 1 < EpochLen * b + EpochLen BY <1>1
<1>4. a < b + 1
  <2> HIDE DEF a, b
  <2>1. EpochLen * a < EpochLen * (b + 1) BY <1>1, <1>2, <1>3
  <2>2. QED BY <2>1, <1>1, <1>2, <1>3
<1>5. QED BY <1>2, <1>3, <1>4 DEF EpochOf, Epochs

\* The state before the first transaction has the right shape.
LEMMA InitTyped == ASSUME AuditInit PROVE AuditTypeOK
<1>0. ended \in BOOLEAN BY Zenon DEF AuditInit
<1>1. /\ height \in 1..MaxHeight /\ dealEnd \in 0..MaxEnd /\ gen \in 0..MaxGen
      /\ ready \in [Slots -> 0..(MaxGen + 1)] /\ cooldown \in [Slots -> Nat]
  BY BoundsAssumption, PolicyAssumption DEF AuditInit
<1>2. /\ slot \in [Slots -> SlotStates]
      /\ \A s \in Slots : slot[s].status = "ACTIVE" /\ slot[s].pending = NoProvider
  BY SlotsAssumption, ServingTyped DEF AuditInit
<1>3. /\ draining \subseteq Drainable /\ content \in Contents \cup {NoContent}
      /\ tried \in [Slots -> SUBSET Providers] /\ view \subseteq ViewStates
      /\ audits \in [Epochs -> SUBSET RecordStates]
      /\ finalized \subseteq Epochs /\ seeded \subseteq Epochs
  BY DEF AuditInit
<1>4. QED BY <1>0, <1>1, <1>2, <1>3 DEF AuditTypeOK

\* StartSlotRepair keeps every shape: the slot it puts under repair has a replacement.
LEMMA StartTyped ==
    ASSUME AuditTypeOK, NEW s \in Slots, NEW p \in Providers, StartSlotRepair(s, p)
    PROVE  AuditTypeOK'
<1> DEFINE sl == [slot EXCEPT ![s] = Repairing(slot[s], p)]
<1>1. SlotsOK(sl) BY RepairingTyped, SlotsAssumption DEF SlotsOK, AuditTypeOK
<1>2. SetDeal(dealEnd, sl, gen, content) BY DEF StartSlotRepair
<1>3. cooldown' \in [Slots -> Nat] BY DEF StartSlotRepair, AuditTypeOK
<1> HIDE DEF sl
<1>4. QED BY <1>1, <1>2, <1>3, SetDealTyped
      DEF StartSlotRepair, AuditTypeOK, SlotsOK, epochVars

\* CompleteSlotRepair keeps every shape: the promoted provider was pending, so it is one.
LEMMA CompleteTyped ==
    ASSUME AuditTypeOK, NEW s \in Slots, CompleteSlotRepair(s)
    PROVE  AuditTypeOK'
<1> DEFINE sl == [slot EXCEPT ![s] = Serving(slot[s].pending)]
<1>1. slot[s].pending \in Providers BY DEF CompleteSlotRepair, AuditTypeOK, SlotStates
<1>3. SlotsOK(sl) BY <1>1, ServingTyped DEF SlotsOK, AuditTypeOK
<1>4. SetDeal(dealEnd, sl, gen + 1, content) BY DEF CompleteSlotRepair
<1>5. gen + 1 \in 0..MaxGen BY BoundsAssumption DEF CompleteSlotRepair, AuditTypeOK
<1> HIDE DEF sl
<1>6. QED BY <1>3, <1>4, <1>5, SetDealTyped
      DEF CompleteSlotRepair, AuditTypeOK, SlotsOK, epochVars

\* UpdateDealContent keeps every shape, with the repairs retargeted or not.
LEMMA UpdateTyped ==
    ASSUME AuditTypeOK, NEW c \in Contents, UpdateDealContent(c)
    PROVE  AuditTypeOK'
<1>1. SlotsOK(slot) BY DEF SlotsOK, AuditTypeOK
<1>2. CASE SetDeal(dealEnd, slot, gen, c)
  BY <1>1, <1>2, SetDealTyped DEF UpdateDealContent, AuditTypeOK, SlotsOK, epochVars
<1>3. CASE gen < MaxGen /\ SetDeal(dealEnd, Retargeted(gen + 1), gen + 1, c)
  <2>1. gen + 1 \in 0..MaxGen BY <1>3, BoundsAssumption DEF AuditTypeOK
  <2>2. SlotsOK(Retargeted(gen + 1)) BY <1>1, <2>1 DEF SlotsOK, SlotStates, Retargeted
  <2>3. QED BY <1>3, <2>1, <2>2, SetDealTyped DEF UpdateDealContent, AuditTypeOK, SlotsOK, epochVars
<1>4. QED BY <1>2, <1>3 DEF UpdateDealContent

\* ExtendDeal keeps every shape.
LEMMA ExtendTyped == ASSUME AuditTypeOK, ExtendDeal PROVE AuditTypeOK'
<1> DEFINE end == (IF height > dealEnd THEN height ELSE dealEnd) + Extension
<1>1. SlotsOK(slot) BY DEF SlotsOK, AuditTypeOK
<1>2. end \in 0..MaxEnd BY PolicyAssumption, BoundsAssumption DEF ExtendDeal, AuditTypeOK
<1>3. SetDeal(end, slot, gen, content) BY DEF ExtendDeal
<1> HIDE DEF end
<1>4. QED BY <1>1, <1>2, <1>3, SetDealTyped DEF ExtendDeal, AuditTypeOK, SlotsOK, epochVars

\* A write of the deal that changes only its money keeps every shape.
LEMMA CreditTyped == ASSUME AuditTypeOK, StoreDealMoney PROVE AuditTypeOK'
<1>1. SlotsOK(slot) BY DEF SlotsOK, AuditTypeOK
<1>2. QED BY <1>1, SetDealTyped DEF StoreDealMoney, AuditTypeOK, SlotsOK, epochVars

\* BumpDealSetupSlot keeps every shape.
LEMMA BumpTyped ==
    ASSUME AuditTypeOK, NEW s \in Slots, NEW p \in Providers, BumpDealSetupSlot(s, p)
    PROVE  AuditTypeOK'
<1> DEFINE sl == [slot EXCEPT ![s] = Serving(p)]
<1>1. SlotsOK(sl) BY ServingTyped DEF SlotsOK, AuditTypeOK
<1>2. SetDeal(dealEnd, sl, gen, content) BY DEF BumpDealSetupSlot
<1>3. tried' \in [Slots -> SUBSET Providers] BY DEF BumpDealSetupSlot, AuditTypeOK, SlotStates
<1> HIDE DEF sl
<1>4. QED BY <1>1, <1>2, <1>3, SetDealTyped
      DEF BumpDealSetupSlot, AuditTypeOK, SlotsOK, epochVars

\* SetProviderDraining keeps every shape.
LEMMA DrainingTyped ==
    ASSUME AuditTypeOK, NEW p \in Drainable, NEW flag \in BOOLEAN, SetProviderDraining(p, flag)
    PROVE  AuditTypeOK'
BY DEF SetProviderDraining, AuditTypeOK, dealVars, epochVars

\* A system proof keeps every shape: a record only grows, a marker names a generation.
LEMMA ProveTyped ==
    ASSUME AuditTypeOK, NEW e \in Epochs, NEW a \in audits[e], NEW i \in 0..(a.need - 1),
           ProveFrozenStorageAudit(e, a, i)
    PROVE  AuditTypeOK'
<1> DEFINE b == [a EXCEPT !.done = @ \cup {i}]
<1>1. a \in RecordStates /\ i \in Nat BY DEF AuditTypeOK, RecordStates
<1>2. b \in RecordStates BY <1>1 DEF RecordStates
<1>3. audits' = [audits EXCEPT ![e] = (@ \ {a}) \cup {b}] BY DEF ProveFrozenStorageAudit
<1>4. audits' \in [Epochs -> SUBSET RecordStates] BY <1>2, <1>3 DEF AuditTypeOK
<1>5. b.slot \in Slots BY <1>2 DEF RecordStates
<1>6. ready' = ready \/ ready' = [ready EXCEPT ![b.slot] = slot[b.slot].target + 1]
  BY DEF ProveFrozenStorageAudit
<1>7. slot[b.slot].target + 1 \in 0..(MaxGen + 1)
  BY <1>5, BoundsAssumption DEF AuditTypeOK, SlotStates
<1> HIDE DEF b
<1>8. ready' \in [Slots -> 0..(MaxGen + 1)] BY <1>5, <1>6, <1>7 DEF AuditTypeOK
<1>9. QED BY <1>4, <1>8 DEF ProveFrozenStorageAudit, AuditTypeOK, dealVars

\* The end of an epoch: records keep their shape, and what it puts under repair
\* has a replacement.
LEMMA FinalRecordTyped ==
    ASSUME AuditTypeOK, NEW e \in Epochs, NEW a \in RecordStates
    PROVE  FinalRecord(e, a) \in RecordStates
<1>1. PreviousMisses(e, a) \in Nat
  <2> DEFINE old == {b \in audits[e - 1] : b.kind = "Audit" /\ b.slot = a.slot
                                          /\ b.provider = a.provider}
  <2>1. CASE e = 1 \/ old = {} BY <2>1 DEF PreviousMisses
  <2>2. CASE e # 1 /\ old # {}
    <3>1. e - 1 \in Epochs
      <4>1. EpochOf(MaxHeight) \in Int
        BY EpochsCover, BoundsAssumption DEF Epochs
      <4>2. QED BY <2>2, <4>1 DEF Epochs
    <3>2. (CHOOSE b \in old : TRUE) \in old
      <4>1. \E b \in old : TRUE BY <2>2
      <4> HIDE DEF old
      <4>2. QED BY <4>1
    <3>3. (CHOOSE b \in old : TRUE) \in RecordStates BY <3>1, <3>2 DEF AuditTypeOK
    <3>4. PreviousMisses(e, a) = (CHOOSE b \in old : TRUE).missed BY <2>2 DEF PreviousMisses
    <3>5. QED BY <3>3, <3>4 DEF RecordStates
  <2>3. QED BY <2>1, <2>2
<1>2. QED BY <1>1 DEF FinalRecord, RecordStates

\* finalizeStorageAuditEpoch stores the deal unchanged or with some ACTIVE
\* slots, Movable ones with a replacement picked, put under repair.
LEMMA FinalizeMoves ==
    ASSUME NEW pick, NEW excess, NEW e, FinalizeStorageAuditEpoch(e, pick, excess)
    PROVE  /\ \E moved \in SUBSET {s \in Movable(e) : pick[s] # NoProvider} :
              IF moved = {} THEN UNCHANGED <<dealVars, view, ready>>
              ELSE SetDeal(dealEnd, [s \in Slots |-> IF s \in moved THEN Repairing(slot[s], pick[s])
                                                     ELSE slot[s]], gen, content)
           /\ \E moved, attempted :
              cooldown' = [s \in Slots |-> IF s \in moved THEN 0
                                           ELSE IF s \in attempted THEN e + BackoffEpochs ELSE cooldown[s]]
<1> DEFINE quota == QuotaShortfall(e)
           underbonded == UnderbondedSlots(Movable(e) \ quota, pick, excess)
           left == Movable(e) \ (quota \cup underbonded)
           moved1 == Found(pick, quota \cup underbonded)
           drain == IF content = NoContent THEN {}
                    ELSE Considered({s \in left : slot[s].provider \in draining}, ByProvider,
                                    pick, Cardinality(moved1), MaxDrain)
           moved2 == moved1 \cup Found(pick, drain)
           rotate == IF content = NoContent THEN {}
                     ELSE Considered({s \in left : slot[s].provider \notin draining}, BySlot,
                                     pick, Cardinality(moved2), MaxRotate)
           attempted == quota \cup underbonded \cup drain \cup rotate
           moved == Found(pick, attempted)
<1>1. quota \subseteq Movable(e) BY DEF QuotaShortfall
<1>2. underbonded \subseteq Movable(e) BY DEF UnderbondedSlots
<1>3. drain \subseteq Movable(e) BY DEF Considered
<1>4. rotate \subseteq Movable(e) BY DEF Considered
<1>5. IF moved = {} THEN UNCHANGED <<dealVars, view, ready>>
      ELSE SetDeal(dealEnd, [s \in Slots |-> IF s \in moved THEN Repairing(slot[s], pick[s])
                                             ELSE slot[s]], gen, content)
  BY Zenon DEF FinalizeStorageAuditEpoch
<1>5a. cooldown' = [s \in Slots |-> IF s \in moved THEN 0
                                    ELSE IF s \in attempted THEN e + BackoffEpochs ELSE cooldown[s]]
  BY Zenon DEF FinalizeStorageAuditEpoch
<1> HIDE DEF quota, underbonded, drain, rotate
<1>6. moved \in SUBSET {s \in Movable(e) : pick[s] # NoProvider}
  BY <1>1, <1>2, <1>3, <1>4 DEF Found
<1> HIDE DEF moved, attempted
<1>7. QED BY <1>5, <1>5a, <1>6

\* The end of an epoch keeps every shape, whatever the passes put under repair.
LEMMA FinalizeTyped ==
    ASSUME AuditTypeOK, NEW pick \in [Slots -> Eligible \cup {NoProvider}], NEW excess,
           FinalizeStorageAuditEpoch(EpochOf(height), pick, excess)
    PROVE  AuditTypeOK'
<1> DEFINE e == EpochOf(height)
<1>0. FinalizeStorageAuditEpoch(e, pick, excess) OBVIOUS
<1>1. e \in Epochs BY EpochsCover DEF AuditTypeOK
<1>2. PICK moved \in SUBSET {s \in Movable(e) : pick[s] # NoProvider} :
              IF moved = {} THEN UNCHANGED <<dealVars, view, ready>>
              ELSE SetDeal(dealEnd, [s \in Slots |-> IF s \in moved THEN Repairing(slot[s], pick[s])
                                                     ELSE slot[s]], gen, content)
  BY FinalizeMoves, Zenon
<1> DEFINE sl == [s \in Slots |-> IF s \in moved THEN Repairing(slot[s], pick[s]) ELSE slot[s]]
<1>3. \A s \in moved : s \in Slots /\ pick[s] \in Providers
  BY <1>2 DEF Movable, Eligible
<1>4. SlotsOK(sl)
  <2>1. \A s \in moved : /\ Repairing(slot[s], pick[s]) \in SlotStates
                          /\ Repairing(slot[s], pick[s]).status # "ACTIVE"
                          /\ Repairing(slot[s], pick[s]).pending # NoProvider
    BY <1>2, <1>3, RepairingTyped
  <2>2. QED BY <2>1 DEF SlotsOK, AuditTypeOK
<1>5. /\ dealEnd' \in 0..MaxEnd /\ gen' \in 0..MaxGen
      /\ SlotsOK(slot')
      /\ content' \in Contents \cup {NoContent}
      /\ ready' \in [Slots -> 0..(MaxGen + 1)]
      /\ view' \subseteq ViewStates
  <2> HIDE DEF sl, e
  <2>1. CASE moved = {}
    <3>1. UNCHANGED <<dealVars, view, ready>> BY <1>2, <2>1
    <3>2. QED BY <3>1 DEF AuditTypeOK, SlotsOK, dealVars
  <2>2. CASE moved # {}
    <3>1. SetDeal(dealEnd, sl, gen, content) BY <1>2, <2>2 DEF sl
    <3>2. QED BY <3>1, <1>4, SetDealTyped DEF AuditTypeOK
  <2>3. QED BY <2>1, <2>2
<1>6. audits' = [audits EXCEPT ![e] = {FinalRecord(e, a) : a \in @}]
  BY Zenon DEF FinalizeStorageAuditEpoch
<1>7. audits' \in [Epochs -> SUBSET RecordStates]
  <2> HIDE DEF e
  <2>1. \A a \in audits[e] : FinalRecord(e, a) \in RecordStates
    BY <1>1, FinalRecordTyped DEF AuditTypeOK
  <2>2. QED BY <1>1, <1>6, <2>1 DEF AuditTypeOK
<1>8. cooldown' \in [Slots -> Nat]
  <2>1. e \in Nat /\ e + BackoffEpochs \in Nat BY <1>1, PolicyAssumption DEF Epochs
  <2> HIDE DEF e
  <2>2. PICK moves, back : cooldown' = [s \in Slots |-> IF s \in moves THEN 0
                                        ELSE IF s \in back THEN e + BackoffEpochs ELSE cooldown[s]]
    BY <1>0, FinalizeMoves, Zenon
  <2>3. QED BY <2>1, <2>2 DEF AuditTypeOK
<1>9. /\ finalized' = finalized \cup {e} /\ ended' = TRUE
      /\ UNCHANGED <<height, draining, tried, seeded, proved>>
  BY Zenon DEF FinalizeStorageAuditEpoch
<1>10. QED BY <1>1, <1>5, <1>7, <1>8, <1>9 DEF AuditTypeOK, SlotsOK

\* BeginBlock keeps every shape: a frozen record is a well-formed assignment and its quota.
LEMMA BeginBlockTyped ==
    ASSUME AuditTypeOK, NEW seed \in BOOLEAN, BeginBlock(seed)
    PROVE  AuditTypeOK'
<1> DEFINE h == height + 1
           e == EpochOf(h)
           current == {v \in view : v.end > h}
           due == {v \in current : AuditWindow(e, v.end) # {} /\ StorageAuditQuota(v.content, v.kind) > 0}
<1>1. h \in 1..MaxHeight BY BoundsAssumption DEF BeginBlock, AuditTypeOK
<1>2. e \in Epochs BY <1>1, EpochsCover
<1>3. \A v \in view : Frozen(v, e) \in RecordStates
  <2> SUFFICES ASSUME NEW v \in view PROVE Frozen(v, e) \in RecordStates OBVIOUS
  <2>1. v \in ViewStates BY DEF AuditTypeOK
  <2>2. StorageAuditQuota(v.content, v.kind) \in Nat
    <3>1. v.content \in Contents /\ v.kind \in {"Audit", "Repair"} BY <2>1 DEF ViewStates
    <3>2. v.content.mdus * Rows \in Nat BY <3>1, ContentsAssumption, QuotaAssumption
    <3>3. QED BY <3>1, <3>2, QuotaBounded
  <2>3. QED BY <2>1, <2>2 DEF Frozen, RecordStates, ViewStates
<1>4. CASE IsEpochStart(h)
  <2>1. /\ audits' = [x \in Epochs |-> IF x = e THEN {Frozen(v, e) : v \in due}
                                       ELSE IF x = e - 2 THEN {} ELSE audits[x]]
        /\ view' = current
        /\ finalized' = finalized \ {e - 2}
        /\ seeded' = (seeded \ {e - 2}) \cup (IF seed /\ due # {} THEN {e} ELSE {})
    BY <1>4, Zenon DEF BeginBlock
  <2> HIDE DEF h, e
  <2>2. audits' \in [Epochs -> SUBSET RecordStates]
    <3>1. \A v \in due : Frozen(v, e) \in RecordStates BY <1>3
    <3> HIDE DEF due
    <3>2. QED BY <2>1, <3>1 DEF AuditTypeOK
  <2>3. view' \subseteq ViewStates BY <2>1 DEF AuditTypeOK
  <2> HIDE DEF due
  <2>4. finalized' \subseteq Epochs /\ seeded' \subseteq Epochs BY <2>1, <1>2 DEF AuditTypeOK
  <2>5. /\ height' = h /\ ended' = FALSE
        /\ UNCHANGED <<draining, dealVars, ready, tried, cooldown, proved>>
    BY Zenon DEF BeginBlock, h
  <2>6. QED BY <1>1, <2>2, <2>3, <2>4, <2>5 DEF AuditTypeOK, dealVars
<1>5. CASE ~IsEpochStart(h)
  <2>1. /\ UNCHANGED <<audits, view, finalized, seeded>>
        /\ height' = h /\ ended' = FALSE
        /\ UNCHANGED <<draining, dealVars, ready, tried, cooldown, proved>>
    BY <1>5, Zenon DEF BeginBlock
  <2> HIDE DEF h
  <2>2. QED BY <1>1, <2>1 DEF AuditTypeOK, dealVars
<1>6. QED BY <1>4, <1>5

\* Every step keeps the shape of every collection.
LEMMA StepTyped == ASSUME AuditTypeOK, [AuditNext]_auditVars PROVE AuditTypeOK'
<1>1. CASE Transaction
  BY <1>1, StartTyped, CompleteTyped, UpdateTyped, ExtendTyped, CreditTyped, BumpTyped,
     DrainingTyped, ProveTyped DEF Transaction
<1>2. CASE Block BY <1>2, FinalizeTyped, BeginBlockTyped DEF Block
<1>3. CASE UNCHANGED auditVars BY <1>3 DEF auditVars, AuditTypeOK
<1>4. QED BY <1>1, <1>2, <1>3 DEF AuditNext

\* Every collection keeps its shape, and a slot has a pending provider exactly
\* while it is under repair: storageAssignmentsForDeal, which every writer of the
\* deal runs, EndBlock included, never meets the slots it refuses.
THEOREM AuditTypes == AuditSpec => []AuditTypeOK
<1>1. AuditInit => AuditTypeOK BY InitTyped
<1>2. AuditTypeOK /\ [AuditNext]_auditVars => AuditTypeOK' BY StepTyped
<1>3. QED BY <1>1, <1>2, PTL DEF AuditSpec

(***************************************************************************)
(* The kinds of step.                                                      *)
(***************************************************************************)

\* A step that stores the deal: its generation stays with its root, or moves on.
WritesDeal ==
    /\ UNCHANGED <<height, proved>>
    /\ \E end, sl, g, c : /\ SetDeal(end, sl, g, c)
                          /\ (g = gen /\ c.root = content.root) \/ g = gen + 1

\* A step that leaves the deal and what is derived from it alone.
KeepsDeal == UNCHANGED <<height, proved, dealVars, view, ready>>

\* A system proof.
Proves ==
    \E e \in Epochs : \E a \in audits[e] : \E i \in 0..(a.need - 1) : ProveFrozenStorageAudit(e, a, i)

\* The next block.
Begins == \E seed \in BOOLEAN : BeginBlock(seed)

\* Every step is of one of the four kinds.
LEMMA StepKinds ==
    ASSUME [AuditNext]_auditVars
    PROVE  WritesDeal \/ KeepsDeal \/ Proves \/ Begins
<1>1. ASSUME NEW s \in Slots, NEW p \in Providers, StartSlotRepair(s, p) PROVE WritesDeal
  BY <1>1 DEF StartSlotRepair, WritesDeal
<1>2. ASSUME NEW s \in Slots, CompleteSlotRepair(s) PROVE WritesDeal
  BY <1>2 DEF CompleteSlotRepair, WritesDeal
<1>3. ASSUME NEW c \in Contents, UpdateDealContent(c) PROVE WritesDeal
  BY <1>3 DEF UpdateDealContent, WritesDeal
<1>4. ASSUME ExtendDeal PROVE WritesDeal
  BY <1>4 DEF ExtendDeal, WritesDeal
<1>5. ASSUME StoreDealMoney PROVE WritesDeal
  BY <1>5 DEF StoreDealMoney, WritesDeal
<1>6. ASSUME NEW s \in Slots, NEW p \in Providers, BumpDealSetupSlot(s, p) PROVE WritesDeal
  BY <1>6 DEF BumpDealSetupSlot, WritesDeal
<1>7. ASSUME NEW p \in Drainable, NEW flag \in BOOLEAN, SetProviderDraining(p, flag) PROVE KeepsDeal
  BY <1>7 DEF SetProviderDraining, KeepsDeal
<1>8. ASSUME NEW pick \in [Slots -> Eligible \cup {NoProvider}], NEW excess,
             FinalizeStorageAuditEpoch(EpochOf(height), pick, excess)
      PROVE  WritesDeal \/ KeepsDeal
  <2>1. UNCHANGED <<height, proved>> BY <1>8, Zenon DEF FinalizeStorageAuditEpoch
  <2>2. PICK moved \in SUBSET {s \in Movable(EpochOf(height)) : pick[s] # NoProvider} :
              IF moved = {} THEN UNCHANGED <<dealVars, view, ready>>
              ELSE SetDeal(dealEnd, [s \in Slots |-> IF s \in moved THEN Repairing(slot[s], pick[s])
                                                     ELSE slot[s]], gen, content)
    BY <1>8, FinalizeMoves, Zenon
  <2>3. QED BY <2>1, <2>2 DEF WritesDeal, KeepsDeal
<1>9. CASE UNCHANGED auditVars BY <1>9 DEF auditVars, KeepsDeal, dealVars
<1>10. QED BY <1>1, <1>2, <1>3, <1>4, <1>5, <1>6, <1>7, <1>8, <1>9
       DEF AuditNext, Transaction, Block, Proves, Begins

\* A transaction does not end the block, only a bump adds to the providers tried,
\* and only an update of the content changes it.
LEMMA TransactionKeeps ==
    ASSUME Transaction
    PROVE  /\ ended' = ended
           /\ tried' = tried \/ \E s \in Slots, p \in Providers : BumpDealSetupSlot(s, p)
           /\ content' = content \/ \E c \in Contents : UpdateDealContent(c)
<1>0. \A end, sl, g, c : SetDeal(end, sl, g, c) => content' = c BY Zenon DEF SetDeal
<1>1. ASSUME NEW s \in Slots, NEW p \in Providers, StartSlotRepair(s, p)
      PROVE  UNCHANGED <<ended, tried, content>>
  BY <1>0, <1>1, Zenon DEF StartSlotRepair
<1>2. ASSUME NEW s \in Slots, CompleteSlotRepair(s) PROVE UNCHANGED <<ended, tried, content>>
  BY <1>0, <1>2, Zenon DEF CompleteSlotRepair
<1>3. ASSUME NEW c \in Contents, UpdateDealContent(c) PROVE UNCHANGED <<ended, tried>>
  BY <1>3, Zenon DEF UpdateDealContent
<1>4. ASSUME ExtendDeal PROVE UNCHANGED <<ended, tried, content>>
  BY <1>0, <1>4, Zenon DEF ExtendDeal
<1>5. ASSUME StoreDealMoney PROVE UNCHANGED <<ended, tried, content>>
  BY <1>0, <1>5, Zenon DEF StoreDealMoney
<1>6. ASSUME NEW s \in Slots, NEW p \in Providers, BumpDealSetupSlot(s, p)
      PROVE  UNCHANGED <<ended, content>>
  BY <1>0, <1>6, Zenon DEF BumpDealSetupSlot
<1>7. ASSUME NEW p \in Drainable, NEW flag \in BOOLEAN, SetProviderDraining(p, flag)
      PROVE  UNCHANGED <<ended, tried, content>>
  BY <1>7, Zenon DEF SetProviderDraining, dealVars
<1>8. ASSUME NEW e \in Epochs, NEW a \in audits[e], NEW i \in 0..(a.need - 1),
             ProveFrozenStorageAudit(e, a, i)
      PROVE  UNCHANGED <<ended, tried, content>>
  BY <1>8, Zenon DEF ProveFrozenStorageAudit, dealVars
<1>9. QED BY <1>1, <1>2, <1>3, <1>4, <1>5, <1>6, <1>7, <1>8, Zenon DEF Transaction

(***************************************************************************)
(* The assignment view.                                                    *)
(***************************************************************************)

\* While the deal lives the assignment view is what its slots and content call
\* for: every writer of the deal refreshes it, and BeginBlock, which drops the
\* assignments that end, drops none of a deal that lives on.
THEOREM ViewMatches == AuditSpec => []ViewMatchesDeal
<1>1. ASSUME AuditInit PROVE ViewMatchesDeal
  BY <1>1 DEF AuditInit, ViewMatchesDeal, Assignments
<1>2. ASSUME AuditTypeOK, ViewMatchesDeal, [AuditNext]_auditVars PROVE ViewMatchesDeal'
  <2>1. CASE WritesDeal
    BY <2>1 DEF WritesDeal, SetDeal, ViewMatchesDeal, Assignments, Assigned, Live
  <2>2. CASE KeepsDeal
    BY <1>2, <2>2 DEF KeepsDeal, dealVars, ViewMatchesDeal, Assignments, Assigned, Live
  <2>3. CASE Proves
    BY <1>2, <2>3 DEF Proves, ProveFrozenStorageAudit, dealVars, ViewMatchesDeal, Assignments, Assigned, Live
  <2>4. CASE Begins
    <3>1. PICK seed \in BOOLEAN : BeginBlock(seed) BY <2>4 DEF Begins
    <3>2. height' = height + 1 /\ UNCHANGED dealVars BY <3>1, Zenon DEF BeginBlock
    <3>3. view' = view \/ view' = {v \in view : v.end > height + 1}
      BY <3>1, Zenon DEF BeginBlock
    <3>4. SUFFICES ASSUME height + 1 < dealEnd
                   PROVE  view' = Assignments(dealEnd, slot, gen, content)'
      BY <3>2 DEF ViewMatchesDeal, Live, dealVars
    <3>5. Live(dealEnd) BY <1>2, <3>4 DEF Live, AuditTypeOK
    <3>6. view = Assignments(dealEnd, slot, gen, content) BY <1>2, <3>5 DEF ViewMatchesDeal
    <3>7. \A v \in view : v.end = dealEnd BY <3>6 DEF Assignments, Assigned
    <3>8. view' = view BY <1>2, <3>3, <3>4, <3>7 DEF AuditTypeOK
    <3>9. Assignments(dealEnd, slot, gen, content)' = Assignments(dealEnd, slot, gen, content)
      BY <3>2, <3>4, <3>5 DEF Assignments, Assigned, Live, dealVars
    <3>10. QED BY <3>6, <3>8, <3>9
  <2>5. QED BY <1>2, <2>1, <2>2, <2>3, <2>4, StepKinds
<1>3. QED BY <1>1, <1>2, AuditTypes, PTL DEF AuditSpec

(***************************************************************************)
(* Readiness and promotion.                                                *)
(***************************************************************************)

\* ReadyMeansProved is inductive on typed states: a write of the deal keeps a
\* marker only with the same repair of the same content, and a proof sets one
\* only for the repair that its record is about.
LEMMA ReadyStep ==
    ASSUME AuditTypeOK, ReadyMeansProved, [AuditNext]_auditVars
    PROVE  ReadyMeansProved'
<1>1. CASE WritesDeal
  <2>1. PICK end, sl, g, c : SetDeal(end, sl, g, c) BY <1>1 DEF WritesDeal
  <2>2. SUFFICES ASSUME NEW s \in Slots, slot'[s].status = "REPAIRING",
                        ready'[s] = slot'[s].target + 1
                 PROVE  <<s, slot'[s].pending, gen', content'>> \in proved'
    BY DEF ReadyMeansProved, Mode2RepairReady
  <2>3. CASE SameRepair(s, sl, g, c)
    BY <1>1, <2>1, <2>2, <2>3 DEF WritesDeal, SetDeal, SameRepair, ReadyMeansProved, Mode2RepairReady
  <2>4. CASE ~SameRepair(s, sl, g, c)
    <3>1. ready'[s] = 0 BY <2>1, <2>4 DEF SetDeal
    <3>2. slot'[s].target \in Nat BY StepTyped, BoundsAssumption DEF AuditTypeOK, SlotStates
    <3>3. QED BY <2>2, <3>1, <3>2
  <2>5. QED BY <2>3, <2>4
<1>2. CASE KeepsDeal BY <1>2 DEF KeepsDeal, dealVars, ReadyMeansProved, Mode2RepairReady
<1>3. CASE Proves
  <2>1. PICK e \in Epochs : \E a \in audits[e] : \E i \in 0..(a.need - 1) :
                            ProveFrozenStorageAudit(e, a, i)
    BY <1>3 DEF Proves
  <2>2. PICK a \in audits[e] : \E i \in 0..(a.need - 1) : ProveFrozenStorageAudit(e, a, i) BY <2>1
  <2>3. PICK i \in 0..(a.need - 1) : ProveFrozenStorageAudit(e, a, i) BY <2>2
  <2> DEFINE b == [a EXCEPT !.done = @ \cup {i}]
             caughtUp == b.kind = "Repair" /\ Complete(b)
  <2>4. /\ ready' = IF caughtUp /\ StillPending(b)
                    THEN [ready EXCEPT ![b.slot] = slot[b.slot].target + 1] ELSE ready
        /\ proved' = IF caughtUp
                     THEN proved \cup {<<b.slot, b.provider, b.gen, b.content>>} ELSE proved
        /\ UNCHANGED dealVars
    BY <2>3, Zenon DEF ProveFrozenStorageAudit
  <2> HIDE DEF b, caughtUp
  <2>5. QED BY <2>4 DEF dealVars, StillPending, ReadyMeansProved, Mode2RepairReady, AuditTypeOK
<1>4. CASE Begins
  <2>1. UNCHANGED <<dealVars, ready, proved>> BY <1>4, Zenon DEF Begins, BeginBlock
  <2>2. QED BY <2>1 DEF dealVars, ReadyMeansProved, Mode2RepairReady
<1>5. QED BY <1>1, <1>2, <1>3, <1>4, StepKinds

\* A marker that CompleteSlotRepair would accept says that the pending provider
\* itself proved its whole list for the content the deal has now.
THEOREM ReadyProved == AuditSpec => []ReadyMeansProved
<1>1. AuditInit => ReadyMeansProved BY DEF AuditInit, ReadyMeansProved, Serving
<1>2. AuditTypeOK /\ ReadyMeansProved /\ [AuditNext]_auditVars => ReadyMeansProved' BY ReadyStep
<1>3. QED BY <1>1, <1>2, AuditTypes, PTL DEF AuditSpec

\* A slot that changes hands does so in a promotion or in a setup bump.
LEMMA HandsChange ==
    ASSUME AuditTypeOK, [AuditNext]_auditVars, NEW s \in Slots, slot'[s].provider # slot[s].provider
    PROVE  \/ \E t \in Slots, p \in Providers : BumpDealSetupSlot(t, p)
           \/ CompleteSlotRepair(s) /\ slot'[s].provider = slot[s].pending
<1>0. slot \in [Slots -> SlotStates] BY DEF AuditTypeOK
<1>1. ASSUME NEW t \in Slots, NEW p \in Providers, StartSlotRepair(t, p) PROVE FALSE
  BY <1>0, <1>1 DEF StartSlotRepair, SetDeal, Repairing, SlotStates
<1>2. ASSUME NEW t \in Slots, CompleteSlotRepair(t)
      PROVE  CompleteSlotRepair(s) /\ slot'[s].provider = slot[s].pending
  <2>1. slot' = [slot EXCEPT ![t] = Serving(slot[t].pending)] BY <1>2 DEF CompleteSlotRepair, SetDeal
  <2>2. t = s BY <1>0, <2>1
  <2>3. QED BY <1>0, <1>2, <2>1, <2>2 DEF Serving
<1>3. ASSUME NEW c \in Contents, UpdateDealContent(c) PROVE FALSE
  BY <1>0, <1>3 DEF UpdateDealContent, SetDeal, Retargeted, SlotStates
<1>4. ASSUME ExtendDeal PROVE FALSE BY <1>4 DEF ExtendDeal, SetDeal
<1>5. ASSUME StoreDealMoney PROVE FALSE BY <1>5 DEF StoreDealMoney, SetDeal
<1>7. ASSUME NEW p \in Drainable, NEW flag \in BOOLEAN, SetProviderDraining(p, flag) PROVE FALSE
  BY <1>7 DEF SetProviderDraining, dealVars
<1>8. ASSUME NEW pick \in [Slots -> Eligible \cup {NoProvider}], NEW excess,
             FinalizeStorageAuditEpoch(EpochOf(height), pick, excess)
      PROVE  FALSE
  <2>1. PICK moved \in SUBSET {x \in Movable(EpochOf(height)) : pick[x] # NoProvider} :
              IF moved = {} THEN UNCHANGED <<dealVars, view, ready>>
              ELSE SetDeal(dealEnd, [x \in Slots |-> IF x \in moved THEN Repairing(slot[x], pick[x])
                                                     ELSE slot[x]], gen, content)
    BY <1>8, FinalizeMoves, Zenon
  <2>2. \A p : Repairing(slot[s], p).provider = slot[s].provider BY <1>0 DEF Repairing, SlotStates
  <2>3. moved # {} /\ slot' = [x \in Slots |-> IF x \in moved THEN Repairing(slot[x], pick[x])
                                               ELSE slot[x]]
    BY <2>1 DEF dealVars, SetDeal
  <2>4. slot'[s] = IF s \in moved THEN Repairing(slot[s], pick[s]) ELSE slot[s] BY <2>3
  <2>5. QED BY <2>2, <2>4
<1>9. ASSUME Proves PROVE FALSE
  BY <1>9 DEF Proves, ProveFrozenStorageAudit, dealVars
<1>10. ASSUME Begins PROVE FALSE
  <2>1. UNCHANGED dealVars BY <1>10, Zenon DEF Begins, BeginBlock
  <2>2. QED BY <2>1 DEF dealVars
<1>11. CASE UNCHANGED auditVars BY <1>11 DEF auditVars
<1>12. QED BY <1>1, <1>2, <1>3, <1>4, <1>5, <1>7, <1>8, <1>9, <1>10, <1>11
       DEF AuditNext, Transaction, Block, Proves, Begins

\* Once there is content a slot changes hands only by a promotion, and the
\* promoted provider has proved the deal's content of that moment.
THEOREM PromotionProved == AuditSpec => PromotedProved
<1>1. ASSUME AuditTypeOK, ReadyMeansProved, [AuditNext]_auditVars
      PROVE  [\A s \in Slots : content # NoContent /\ slot'[s].provider # slot[s].provider
                => <<s, slot'[s].provider, gen, content>> \in proved]_auditVars
  BY <1>1, HandsChange DEF CompleteSlotRepair, BumpDealSetupSlot, ReadyMeansProved
<1>2. QED BY <1>1, AuditTypes, ReadyProved, PTL DEF AuditSpec, PromotedProved

(***************************************************************************)
(* Where records come from.                                                *)
(***************************************************************************)

\* Two records of one assignment, at different points of its proof.
SameFrozen(a, b) ==
    /\ a.slot = b.slot /\ a.provider = b.provider /\ a.kind = b.kind
    /\ a.end = b.end /\ a.gen = b.gen /\ a.content = b.content /\ a.need = b.need

\* A record that BeginBlock has just frozen from the view.
Fresh(e, b) ==
    \E v \in view : /\ b = Frozen(v, e)
                    /\ AuditWindow(e, v.end) # {} /\ StorageAuditQuota(v.content, v.kind) > 0

\* The next block keeps a record, or freezes it for the epoch that begins.
LEMMA BeginRecords ==
    ASSUME AuditTypeOK, NEW seed \in BOOLEAN, BeginBlock(seed), NEW e \in Epochs, NEW b \in audits'[e]
    PROVE  \/ b \in audits[e] /\ (IsEpochStart(height + 1) => e # EpochOf(height + 1) - 2)
           \/ Fresh(e, b) /\ IsEpochStart(height + 1) /\ e = EpochOf(height + 1)
<1> DEFINE h == height + 1
           now == EpochOf(h)
           current == {v \in view : v.end > h}
           due == {v \in current : AuditWindow(now, v.end) # {} /\ StorageAuditQuota(v.content, v.kind) > 0}
<1>1. CASE IsEpochStart(h)
  <2>1. audits' = [x \in Epochs |-> IF x = now THEN {Frozen(v, now) : v \in due}
                                    ELSE IF x = now - 2 THEN {} ELSE audits[x]]
    BY <1>1, Zenon DEF BeginBlock
  <2>2. \A v \in due : /\ v \in view /\ AuditWindow(now, v.end) # {}
                       /\ StorageAuditQuota(v.content, v.kind) > 0
    OBVIOUS
  <2> HIDE DEF due, now, h
  <2>3. CASE e = now BY <1>1, <2>1, <2>2, <2>3 DEF Fresh, now, h
  <2>4. CASE e # now BY <1>1, <2>1, <2>4 DEF now, h
  <2>5. QED BY <2>3, <2>4
<1>2. CASE ~IsEpochStart(h)
  <2>1. audits' = audits BY <1>2, Zenon DEF BeginBlock
  <2>2. QED BY <1>2, <2>1
<1>3. QED BY <1>1, <1>2

\* A step keeps what a record freezes, unless BeginBlock freezes a new one.
LEMMA RecordsFollow ==
    ASSUME AuditTypeOK, [AuditNext]_auditVars, NEW e \in Epochs, NEW b \in audits'[e]
    PROVE  (\E a \in audits[e] : SameFrozen(a, b)) \/ Fresh(e, b)
<1>0. audits \in [Epochs -> SUBSET RecordStates] BY DEF AuditTypeOK
<1>1. CASE UNCHANGED audits BY <1>1 DEF SameFrozen
<1>2. ASSUME NEW seed \in BOOLEAN, BeginBlock(seed)
      PROVE  (\E a \in audits[e] : SameFrozen(a, b)) \/ Fresh(e, b)
  BY <1>2, BeginRecords DEF SameFrozen
<1>3. ASSUME NEW x \in Epochs, NEW a \in audits[x], NEW i \in 0..(a.need - 1),
             ProveFrozenStorageAudit(x, a, i)
      PROVE  \E d \in audits[e] : SameFrozen(d, b)
  <2>1. audits' = [audits EXCEPT ![x] = (@ \ {a}) \cup {[a EXCEPT !.done = @ \cup {i}]}]
    BY <1>3, Zenon DEF ProveFrozenStorageAudit
  <2>2. a \in RecordStates BY <1>0
  <2>3. SameFrozen(a, [a EXCEPT !.done = @ \cup {i}]) BY <2>2 DEF SameFrozen, RecordStates
  <2>4. QED BY <1>0, <2>1, <2>3 DEF SameFrozen
<1>4. ASSUME NEW pick, NEW excess, FinalizeStorageAuditEpoch(EpochOf(height), pick, excess)
      PROVE  \E d \in audits[e] : SameFrozen(d, b)
  <2> DEFINE x == EpochOf(height)
  <2>1. audits' = [audits EXCEPT ![x] = {FinalRecord(x, a) : a \in @}]
    BY <1>4, Zenon DEF FinalizeStorageAuditEpoch
  <2> HIDE DEF x
  <2>2. \A a \in audits[e] : SameFrozen(a, FinalRecord(x, a))
    <3>1. SUFFICES ASSUME NEW a \in audits[e] PROVE SameFrozen(a, FinalRecord(x, a)) OBVIOUS
    <3>2. a \in RecordStates BY <1>0
    <3>3. QED BY <3>2 DEF SameFrozen, FinalRecord, RecordStates
  <2>3. CASE e = x BY <1>0, <2>1, <2>2, <2>3
  <2>4. CASE e # x BY <1>0, <2>1, <2>4 DEF SameFrozen
  <2>5. QED BY <2>3, <2>4
<1>5. [AuditNext]_auditVars OBVIOUS
<1>6. QED
  BY <1>1, <1>2, <1>3, <1>4, <1>5
  DEF AuditNext, Transaction, Block, auditVars, epochVars, StartSlotRepair, CompleteSlotRepair,
      UpdateDealContent, ExtendDeal, StoreDealMoney, BumpDealSetupSlot, SetProviderDraining

\* Every record can be answered: BeginBlock freezes only assignments that sample
\* something and have blocks left to answer in, and storageAuditQuota never
\* exceeds what the slot holds.
THEOREM RecordsCanBeAnswered == AuditSpec => []RecordsAnswerable
<1>1. AuditInit => RecordsAnswerable BY DEF AuditInit, RecordsAnswerable
<1>2. ASSUME AuditTypeOK, RecordsAnswerable, [AuditNext]_auditVars PROVE RecordsAnswerable'
  <2>1. SUFFICES ASSUME NEW e \in Epochs, NEW b \in audits'[e]
                 PROVE  b.need \in 1..(b.content.mdus * Rows) /\ AuditWindow(e, b.end) # {}
    BY DEF RecordsAnswerable
  <2>2. CASE \E a \in audits[e] : SameFrozen(a, b)
    BY <1>2, <2>2 DEF RecordsAnswerable, SameFrozen
  <2>3. CASE Fresh(e, b)
    <3>1. PICK v \in view : /\ b = Frozen(v, e)
                            /\ AuditWindow(e, v.end) # {} /\ StorageAuditQuota(v.content, v.kind) > 0
      BY <2>3 DEF Fresh
    <3>2. v.content \in Contents /\ v.kind \in {"Audit", "Repair"} BY <1>2 DEF AuditTypeOK, ViewStates
    <3>3. v.content.mdus * Rows \in Nat BY <3>2, ContentsAssumption, QuotaAssumption
    <3>4. StorageAuditQuota(v.content, v.kind) \in 1..(v.content.mdus * Rows)
      BY <3>1, <3>2, <3>3, QuotaBounded
    <3>5. QED BY <3>1, <3>4 DEF Frozen
  <2>4. QED BY <1>2, <2>2, <2>3, RecordsFollow
<1>3. QED BY <1>1, <1>2, AuditTypes, PTL DEF AuditSpec

(***************************************************************************)
(* A generation names one root.                                            *)
(***************************************************************************)

\* Everything that names a generation and a content.
Named == view \cup UNION {audits[e] : e \in Epochs}

\* The inductive form of GenerationNamesRoot: no name is ahead of the deal, and
\* one of the deal's own generation is of the deal's own root.
NamesAgree ==
    /\ GenerationNamesRoot
    /\ \A v \in Named : v.gen <= gen /\ (v.gen = gen => v.content.root = content.root)

\* The generation stays with its root, or moves on by one.
LEMMA GenerationMoves ==
    ASSUME [AuditNext]_auditVars
    PROVE  (gen' = gen /\ content'.root = content.root) \/ gen' = gen + 1
<1>1. CASE WritesDeal BY <1>1 DEF WritesDeal, SetDeal
<1>2. CASE KeepsDeal BY <1>2 DEF KeepsDeal, dealVars
<1>3. CASE Proves BY <1>3 DEF Proves, ProveFrozenStorageAudit, dealVars
<1>4. CASE Begins
  <2>1. UNCHANGED dealVars BY <1>4, Zenon DEF Begins, BeginBlock
  <2>2. QED BY <2>1 DEF dealVars
<1>5. QED BY <1>1, <1>2, <1>3, <1>4, StepKinds

\* An assignment of the view names the deal it was written for, or was there.
LEMMA ViewFollows ==
    ASSUME [AuditNext]_auditVars, NEW b \in view'
    PROVE  b \in view \/ (b.gen = gen' /\ b.content = content')
<1>1. CASE WritesDeal
  <2>1. PICK end, sl, g, c : SetDeal(end, sl, g, c) BY <1>1, Zenon DEF WritesDeal
  <2>2. b \in Assignments(end, sl, g, c) /\ gen' = g /\ content' = c BY <2>1, Zenon DEF SetDeal
  <2>3. QED BY <2>2 DEF Assignments, Assigned
<1>2. CASE KeepsDeal BY <1>2 DEF KeepsDeal
<1>3. CASE Proves BY <1>3 DEF Proves, ProveFrozenStorageAudit
<1>4. CASE Begins
  <2>1. view' = view \/ view' = {v \in view : v.end > height + 1}
    BY <1>4, Zenon DEF Begins, BeginBlock
  <2>2. QED BY <2>1
<1>5. QED BY <1>1, <1>2, <1>3, <1>4, StepKinds

\* A step adds no name but the deal's own.
LEMMA NamesFollow ==
    ASSUME AuditTypeOK, [AuditNext]_auditVars, NEW b \in Named'
    PROVE  \/ \E a \in Named : a.gen = b.gen /\ a.content = b.content
           \/ b.gen = gen' /\ b.content = content'
<1>1. CASE b \in view' BY <1>1, ViewFollows DEF Named
<1>2. CASE b \notin view'
  <2>1. PICK e \in Epochs : b \in audits'[e] BY <1>2 DEF Named
  <2>2. CASE \E a \in audits[e] : SameFrozen(a, b) BY <2>2 DEF SameFrozen, Named
  <2>3. CASE Fresh(e, b)
    <3>1. PICK v \in view : b = Frozen(v, e) BY <2>3, Zenon DEF Fresh
    <3>2. b.gen = v.gen /\ b.content = v.content BY <3>1 DEF Frozen
    <3>3. v \in Named BY Zenon DEF Named
    <3>4. QED BY <3>2, <3>3, Zenon
  <2>4. QED BY <2>1, <2>2, <2>3, RecordsFollow
<1>3. QED BY <1>1, <1>2

\* The strengthened invariant is inductive on typed states.
LEMMA NamesStep ==
    ASSUME AuditTypeOK, NamesAgree, [AuditNext]_auditVars
    PROVE  NamesAgree'
<1>1. gen \in Nat /\ gen' \in Nat BY StepTyped, BoundsAssumption DEF AuditTypeOK
<1>2. \A v \in Named : v.gen \in Nat
  <2>1. \A v \in view : v.gen \in Nat BY BoundsAssumption DEF AuditTypeOK, ViewStates
  <2>2. \A e \in Epochs : \A v \in audits[e] : v.gen \in Nat
    BY BoundsAssumption DEF AuditTypeOK, RecordStates
  <2>3. QED BY <2>1, <2>2 DEF Named
<1>3. \A v, w \in Named : v.gen = w.gen => v.content.root = w.content.root
  BY DEF NamesAgree, GenerationNamesRoot, Named
<1>4. \A v \in Named : v.gen <= gen /\ (v.gen = gen => v.content.root = content.root)
  BY DEF NamesAgree
<1>5. \A b \in Named' : \/ \E a \in Named : a.gen = b.gen /\ a.content = b.content
                        \/ b.gen = gen' /\ b.content = content'
  BY NamesFollow
<1>6. (gen' = gen /\ content'.root = content.root) \/ gen' = gen + 1 BY GenerationMoves
<1>7. \A b \in Named' : b.gen <= gen' /\ (b.gen = gen' => b.content.root = content'.root)
  BY <1>1, <1>2, <1>4, <1>5, <1>6
<1>8. \A v, w \in Named' : v.gen = w.gen => v.content.root = w.content.root
  BY <1>1, <1>3, <1>5, <1>7
<1>9. QED BY <1>7, <1>8 DEF NamesAgree, GenerationNamesRoot, Named

\* Frozen records and live assignments of one generation name one root, across
\* commits, promotions, expiry and pruning.
THEOREM GenerationsNameRoots == AuditSpec => []GenerationNamesRoot
<1>1. AuditInit => NamesAgree BY DEF AuditInit, NamesAgree, GenerationNamesRoot, Named
<1>2. AuditTypeOK /\ NamesAgree /\ [AuditNext]_auditVars => NamesAgree' BY NamesStep
<1>3. NamesAgree => GenerationNamesRoot BY DEF NamesAgree
<1>4. QED BY <1>1, <1>2, <1>3, AuditTypes, PTL DEF AuditSpec

(***************************************************************************)
(* The end of an epoch does not enlarge the view.                          *)
(***************************************************************************)

\* The slots that are ACTIVE or under repair for generation g.
Assignable(sl, g) == {s \in Slots : sl[s].status = "ACTIVE" \/ sl[s].target = g}

\* A deal with content has one assignment for each assignable slot.
LEMMA AssignmentsCounted ==
    ASSUME NEW end, Live(end), NEW sl, SlotsOK(sl), NEW g, NEW c, c # NoContent
    PROVE  /\ IsFiniteSet(Assignments(end, sl, g, c))
           /\ Cardinality(Assignments(end, sl, g, c)) = Cardinality(Assignable(sl, g))
<1> DEFINE S == {s \in Slots : sl[s].status = "ACTIVE" \/ sl[s].target = g}
           A(s) == IF sl[s].status = "ACTIVE" THEN Assigned(s, sl[s].provider, "Audit", end, g, c)
                   ELSE Assigned(s, sl[s].pending, "Repair", end, g, c)
           f == [s \in S |-> A(s)]
           V == Assignments(end, sl, g, c)
<1>1. \A s \in Slots : sl[s].status \in {"ACTIVE", "REPAIRING"} BY DEF SlotsOK, SlotStates
<1>2. V = {A(s) : s \in S}
  <2>1. V = {Assigned(s, sl[s].provider, "Audit", end, g, c) :
                 s \in {x \in Slots : sl[x].status = "ACTIVE"}}
            \cup {Assigned(s, sl[s].pending, "Repair", end, g, c) :
                     s \in {x \in Slots : sl[x].status = "REPAIRING" /\ sl[x].target = g}}
    BY DEF Assignments
  <2>2. QED BY <1>1, <2>1
<1>3. \A s \in S : A(s).slot = s
  <2>1. \A s, p, kind : Assigned(s, p, kind, end, g, c).slot = s BY DEF Assigned
  <2>2. QED BY <2>1
<1>4. IsFiniteSet(S) /\ Assignable(sl, g) = S BY SlotsAssumption, FS_Subset DEF Assignable
<1> HIDE DEF A, S, V
<1>5. f \in Bijection(S, V)
  <2>1. f \in [S -> V] BY <1>2
  <2>2. \A s, t \in S : f[s] = f[t] => s = t BY <1>3
  <2>3. \A v \in V : \E s \in S : f[s] = v BY <1>2
  <2>4. QED BY <2>1, <2>2, <2>3, Fun_IsBij
<1>6. ExistsBijection(S, V) BY <1>5 DEF ExistsBijection
<1>7. IsFiniteSet(V) /\ Cardinality(V) = Cardinality(S) BY <1>4, <1>6, FS_Bijection
<1>8. QED BY <1>4, <1>7 DEF V

\* The view can be counted.
FiniteView == IsFiniteSet(view)

\* The view is finite: it is written from the slots, and otherwise only shrinks.
LEMMA ViewFinite == AuditSpec => []FiniteView
<1>1. AuditInit => FiniteView BY FS_EmptySet DEF AuditInit, FiniteView
<1>2. ASSUME AuditTypeOK, FiniteView, [AuditNext]_auditVars PROVE FiniteView'
  <2> USE DEF FiniteView
  <2>1. CASE WritesDeal
    <3>1. AuditTypeOK' BY <1>2, StepTyped
    <3>2. SlotsOK(slot') BY <3>1 DEF AuditTypeOK, SlotsOK
    <3>3. view' = Assignments(dealEnd', slot', gen', content') BY <2>1 DEF WritesDeal, SetDeal
    <3>4. CASE content' = NoContent \/ ~Live(dealEnd')
      BY <3>3, <3>4, FS_EmptySet DEF Assignments
    <3>5. CASE content' # NoContent /\ Live(dealEnd')
      BY <3>2, <3>3, <3>5, AssignmentsCounted
    <3>6. QED BY <3>4, <3>5
  <2>2. CASE KeepsDeal BY <1>2, <2>2 DEF KeepsDeal
  <2>3. CASE Proves BY <1>2, <2>3 DEF Proves, ProveFrozenStorageAudit
  <2>4. CASE Begins
    <3>1. view' = view \/ view' = {v \in view : v.end > height + 1}
      BY <2>4, Zenon DEF Begins, BeginBlock
    <3>2. view' \in SUBSET view BY <3>1
    <3>3. QED BY <1>2, <3>2, FS_Subset
  <2>5. QED BY <1>2, <2>1, <2>2, <2>3, <2>4, StepKinds
<1>3. QED BY <1>1, <1>2, AuditTypes, PTL DEF AuditSpec

\* EndBlock never enlarges the assignment view, so the limit on assignments of
\* the whole chain that setDeal enforces cannot be met there first: a pass trades
\* the assignment of an ACTIVE slot for the repair assignment of its replacement.
THEOREM EndBlockKeepsViewSize == AuditSpec => EndBlockNeverGrowsView
<1>1. ASSUME AuditTypeOK, ViewMatchesDeal, NEW pick \in [Slots -> Eligible \cup {NoProvider}],
             NEW excess, FinalizeStorageAuditEpoch(EpochOf(height), pick, excess)
      PROVE  Cardinality(view') = Cardinality(view)
  <2>1. PICK moved \in SUBSET {x \in Movable(EpochOf(height)) : pick[x] # NoProvider} :
              IF moved = {} THEN UNCHANGED <<dealVars, view, ready>>
              ELSE SetDeal(dealEnd, [x \in Slots |-> IF x \in moved THEN Repairing(slot[x], pick[x])
                                                     ELSE slot[x]], gen, content)
    BY <1>1, FinalizeMoves, Zenon
  <2> DEFINE sl == [x \in Slots |-> IF x \in moved THEN Repairing(slot[x], pick[x]) ELSE slot[x]]
  <2>2. CASE moved = {} BY <2>1, <2>2
  <2>3. CASE moved # {}
    <3>1. Live(dealEnd) /\ \A x \in moved : x \in Slots /\ slot[x].status = "ACTIVE"
      BY <2>1, <2>3 DEF Movable
    <3>2. /\ view' = Assignments(dealEnd, sl, gen, content)
          /\ slot' = sl
      BY <2>1, <2>3 DEF SetDeal
    <3>3. view = Assignments(dealEnd, slot, gen, content) BY <1>1, <3>1 DEF ViewMatchesDeal
    <3>4. CASE content = NoContent BY <3>2, <3>3, <3>4 DEF Assignments
    <3>5. CASE content # NoContent
      <4>1. SlotsOK(slot) BY <1>1 DEF AuditTypeOK, SlotsOK
      <4>2. AuditTypeOK' BY <1>1, FinalizeTyped
      <4>3. SlotsOK(sl) BY <3>2, <4>2 DEF AuditTypeOK, SlotsOK
      <4>4. \A x \in moved : Repairing(slot[x], pick[x]).target = gen
        BY <1>1, <3>1 DEF AuditTypeOK, SlotStates, Repairing
      <4>5. Assignable(sl, gen) = Assignable(slot, gen) BY <3>1, <4>4 DEF Assignable
      <4> HIDE DEF sl
      <4>6. Cardinality(view) = Cardinality(Assignable(slot, gen))
        <5>1. Live(dealEnd) /\ SlotsOK(slot) /\ content # NoContent BY <3>1, <3>5, <4>1
        <5>2. Cardinality(Assignments(dealEnd, slot, gen, content))
                = Cardinality(Assignable(slot, gen))
          BY ONLY <5>1, AssignmentsCounted, Zenon
        <5>3. QED BY <3>3, <5>2, Zenon
      <4>7. Cardinality(view') = Cardinality(Assignable(sl, gen))
        <5>1. Live(dealEnd) /\ SlotsOK(sl) /\ content # NoContent BY <3>1, <3>5, <4>3
        <5>2. Cardinality(Assignments(dealEnd, sl, gen, content))
                = Cardinality(Assignable(sl, gen))
          BY ONLY <5>1, AssignmentsCounted, Zenon
        <5>3. QED BY <3>2, <5>2, Zenon
      <4>8. QED BY <4>5, <4>6, <4>7
    <3>6. QED BY <3>4, <3>5
  <2>4. QED BY <2>2, <2>3
<1>2. ASSUME AuditTypeOK, ViewMatchesDeal, FiniteView, [AuditNext]_auditVars
      PROVE  [ended' /\ ~ended => Cardinality(view') <= Cardinality(view)]_auditVars
  <2>1. SUFFICES ASSUME ended', ~ended PROVE Cardinality(view') <= Cardinality(view) OBVIOUS
  <2>2. \E pick \in [Slots -> Eligible \cup {NoProvider}],
           excess \in [Underbonded -> 0..Cardinality(Slots)] :
           FinalizeStorageAuditEpoch(EpochOf(height), pick, excess)
    <3>1. \A seed \in BOOLEAN : ~BeginBlock(seed) BY <2>1, Zenon DEF BeginBlock
    <3>2. ~Transaction
      BY <2>1, TransactionKeeps, Zenon
    <3>3. ~UNCHANGED auditVars BY <2>1 DEF auditVars
    <3>4. QED BY <1>2, <3>1, <3>2, <3>3, Zenon DEF AuditNext, Block
  <2>3. Cardinality(view') = Cardinality(view) BY <1>1, <1>2, <2>2
  <2>4. Cardinality(view) \in Nat BY <1>2, FS_CardinalityType DEF FiniteView
  <2>5. QED BY <2>3, <2>4
<1>3. QED BY <1>2, AuditTypes, ViewMatches, ViewFinite, PTL DEF AuditSpec, EndBlockNeverGrowsView

(***************************************************************************)
(* What an eviction rests on.                                              *)
(***************************************************************************)

\* The next block is in the same epoch or the next, in the next after the last
\* block of an epoch.
LEMMA EpochAdvances ==
    ASSUME NEW h \in Nat \ {0}
    PROVE  /\ EpochOf(h) \in Nat /\ EpochOf(h + 1) \in Nat
           /\ EpochOf(h) <= EpochOf(h + 1)
           /\ IsEpochEnd(h) => EpochOf(h) < EpochOf(h + 1)
<1> DEFINE a == (h - 1) \div EpochLen
           b == h \div EpochLen
<1>1. EpochLen \in Nat \ {0} BY PolicyAssumption
<1>2. a \in Nat /\ EpochLen * a <= h - 1 BY <1>1
<1>3. b \in Nat /\ h < EpochLen * b + EpochLen /\ h = EpochLen * b + (h % EpochLen) BY <1>1
<1>4. EpochOf(h) = a + 1 /\ EpochOf(h + 1) = b + 1 BY DEF EpochOf
<1> HIDE DEF a, b
<1>5. a < b + 1
  <2>1. EpochLen * a < EpochLen * (b + 1) BY <1>1, <1>2, <1>3
  <2>2. QED BY <2>1, <1>1, <1>2, <1>3
<1>6. IsEpochEnd(h) => a < b
  <2>1. SUFFICES ASSUME IsEpochEnd(h) PROVE a < b OBVIOUS
  <2>2. EpochLen * a < EpochLen * b BY <1>1, <1>2, <1>3, <2>1 DEF IsEpochEnd
  <2>3. QED BY <2>2, <1>1, <1>2, <1>3
<1>7. QED BY <1>2, <1>3, <1>4, <1>5, <1>6

\* A record that counts misses belongs to a finalized epoch with a seed and was
\* not completed.
MissCounted(e, a) ==
    /\ a.done \subseteq 0..(a.need - 1)
    /\ a.missed > 0 => e \in finalized /\ e \in seeded /\ Lapsed(a)

\* Misses are counted once, at the end of the epoch they belong to.
MissesCounted ==
    /\ ended => IsEpochEnd(height)
    /\ \A e \in finalized : e < EpochOf(height) \/ (e = EpochOf(height) /\ ended)
    /\ \A e \in Epochs : \A a \in audits[e] : MissCounted(e, a)

\* The end of an epoch counts a miss only for a record with a seed that was not
\* completed, and counts none twice.
LEMMA FinalizeCounts ==
    ASSUME AuditTypeOK, MissesCounted, NEW pick, NEW excess,
           FinalizeStorageAuditEpoch(EpochOf(height), pick, excess)
    PROVE  MissesCounted'
<1> DEFINE e == EpochOf(height)
<1>1. /\ ~ended /\ IsEpochEnd(height) /\ ended' = TRUE
      /\ finalized' = finalized \cup {e} /\ UNCHANGED <<height, seeded>>
      /\ audits' = [audits EXCEPT ![e] = {FinalRecord(e, a) : a \in @}]
  BY Zenon DEF FinalizeStorageAuditEpoch
<1>2. (ended => IsEpochEnd(height))' BY <1>1 DEF IsEpochEnd
<1>3. \A x \in finalized' : x < EpochOf(height)' \/ (x = EpochOf(height)' /\ ended')
  BY <1>1 DEF MissesCounted, EpochOf
<1> HIDE DEF e
<1>4. ASSUME NEW x \in Epochs, NEW b \in audits'[x] PROVE MissCounted(x, b)'
  <2>0. audits \in [Epochs -> SUBSET RecordStates] BY DEF AuditTypeOK
  <2>1. CASE x # e
    <3>1. b \in audits[x] BY <1>1, <1>4, <2>0, <2>1
    <3>2. MissCounted(x, b) BY <3>1 DEF MissesCounted
    <3>3. QED BY <1>1, <3>2 DEF MissCounted, Lapsed, Complete
  <2>2. CASE x = e
    <3>1. PICK a \in audits[x] : b = FinalRecord(x, a) BY <1>1, <1>4, <2>0, <2>2
    <3>2. a \in RecordStates BY <2>0
    <3>3. MissCounted(x, a) BY DEF MissesCounted
    <3>4. b.done = a.done /\ b.need = a.need /\ b.kind = a.kind
      BY <3>1, <3>2 DEF FinalRecord, RecordStates
    <3>5. b.missed > 0 => x \in seeded /\ Lapsed(a)
      BY <3>1, <3>3 DEF FinalRecord, MissCounted
    <3>6. QED BY <1>1, <2>2, <3>3, <3>4, <3>5 DEF MissCounted, Lapsed, Complete
  <2>3. QED BY <2>1, <2>2
<1>5. QED BY <1>2, <1>3, <1>4 DEF MissesCounted

\* The next block freezes records without misses and forgets an epoch whole.
LEMMA BeginCounts ==
    ASSUME AuditTypeOK, MissesCounted, NEW seed \in BOOLEAN, BeginBlock(seed)
    PROVE  MissesCounted'
<1> DEFINE h == height + 1
           now == EpochOf(h)
<1>1. height' = h /\ ended' = FALSE BY Zenon DEF BeginBlock
<1>2. \/ IsEpochStart(h) /\ finalized' = finalized \ {now - 2}
                        /\ (\A x \in seeded : x # now - 2 => x \in seeded')
      \/ ~IsEpochStart(h) /\ UNCHANGED <<finalized, seeded>>
  <2>1. CASE IsEpochStart(h)
    <3> DEFINE current == {v \in view : v.end > h}
               due == {v \in current : AuditWindow(now, v.end) # {}
                                       /\ StorageAuditQuota(v.content, v.kind) > 0}
    <3>1. /\ finalized' = finalized \ {now - 2}
          /\ seeded' = (seeded \ {now - 2}) \cup (IF seed /\ due # {} THEN {now} ELSE {})
      BY <2>1, Zenon DEF BeginBlock
    <3> HIDE DEF due, now, h
    <3>2. QED BY <2>1, <3>1
  <2>2. CASE ~IsEpochStart(h) BY <2>2, Zenon DEF BeginBlock
  <2>3. QED BY <2>1, <2>2
<1>3. height \in Nat \ {0} BY BoundsAssumption DEF AuditTypeOK
<1>4. finalized' \subseteq finalized BY <1>2
<1>5. \A x \in finalized' : x < EpochOf(height)'
  <2>1. EpochOf(height)' = EpochOf(height + 1) BY <1>1 DEF EpochOf
  <2>2. SUFFICES ASSUME NEW x \in finalized PROVE x < EpochOf(height + 1) BY <1>4, <2>1
  <2>3. x \in Nat BY DEF AuditTypeOK, Epochs
  <2>4. x < EpochOf(height) \/ (x = EpochOf(height) /\ IsEpochEnd(height)) BY DEF MissesCounted
  <2>5. QED BY <1>3, <2>3, <2>4, EpochAdvances
<1>6. ASSUME NEW x \in Epochs, NEW b \in audits'[x] PROVE MissCounted(x, b)'
  <2>1. CASE b \in audits[x] /\ (IsEpochStart(h) => x # now - 2)
    <3>1. MissCounted(x, b) BY <2>1 DEF MissesCounted
    <3> HIDE DEF h, now
    <3>2. QED BY <1>2, <2>1, <3>1 DEF MissCounted, Lapsed, Complete
  <2>2. CASE Fresh(x, b)
    <3>0. PICK v \in view : b = Frozen(v, x) BY <2>2, Zenon DEF Fresh
    <3>1. b.done = {} /\ b.missed = 0 BY ONLY <3>0 DEF Frozen
    <3>2. QED BY <3>1 DEF MissCounted
  <2>3. QED BY <1>6, <2>1, <2>2, BeginRecords
<1>7. QED BY <1>1, <1>5, <1>6 DEF MissesCounted

\* A proof only adds a sampled position to a record that counts no miss yet.
LEMMA ProveCounts ==
    ASSUME AuditTypeOK, MissesCounted, Proves
    PROVE  MissesCounted'
<1>0. audits \in [Epochs -> SUBSET RecordStates] BY DEF AuditTypeOK
<1>1. PICK e \in Epochs : \E a \in audits[e] : \E i \in 0..(a.need - 1) :
                          ProveFrozenStorageAudit(e, a, i)
  BY DEF Proves
<1>2. PICK a \in audits[e] : \E i \in 0..(a.need - 1) : ProveFrozenStorageAudit(e, a, i) BY <1>1
<1>3. PICK i \in 0..(a.need - 1) : ProveFrozenStorageAudit(e, a, i) BY <1>2
<1> DEFINE d == [a EXCEPT !.done = @ \cup {i}]
<1>4. /\ e \notin finalized /\ UNCHANGED <<height, ended, finalized, seeded>>
      /\ audits' = [audits EXCEPT ![e] = (@ \ {a}) \cup {d}]
  BY <1>3, Zenon DEF ProveFrozenStorageAudit
<1>5. d.done = a.done \cup {i} /\ d.need = a.need /\ d.missed = a.missed
  BY <1>0 DEF RecordStates
<1>6. MissCounted(e, a) BY DEF MissesCounted
<1>7. a.missed \in Nat /\ a.need \in Nat BY <1>0 DEF RecordStates
<1> HIDE DEF d
<1>8. ASSUME NEW x \in Epochs, NEW b \in audits'[x] PROVE MissCounted(x, b)'
  <2>1. CASE b \in audits[x]
    <3>1. MissCounted(x, b) BY <2>1 DEF MissesCounted
    <3>2. QED BY <1>4, <3>1 DEF MissCounted, Lapsed, Complete
  <2>2. CASE b \notin audits[x]
    <3>1. x = e /\ b = d BY <1>0, <1>4, <1>8, <2>2
    <3>2. QED BY <1>4, <1>5, <1>6, <1>7, <3>1 DEF MissCounted
  <2>3. QED BY <2>1, <2>2
<1>9. QED BY <1>4, <1>8 DEF MissesCounted, EpochOf, IsEpochEnd

\* MissesCounted is inductive on typed states.
LEMMA CountsStep ==
    ASSUME AuditTypeOK, MissesCounted, [AuditNext]_auditVars
    PROVE  MissesCounted'
<1>1. CASE UNCHANGED <<height, ended, audits, finalized, seeded>>
  BY <1>1 DEF MissesCounted, MissCounted, Lapsed, Complete, EpochOf, IsEpochEnd
<1>2. CASE Transaction /\ ~Proves
  BY <1>1, <1>2
  DEF Transaction, Proves, epochVars, StartSlotRepair, CompleteSlotRepair,
      UpdateDealContent, ExtendDeal, StoreDealMoney, BumpDealSetupSlot, SetProviderDraining
<1>3. CASE Proves BY <1>3, ProveCounts
<1>4. CASE Block BY <1>4, FinalizeCounts, BeginCounts DEF Block
<1>5. CASE UNCHANGED auditVars BY <1>1, <1>5 DEF auditVars
<1>6. QED BY <1>2, <1>3, <1>4, <1>5 DEF AuditNext

\* Without draining, rotation or missing collateral the end of an epoch moves
\* only slots that fall short of their quota.
LEMMA OnlyShortfallMoves ==
    ASSUME AuditTypeOK, MaxDrain = 0, MaxRotate = 0, Underbonded = {},
           NEW pick, NEW excess, NEW e, FinalizeStorageAuditEpoch(e, pick, excess),
           NEW s \in Slots, slot'[s] # slot[s]
    PROVE  s \in QuotaShortfall(e)
<1> DEFINE quota == QuotaShortfall(e)
           underbonded == UnderbondedSlots(Movable(e) \ quota, pick, excess)
           left == Movable(e) \ (quota \cup underbonded)
           moved1 == Found(pick, quota \cup underbonded)
           drain == IF content = NoContent THEN {}
                    ELSE Considered({x \in left : slot[x].provider \in draining}, ByProvider,
                                    pick, Cardinality(moved1), MaxDrain)
           moved2 == moved1 \cup Found(pick, drain)
           rotate == IF content = NoContent THEN {}
                     ELSE Considered({x \in left : slot[x].provider \notin draining}, BySlot,
                                     pick, Cardinality(moved2), MaxRotate)
           moved == Found(pick, quota \cup underbonded \cup drain \cup rotate)
<1>1. underbonded = {} BY DEF UnderbondedSlots
<1>2. left \in SUBSET Slots BY DEF Movable
<1> HIDE DEF left
<1>3. \A due \in SUBSET left : Cardinality(due) \in Nat
  BY <1>2, SlotsAssumption, FS_Subset, FS_CardinalityType
<1>4. drain = {}
  <2> HIDE DEF moved1
  <2> DEFINE due == {x \in left : slot[x].provider \in draining}
             n(x) == Cardinality({t \in due : t \in ByProvider[x] /\ pick[t] # NoProvider})
  <2>1. \A x : n(x) \in Nat BY <1>3
  <2>2. Considered(due, ByProvider, pick, Cardinality(moved1), 0)
          = {x \in due : Room(Cardinality(moved1), n(x), 0)}
    BY DEF Considered
  <2> HIDE DEF n, due
  <2>3. \A x : ~Room(Cardinality(moved1), n(x), 0) BY <2>1 DEF Room
  <2>4. QED BY <2>2, <2>3 DEF due
<1>5. rotate = {}
  <2> HIDE DEF moved2
  <2> DEFINE due == {x \in left : slot[x].provider \notin draining}
             n(x) == Cardinality({t \in due : t \in BySlot[x] /\ pick[t] # NoProvider})
  <2>1. \A x : n(x) \in Nat BY <1>3
  <2>2. Considered(due, BySlot, pick, Cardinality(moved2), 0)
          = {x \in due : Room(Cardinality(moved2), n(x), 0)}
    BY DEF Considered
  <2> HIDE DEF n, due
  <2>3. \A x : ~Room(Cardinality(moved2), n(x), 0) BY <2>1 DEF Room
  <2>4. QED BY <2>2, <2>3 DEF due
<1>6. IF moved = {} THEN UNCHANGED <<dealVars, view, ready>>
      ELSE SetDeal(dealEnd, [x \in Slots |-> IF x \in moved THEN Repairing(slot[x], pick[x])
                                             ELSE slot[x]], gen, content)
  BY Zenon DEF FinalizeStorageAuditEpoch, left
<1>7. moved \subseteq quota BY <1>1, <1>4, <1>5 DEF Found
<1> HIDE DEF moved, quota
<1>8. s \in moved
  <2>1. slot' # slot OBVIOUS
  <2>2. moved # {} BY <1>6, <2>1 DEF dealVars
  <2>3. slot' = [x \in Slots |-> IF x \in moved THEN Repairing(slot[x], pick[x]) ELSE slot[x]]
    BY <1>6, <2>2 DEF SetDeal
  <2>4. QED BY <2>3
<1>9. QED BY <1>7, <1>8 DEF quota

\* A record with a seed that was not completed is a missed answer.
LEMMA LapsedIsMissed ==
    ASSUME AuditTypeOK, MissesCounted, NEW e \in Epochs, NEW a \in audits[e], e \in seeded, Lapsed(a)
    PROVE  Missed(e, a.slot, a.provider)
<1>1. a.need \in Nat BY DEF AuditTypeOK, RecordStates
<1>2. a.done \in SUBSET (0..(a.need - 1)) BY DEF MissesCounted, MissCounted
<1>3. IsFiniteSet(0..(a.need - 1)) /\ Cardinality(0..(a.need - 1)) = a.need
  <2> DEFINE n == a.need - 1
  <2>1. n \in Int /\ n >= -1 /\ n + 1 = a.need BY <1>1
  <2> HIDE DEF n
  <2>2. IsFiniteSet(0..n) /\ Cardinality(0..n) = IF 0 > n THEN 0 ELSE n - 0 + 1
    BY <2>1, FS_Interval
  <2>3. Cardinality(0..n) = n + 1 BY <2>1, <2>2
  <2>4. QED BY <2>1, <2>2, <2>3 DEF n
<1>4. IsFiniteSet(a.done) /\ Cardinality(a.done) <= a.need BY <1>2, <1>3, FS_Subset
<1>5. Cardinality(a.done) \in Nat BY <1>4, FS_CardinalityType
<1>6. Cardinality(a.done) < a.need BY <1>1, <1>4, <1>5 DEF Lapsed, Complete
<1>7. QED BY <1>6 DEF Missed, Lapsed

\* A slot that falls short was missed by its provider in this epoch and, when two
\* misses are asked for, in the one before.
LEMMA ShortfallIsEarned ==
    ASSUME AuditTypeOK, MissesCounted, EvictAfter <= 2, ~ended,
           NEW s \in QuotaShortfall(EpochOf(height)),
           NEW x \in (EpochOf(height) - EvictAfter + 1)..EpochOf(height)
    PROVE  x >= 1 /\ Missed(x, s, slot[s].provider)
<1> DEFINE e == EpochOf(height)
<1>0. e \in Epochs BY EpochsCover DEF AuditTypeOK
<1>1. e \in Nat /\ e >= 1 BY <1>0 DEF Epochs
<1>2. e \notin finalized BY <1>1 DEF MissesCounted
<1>3. EvictAfter > 0 /\ \E a \in audits[e] :
        a.slot = s /\ a.provider = slot[s].provider /\ FinalRecord(e, a).missed >= EvictAfter
  BY DEF QuotaShortfall
<1> HIDE DEF e
<1>4. PICK a \in audits[e] : /\ a.slot = s /\ a.provider = slot[s].provider
                             /\ FinalRecord(e, a).missed >= EvictAfter
  BY <1>3
<1>5. a \in RecordStates BY <1>0 DEF AuditTypeOK
<1>6. ~(a.missed > 0) BY <1>0, <1>2 DEF MissesCounted, MissCounted
<1>7. e \in seeded /\ Lapsed(a)
  BY <1>3, <1>4, <1>5, <1>6, PolicyAssumption DEF FinalRecord, RecordStates
<1>8. PreviousMisses(e, a) + 1 >= EvictAfter
  BY <1>4, <1>5, <1>7 DEF FinalRecord, RecordStates
<1>9. x = e \/ (x = e - 1 /\ EvictAfter = 2)
  <2>1. EvictAfter = 1 \/ EvictAfter = 2
    <3>1. EvictAfter \in Nat /\ EvictAfter > 0 /\ EvictAfter <= 2 BY <1>3, PolicyAssumption
    <3>2. QED BY ONLY <3>1
  <2>2. x \in (e - EvictAfter + 1)..e BY DEF e
  <2>3. QED BY ONLY <1>1, <2>1, <2>2
<1>10. CASE x = e BY <1>0, <1>1, <1>4, <1>7, <1>10, LapsedIsMissed
<1>11. CASE x = e - 1 /\ EvictAfter = 2
  <2> DEFINE old == {b \in audits[e - 1] : b.kind = "Audit" /\ b.slot = a.slot
                                          /\ b.provider = a.provider}
             b0 == CHOOSE b \in old : TRUE
  <2>1. PreviousMisses(e, a) = IF e = 1 \/ old = {} THEN 0 ELSE b0.missed
    BY DEF PreviousMisses
  <2>2. old # {} => b0 \in old
    <3> HIDE DEF old
    <3>1. QED OBVIOUS
  <2> HIDE DEF b0
  <2>3. e # 1 /\ old # {} BY <1>8, <1>11, <2>1
  <2>4. e - 1 \in Epochs
    <3> DEFINE last == EpochOf(MaxHeight)
    <3>1. last \in Int BY EpochsCover, BoundsAssumption DEF Epochs
    <3>2. Epochs = 1..last BY Zenon DEF Epochs
    <3>3. e # 1 BY <2>3, Zenon
    <3> HIDE DEF last
    <3>4. QED BY ONLY <1>0, <3>1, <3>2, <3>3
  <2>5. b0 \in audits[e - 1] /\ b0.slot = a.slot /\ b0.provider = a.provider BY <2>2, <2>3
  <2>6. b0.missed > 0
    <3>1. b0.missed \in Nat BY <2>4, <2>5 DEF AuditTypeOK, RecordStates
    <3>2. PreviousMisses(e, a) = b0.missed BY <2>1, <2>3, Zenon
    <3>3. QED BY ONLY <1>8, <1>11, <3>1, <3>2
  <2>7. e - 1 \in seeded /\ Lapsed(b0) BY <2>4, <2>5, <2>6 DEF MissesCounted, MissCounted
  <2>8. Missed(e - 1, b0.slot, b0.provider)
    <3> DEFINE p == e - 1
    <3>1. p \in Epochs /\ b0 \in audits[p] /\ p \in seeded /\ Lapsed(b0) BY <2>4, <2>5, <2>7, Zenon
    <3> HIDE DEF p
    <3>2. Missed(p, b0.slot, b0.provider) BY <3>1, LapsedIsMissed, Zenon
    <3>3. QED BY <3>2, Zenon DEF p
  <2>9. e - 1 >= 1 BY <1>0, <2>3 DEF Epochs
  <2>10. QED BY <1>4, <1>11, <2>5, <2>8, <2>9, Zenon
<1>12. QED BY <1>9, <1>10, <1>11

\* Where draining, rotation and collateral take nothing, EndBlock takes a slot
\* away only from a provider that itself missed this epoch and, if the policy
\* asks for two misses, the one before, with a seed each time.
THEOREM EvictionsEarned ==
    ASSUME MaxDrain = 0, MaxRotate = 0, Underbonded = {}, EvictAfter <= 2
    PROVE  AuditSpec => EvictionEarned
<1>1. AuditInit => MissesCounted BY DEF AuditInit, MissesCounted
<1>2. AuditTypeOK /\ MissesCounted /\ [AuditNext]_auditVars => MissesCounted' BY CountsStep
<1>3. ASSUME AuditTypeOK, MissesCounted, [AuditNext]_auditVars
      PROVE  [\A s \in Slots :
                ended' # ended /\ slot[s].status = "ACTIVE" /\ slot'[s].status = "REPAIRING"
                  => \A e \in (EpochOf(height) - EvictAfter + 1)..EpochOf(height) :
                        e >= 1 /\ Missed(e, s, slot[s].provider)]_auditVars
  <2>1. SUFFICES ASSUME NEW s \in Slots, ended' # ended, slot'[s] # slot[s],
                        NEW e \in (EpochOf(height) - EvictAfter + 1)..EpochOf(height)
                 PROVE  e >= 1 /\ Missed(e, s, slot[s].provider)
    OBVIOUS
  <2>2. \A seed \in BOOLEAN : ~BeginBlock(seed)
    <3>1. \A seed \in BOOLEAN : BeginBlock(seed) => UNCHANGED dealVars BY Zenon DEF BeginBlock
    <3>2. QED BY <2>1, <3>1 DEF dealVars
  <2>3. ~Transaction
    BY <2>1, TransactionKeeps, Zenon
  <2>4. ~UNCHANGED auditVars BY <2>1 DEF auditVars
  <2>5. PICK pick \in [Slots -> Eligible \cup {NoProvider}] :
           \E excess \in [Underbonded -> 0..Cardinality(Slots)] :
              FinalizeStorageAuditEpoch(EpochOf(height), pick, excess)
    BY <1>3, <2>2, <2>3, <2>4, Zenon DEF AuditNext, Block
  <2>6. PICK excess \in [Underbonded -> 0..Cardinality(Slots)] :
           FinalizeStorageAuditEpoch(EpochOf(height), pick, excess)
    BY <2>5
  <2>7. ~ended BY <2>6, Zenon DEF FinalizeStorageAuditEpoch
  <2>8. s \in QuotaShortfall(EpochOf(height)) BY <1>3, <2>1, <2>6, OnlyShortfallMoves
  <2>9. QED BY <1>3, <2>1, <2>7, <2>8, ShortfallIsEarned
<1>4. QED BY <1>1, <1>2, <1>3, AuditTypes, PTL DEF AuditSpec, EvictionEarned

(***************************************************************************)
(* Setup.                                                                  *)
(***************************************************************************)

\* What has been proved is a content that was committed, and a slot has left
\* finitely many providers.
SetupCounted ==
    /\ \A s, p, g, c : <<s, p, g, c>> \in proved => c \in Contents
    /\ \A s \in Slots : IsFiniteSet(tried[s])

\* A step that is not a bump keeps the providers tried.
LEMMA TriedKept ==
    ASSUME [AuditNext]_auditVars, ~\E t \in Slots, p \in Providers : BumpDealSetupSlot(t, p)
    PROVE  tried' = tried
<1>1. CASE Block
  <2>1. \A seed \in BOOLEAN : BeginBlock(seed) => tried' = tried BY Zenon DEF BeginBlock
  <2>2. ASSUME NEW pick, NEW excess, FinalizeStorageAuditEpoch(EpochOf(height), pick, excess)
        PROVE  tried' = tried
    BY <2>2, Zenon DEF FinalizeStorageAuditEpoch
  <2>3. QED BY <1>1, <2>1, <2>2, Zenon DEF Block
<1>2. CASE Transaction
  BY <1>2, TransactionKeeps, Zenon
<1>3. CASE UNCHANGED auditVars BY <1>3 DEF auditVars
<1>4. QED BY <1>1, <1>2, <1>3 DEF AuditNext

\* SetupCounted is inductive on typed states.
LEMMA SetupCountedStep ==
    ASSUME AuditTypeOK, SetupCounted, [AuditNext]_auditVars
    PROVE  SetupCounted'
<1>1. \A s, p, g, c : <<s, p, g, c>> \in proved' => c \in Contents
  <2>1. CASE Proves
    <3>1. PICK e \in Epochs : \E a \in audits[e] : \E i \in 0..(a.need - 1) :
                              ProveFrozenStorageAudit(e, a, i)
      BY <2>1 DEF Proves
    <3>2. PICK a \in audits[e] : \E i \in 0..(a.need - 1) : ProveFrozenStorageAudit(e, a, i) BY <3>1
    <3>3. PICK i \in 0..(a.need - 1) : ProveFrozenStorageAudit(e, a, i) BY <3>2
    <3> DEFINE b == [a EXCEPT !.done = @ \cup {i}]
    <3>4. proved' = proved \/ proved' = proved \cup {<<b.slot, b.provider, b.gen, b.content>>}
      BY <3>3, Zenon DEF ProveFrozenStorageAudit
    <3>5. b.content \in Contents
      <4>1. a \in RecordStates BY Zenon DEF AuditTypeOK
      <4>2. a.content \in Contents BY <4>1, Zenon DEF RecordStates
      <4>3. b.content = a.content BY <4>1 DEF RecordStates
      <4>4. QED BY <4>2, <4>3, Zenon
    <3> HIDE DEF b
    <3>6. QED BY <3>4, <3>5 DEF SetupCounted
  <2>2. CASE ~Proves
    <3>1. Begins => proved' = proved BY Zenon DEF Begins, BeginBlock
    <3>2. proved' = proved BY <2>2, <3>1, StepKinds DEF WritesDeal, KeepsDeal
    <3>3. QED BY <3>2 DEF SetupCounted
  <2>3. QED BY <2>1, <2>2
<1>2. CASE \E t \in Slots, p \in Providers : BumpDealSetupSlot(t, p)
  <2>1. PICK t \in Slots, p \in Providers : BumpDealSetupSlot(t, p) BY <1>2
  <2>2. tried' = [tried EXCEPT ![t] = @ \cup {slot[t].provider}] BY <2>1 DEF BumpDealSetupSlot
  <2>3. IsFiniteSet(tried[t] \cup {slot[t].provider}) BY FS_AddElement DEF SetupCounted
  <2>4. \A s \in Slots : IsFiniteSet(tried'[s]) BY <2>2, <2>3 DEF SetupCounted, AuditTypeOK
  <2>5. QED BY <1>1, <2>4 DEF SetupCounted
<1>3. CASE tried' = tried BY <1>1, <1>3 DEF SetupCounted
<1>4. QED BY <1>2, <1>3, TriedKept

\* A deal that has content keeps having some.
LEMMA ContentStays ==
    ASSUME AuditTypeOK, [AuditNext]_auditVars, content' = NoContent
    PROVE  content = NoContent
<1>1. NoContent \notin Contents BY ContentsAssumption
<1>2. CASE \E c \in Contents : UpdateDealContent(c)
  BY <1>1, <1>2 DEF UpdateDealContent, SetDeal
<1>3. CASE Transaction /\ ~\E c \in Contents : UpdateDealContent(c)
  BY <1>3, TransactionKeeps, Zenon
<1>4. CASE Block
  <2>1. CASE Begins
    <3>1. UNCHANGED dealVars BY <2>1, Zenon DEF Begins, BeginBlock
    <3>2. QED BY <3>1 DEF dealVars
  <2>2. ASSUME NEW pick, NEW excess, FinalizeStorageAuditEpoch(EpochOf(height), pick, excess)
        PROVE  content' = content
    BY <2>2, FinalizeMoves DEF SetDeal, dealVars
  <2>3. QED BY <1>4, <2>1, <2>2 DEF Block, Begins
<1>5. CASE UNCHANGED auditVars BY <1>5 DEF auditVars
<1>6. QED BY <1>2, <1>3, <1>4, <1>5 DEF AuditNext

\* During setup a slot never goes back to a provider it has left, changes hands
\* at most MaxBumps times, and no provider gets two slots: before the first
\* commit there is nothing a replacement could prove, so no repair completes.
THEOREM SetupProgress == AuditSpec => []SetupMakesProgress
<1>1. AuditInit => SetupMakesProgress /\ SetupCounted
  <2>1. SUFFICES ASSUME AuditInit PROVE SetupMakesProgress /\ SetupCounted OBVIOUS
  <2>2. proved = {} /\ \A s \in Slots : tried[s] = {} BY <2>1, Zenon DEF AuditInit
  <2>3. \A s \in Slots : slot[s].provider = FirstProvider[s]
    <3>1. \A s \in Slots : slot[s] = Serving(FirstProvider[s]) BY <2>1, Zenon DEF AuditInit
    <3>2. \A p : Serving(p).provider = p BY DEF Serving
    <3>3. QED BY <3>1, <3>2, Zenon
  <2>4. IsFiniteSet({}) /\ Cardinality({}) <= MaxBumps
    <3>1. IsFiniteSet({}) /\ Cardinality({}) = 0 BY FS_EmptySet, Zenon
    <3>2. MaxBumps \in Nat BY PolicyAssumption
    <3>3. QED BY ONLY <3>1, <3>2
  <2>5. SetupCounted BY <2>2, <2>4, Zenon DEF SetupCounted
  <2>6. SetupMakesProgress
    <3>1. \A s, t \in Slots : FirstProvider[s] = FirstProvider[t] => s = t BY SlotsAssumption, Zenon
    <3>2. QED BY <2>2, <2>3, <2>4, <3>1, Zenon DEF SetupMakesProgress
  <2>7. QED BY <2>5, <2>6
<1>2. ASSUME AuditTypeOK, ReadyMeansProved, SetupCounted, SetupMakesProgress, [AuditNext]_auditVars
      PROVE  SetupMakesProgress'
  <2>1. SUFFICES ASSUME content' = NoContent
                 PROVE  \A s \in Slots :
                          /\ slot'[s].provider \notin tried'[s] /\ Cardinality(tried'[s]) <= MaxBumps
                          /\ \A t \in Slots : slot'[t].provider = slot'[s].provider => s = t
    BY DEF SetupMakesProgress
  <2>2. \A s \in Slots :
          /\ slot[s].provider \notin tried[s] /\ Cardinality(tried[s]) <= MaxBumps
          /\ \A t \in Slots : slot[t].provider = slot[s].provider => s = t
    BY <1>2, <2>1, ContentStays DEF SetupMakesProgress
  <2>3. \A s \in Slots : ~CompleteSlotRepair(s)
    <3>1. SUFFICES ASSUME NEW s \in Slots, CompleteSlotRepair(s) PROVE FALSE OBVIOUS
    <3>2. content = NoContent BY <1>2, <2>1, ContentStays
    <3>3. <<s, slot[s].pending, gen, content>> \in proved
      BY <1>2, <3>1 DEF ReadyMeansProved, CompleteSlotRepair
    <3>4. NoContent \in Contents BY <1>2, <3>2, <3>3 DEF SetupCounted
    <3>5. QED BY <3>4, ContentsAssumption
  <2>4. CASE \E t \in Slots, p \in Providers : BumpDealSetupSlot(t, p)
    <3>1. PICK t \in Slots, p \in Providers : BumpDealSetupSlot(t, p) BY <2>4
    <3>2. /\ p \notin tried[t] /\ Cardinality(tried[t]) < MaxBumps
          /\ \A x \in Slots : p # slot[x].provider
          /\ tried' = [tried EXCEPT ![t] = @ \cup {slot[t].provider}]
          /\ slot' = [slot EXCEPT ![t] = Serving(p)]
      BY <3>1 DEF BumpDealSetupSlot, SetDeal
    <3>3. IsFiniteSet(tried[t]) BY <1>2 DEF SetupCounted
    <3>4. Cardinality(tried[t]) \in Nat BY <3>3, FS_CardinalityType
    <3>5. Cardinality(tried[t] \cup {slot[t].provider}) = Cardinality(tried[t]) + 1
      BY <2>2, <3>3, FS_AddElement
    <3>6. tried'[t] = tried[t] \cup {slot[t].provider} BY <1>2, <3>2 DEF AuditTypeOK
    <3>7. Cardinality(tried'[t]) <= MaxBumps
      <4>1. MaxBumps \in Nat BY PolicyAssumption
      <4>2. Cardinality(tried'[t]) = Cardinality(tried[t]) + 1 BY ONLY <3>5, <3>6
      <4>3. Cardinality(tried[t]) < MaxBumps BY <3>2, Zenon
      <4>4. QED BY ONLY <3>4, <4>1, <4>2, <4>3
    <3>8. \A x \in Slots : slot'[x].provider = IF x = t THEN p ELSE slot[x].provider
      BY <1>2, <3>2 DEF AuditTypeOK, Serving
    <3>9. \A x \in Slots : x # t => tried'[x] = tried[x]
      BY <1>2, <3>2 DEF AuditTypeOK
    <3>10. ASSUME NEW x \in Slots PROVE slot'[x].provider \notin tried'[x]
      <4>1. CASE x = t
        <5>1. slot'[t].provider = p BY <3>8
        <5>2. p # slot[t].provider BY <3>2
        <5>3. QED BY ONLY <3>2, <3>6, <4>1, <5>1, <5>2
      <4>2. CASE x # t BY ONLY <2>2, <3>8, <3>9, <4>2, x \in Slots
      <4>3. QED BY <4>1, <4>2
    <3>11. ASSUME NEW x \in Slots PROVE Cardinality(tried'[x]) <= MaxBumps
      <4>1. CASE x = t BY <3>7, <4>1
      <4>2. CASE x # t BY ONLY <2>2, <3>9, <4>2, x \in Slots
      <4>3. QED BY <4>1, <4>2
    <3>12. ASSUME NEW x \in Slots, NEW y \in Slots, slot'[y].provider = slot'[x].provider
           PROVE  x = y
      <4>1. \A z \in Slots : p # slot[z].provider BY <3>2
      <4>2. QED BY ONLY <2>2, <3>8, <3>12, <4>1, x \in Slots, y \in Slots
    <3>13. QED BY <3>10, <3>11, <3>12, Zenon
  <2>5. CASE ~\E t \in Slots, p \in Providers : BumpDealSetupSlot(t, p)
    <3>1. \A s \in Slots : slot'[s].provider = slot[s].provider BY <1>2, <2>3, <2>5, HandsChange
    <3>2. tried' = tried BY <1>2, <2>5, TriedKept
    <3>3. QED BY <2>2, <3>1, <3>2
  <2>6. QED BY <2>4, <2>5
<1>3. AuditTypeOK /\ SetupCounted /\ [AuditNext]_auditVars => SetupCounted' BY SetupCountedStep
<1>4. QED BY <1>1, <1>2, <1>3, AuditTypes, ReadyProved, PTL DEF AuditSpec
=============================================================================
