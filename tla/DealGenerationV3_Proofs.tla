----------------------- MODULE DealGenerationV3_Proofs -----------------------
(***************************************************************************)
(* Theorems about the admission of a FAT v3 generation, for every number   *)
(* of slots, providers, contents and every parameter.                      *)
(***************************************************************************)
EXTENDS DealGenerationV3, StorageAudit_Proofs

(***************************************************************************)
(* Types.                                                                  *)
(***************************************************************************)

\* A step of the deal, its audits or its blocks alone: the content stays.
AuditStep == AuditNext /\ content' = content /\ UNCHANGED generationVars

\* A proposal for the deal as it is has the shape of a snapshot.
LEMMA ProposalTyped ==
    ASSUME AuditTypeOK, gen < MaxGen, NEW c \in Contents, NEW r \in IntegrityRoots, NEW n \in Sizes
    PROVE  Proposal(c, r, n) \in Snapshots
<1>1. gen + 1 \in 1..MaxGen BY BoundsAssumption DEF AuditTypeOK
<1>2. content.root \in {x.root : x \in Contents \cup {NoContent}} BY DEF AuditTypeOK
<1>3. CurrentProviders \in [Slots -> Providers] BY DEF CurrentProviders, AuditTypeOK, SlotStates
<1>4. QED BY <1>1, <1>2, <1>3 DEF Proposal, Snapshots

\* A finalized generation keeps the deal's shape: only its content moves.
LEMMA FinalizeGenerationTyped ==
    ASSUME GenerationTypeOK, FinalizeDealGenerationV3
    PROVE  GenerationTypeOK'
<1>1. pending \in Snapshots BY DEF GenerationTypeOK, FinalizeDealGenerationV3
<1>2. /\ pending.gen \in 0..MaxGen /\ pending.content \in Contents /\ pending.size \in Sizes
  BY <1>1, BoundsAssumption DEF Snapshots
<1>3. AuditTypeOK /\ SlotsOK(slot) /\ dealEnd \in 0..MaxEnd
  BY DEF GenerationTypeOK, AuditTypeOK, SlotsOK
<1>4. SetDeal(dealEnd, slot, pending.gen, pending.content) BY DEF FinalizeDealGenerationV3
<1>5. /\ dealEnd' \in 0..MaxEnd /\ gen' \in 0..MaxGen
      /\ SlotsOK(slot')
      /\ content' \in Contents \cup {NoContent}
      /\ ready' \in [Slots -> 0..(MaxGen + 1)]
      /\ view' \subseteq ViewStates
  BY <1>2, <1>3, <1>4, SetDealTyped
<1>6. AuditTypeOK' BY <1>3, <1>5 DEF FinalizeDealGenerationV3, AuditTypeOK, SlotsOK, epochVars
<1>7. content' = pending.content /\ size' = pending.size BY <1>4 DEF FinalizeDealGenerationV3, SetDeal
<1>8. NoContent \notin Contents /\ 0 \notin Sizes BY ContentsAssumption, SizesAssumption
<1>9. QED BY <1>1, <1>2, <1>6, <1>7, <1>8 DEF FinalizeDealGenerationV3, GenerationTypeOK

\* Every step keeps the shape of the deal and of its snapshots.
LEMMA GenerationStepTyped ==
    ASSUME GenerationTypeOK, [GenerationNext]_<<auditVars, generationVars>>
    PROVE  GenerationTypeOK'
<1>0. AuditTypeOK BY DEF GenerationTypeOK
<1>1. CASE AuditStep
  <2>1. AuditTypeOK' BY <1>0, <1>1, StepTyped DEF AuditStep
  <2>2. QED BY <1>1, <2>1 DEF AuditStep, generationVars, GenerationTypeOK
<1>2. ASSUME NEW c \in Contents, NEW n \in Sizes, UpdateSized(c, n) PROVE GenerationTypeOK'
  <2>1. AuditTypeOK' BY <1>0, <1>2, UpdateTyped DEF UpdateSized
  <2>2. content' = c BY <1>2 DEF UpdateSized, UpdateDealContent, SetDeal
  <2>3. c # NoContent /\ n # 0 BY ContentsAssumption, SizesAssumption
  <2>4. QED BY <1>2, <2>1, <2>2, <2>3 DEF UpdateSized, snapshotVars, GenerationTypeOK
<1>3. ASSUME NEW n \in Sizes, Resize(n) PROVE GenerationTypeOK'
  <2>1. StoreDealMoney BY <1>3 DEF Resize, StoreDealMoney
  <2>2. AuditTypeOK' BY <1>0, <2>1, CreditTyped
  <2>3. content' = content /\ n # 0 BY <1>3, SizesAssumption DEF Resize, SetDeal
  <2>4. QED BY <1>3, <2>2, <2>3 DEF Resize, snapshotVars, GenerationTypeOK
<1>4. ASSUME NEW c \in Contents, NEW r \in IntegrityRoots, NEW n \in Sizes,
             ProposeDealGenerationV3(c, r, n)
      PROVE  GenerationTypeOK'
  <2>1. pending' \in Snapshots BY <1>0, <1>4, ProposalTyped DEF ProposeDealGenerationV3
  <2>2. AuditTypeOK' BY <1>0, <1>4 DEF ProposeDealGenerationV3, auditVars, AuditTypeOK
  <2>3. QED BY <1>4, <2>1, <2>2 DEF ProposeDealGenerationV3, auditVars, GenerationTypeOK
<1>5. ASSUME NEW s \in Slots, SignAcceptance(s) PROVE GenerationTypeOK'
  <2>1. AuditTypeOK' BY <1>0, <1>5 DEF SignAcceptance, auditVars, AuditTypeOK
  <2>2. QED BY <1>5, <2>1 DEF SignAcceptance, auditVars, GenerationTypeOK
<1>6. ASSUME NEW s \in Slots, AcceptDealGenerationV3(s) PROVE GenerationTypeOK'
  <2>1. AuditTypeOK' BY <1>0, <1>6 DEF AcceptDealGenerationV3, auditVars, AuditTypeOK
  <2>2. pending \in Snapshots BY <1>6 DEF AcceptDealGenerationV3, GenerationTypeOK
  <2>3. pending' \in Snapshots BY <1>6, <2>2 DEF AcceptDealGenerationV3, Snapshots
  <2>4. QED BY <1>6, <2>1, <2>3 DEF AcceptDealGenerationV3, auditVars, GenerationTypeOK
<1>7. CASE FinalizeDealGenerationV3 BY <1>7, FinalizeGenerationTyped
<1>8. CASE UNCHANGED <<auditVars, generationVars>>
  <2>1. AuditTypeOK' BY <1>0, <1>8 DEF auditVars, AuditTypeOK
  <2>2. QED BY <1>8, <2>1 DEF auditVars, generationVars, GenerationTypeOK
<1>9. QED BY <1>1, <1>2, <1>3, <1>4, <1>5, <1>6, <1>7, <1>8 DEF GenerationNext, AuditStep

\* The snapshots keep their shape on top of the deal's, and a size is declared
\* exactly when there is content.
THEOREM GenerationTypes == GenerationSpec => []GenerationTypeOK
<1>1. GenerationInit => GenerationTypeOK
  <2>1. ASSUME GenerationInit PROVE GenerationTypeOK
    <3>1. AuditTypeOK BY <2>1, InitTyped DEF GenerationInit
    <3>2. QED BY <2>1, <3>1 DEF GenerationInit, AuditInit, GenerationTypeOK
  <2>2. QED BY <2>1
<1>2. GenerationTypeOK /\ [GenerationNext]_<<auditVars, generationVars>> => GenerationTypeOK'
  BY GenerationStepTyped
<1>3. QED BY <1>1, <1>2, PTL DEF GenerationSpec

(***************************************************************************)
(* Consent.                                                                *)
(***************************************************************************)

\* Every acceptance recorded in a snapshot was signed for that snapshot.
Consented(g) == g # NoGeneration => \A s \in g.accepted : AcceptanceDigest(g, s) \in signed

\* The inductive form of EligibleMeansConsent.
ConsentKept == Consented(pending) /\ Consented(admitted)

\* A proposal starts without acceptances, an acceptance is taken only for the
\* digest of the pending generation, and finalization moves them on unchanged.
LEMMA ConsentStep ==
    ASSUME GenerationTypeOK, ConsentKept, [GenerationNext]_<<auditVars, generationVars>>
    PROVE  ConsentKept'
<1> USE DEF ConsentKept, Consented, AcceptanceDigest
<1>1. CASE AuditStep BY <1>1 DEF AuditStep, generationVars
<1>2. ASSUME NEW c \in Contents, NEW n \in Sizes, UpdateSized(c, n) PROVE ConsentKept'
  BY <1>2 DEF UpdateSized, snapshotVars
<1>3. ASSUME NEW n \in Sizes, Resize(n) PROVE ConsentKept'
  BY <1>3 DEF Resize, snapshotVars
<1>4. ASSUME NEW c \in Contents, NEW r \in IntegrityRoots, NEW n \in Sizes,
             ProposeDealGenerationV3(c, r, n)
      PROVE  ConsentKept'
  BY <1>4 DEF ProposeDealGenerationV3, Proposal
<1>5. ASSUME NEW s \in Slots, SignAcceptance(s) PROVE ConsentKept'
  BY <1>5 DEF SignAcceptance
<1>6. ASSUME NEW s \in Slots, AcceptDealGenerationV3(s) PROVE ConsentKept'
  <2>1. pending \in Snapshots BY <1>6 DEF AcceptDealGenerationV3, GenerationTypeOK
  <2>2. /\ AcceptanceDigest(pending, s) \in signed
        /\ pending' = [pending EXCEPT !.accepted = @ \cup {s}]
        /\ UNCHANGED <<admitted, signed>>
    BY <1>6 DEF AcceptDealGenerationV3
  <2>3. /\ pending'.accepted = pending.accepted \cup {s}
        /\ \A t : AcceptanceDigest(pending', t) = AcceptanceDigest(pending, t)
    BY <2>1, <2>2 DEF Snapshots
  <2>4. pending # NoGeneration BY <1>6 DEF AcceptDealGenerationV3
  <2>5. \A t \in pending'.accepted : AcceptanceDigest(pending', t) \in signed
    BY <2>2, <2>3, <2>4
  <2>6. QED BY <2>2, <2>5
<1>7. CASE FinalizeDealGenerationV3 BY <1>7 DEF FinalizeDealGenerationV3
<1>8. CASE UNCHANGED <<auditVars, generationVars>> BY <1>8 DEF generationVars
<1>9. QED BY <1>1, <1>2, <1>3, <1>4, <1>5, <1>6, <1>7, <1>8 DEF GenerationNext, AuditStep

\* New v3 sessions are admitted only for a generation that every provider now
\* holding a slot has itself accepted, whatever re-proposals, owner updates,
\* repairs and late acceptances came in between.
THEOREM EligibleConsent == GenerationSpec => []EligibleMeansConsent
<1>1. GenerationInit => ConsentKept BY DEF GenerationInit, ConsentKept, Consented
<1>2. GenerationTypeOK /\ ConsentKept /\ [GenerationNext]_<<auditVars, generationVars>> => ConsentKept'
  BY ConsentStep
<1>3. ASSUME ConsentKept PROVE EligibleMeansConsent
  <2>1. SUFFICES ASSUME DealGenerationV3Eligible, NEW s \in Slots
                 PROVE  <<s, slot[s].provider, gen, content, admitted.integrity>> \in signed
    BY DEF EligibleMeansConsent
  <2>2. AcceptanceDigest(admitted, s) \in signed
    BY <1>3, <2>1 DEF ConsentKept, Consented, DealGenerationV3Eligible, StillCurrent
  <2>3. AcceptanceDigest(admitted, s) = <<s, slot[s].provider, gen, content, admitted.integrity>>
    BY <2>1 DEF AcceptanceDigest, DealGenerationV3Eligible, StillCurrent, SameAssignment, CurrentProviders
  <2>4. QED BY <2>2, <2>3
<1>4. QED BY <1>1, <1>2, <1>3, GenerationTypes, PTL DEF GenerationSpec

(***************************************************************************)
(* An admission that has lapsed stays lapsed.                              *)
(***************************************************************************)

\* What the deal's content may have become since a content of its own generation.
Grown(old, new) ==
    old.root = new.root /\ old.witness = new.witness /\ TotalMdus(old) <= TotalMdus(new)

\* The admitted generation is not ahead of the deal, and within its own
\* generation the deal's content has only grown.
AdmittedBehind ==
    admitted # NoGeneration => /\ admitted.gen <= gen
                               /\ admitted.gen = gen => Grown(admitted.content, content)

\* A step of the deal that keeps the generation keeps or grows the content.
LEMMA ContentGrows ==
    ASSUME AuditTypeOK, NEW c \in Contents, UpdateDealContent(c)
    PROVE  \/ gen' = gen + 1
           \/ gen' = gen /\ content' = c /\ content \in Contents /\ c # content /\ Grown(content, c)
              /\ slot' = slot
<1>1. CASE c.root # content.root BY <1>1 DEF UpdateDealContent, SetDeal
<1>2. CASE c.root = content.root
  <2>1. content # NoContent BY <1>2, ContentsAssumption
  <2>2. QED BY <1>2, <2>1 DEF UpdateDealContent, SetDeal, Grown, AuditTypeOK
<1>3. QED BY <1>1, <1>2

\* Growing twice is growing.
LEMMA GrownTransitive ==
    ASSUME NEW a \in Contents, NEW b \in Contents, NEW c \in Contents, Grown(a, b), Grown(b, c)
    PROVE  Grown(a, c)
<1>1. \A x \in Contents : TotalMdus(x) \in Nat BY ContentsAssumption DEF TotalMdus
<1>2. QED BY <1>1 DEF Grown

\* AdmittedBehind is inductive on typed states.
LEMMA AdmittedStep ==
    ASSUME GenerationTypeOK, AdmittedBehind, [GenerationNext]_<<auditVars, generationVars>>
    PROVE  AdmittedBehind'
<1>0. /\ AuditTypeOK /\ gen \in Nat
      /\ admitted # NoGeneration => admitted.gen \in Nat /\ admitted.content \in Contents
  BY BoundsAssumption DEF GenerationTypeOK, AuditTypeOK, Snapshots
<1>1. CASE admitted' = admitted /\ gen' = gen /\ content' = content
  BY <1>1 DEF AdmittedBehind
<1>2. CASE admitted' = admitted /\ gen' = gen + 1
  BY <1>0, <1>2 DEF AdmittedBehind
<1>3. CASE AuditStep
  <2>1. gen' = gen \/ gen' = gen + 1
    <3>1. CASE WritesDeal BY <3>1 DEF WritesDeal, SetDeal
    <3>2. CASE KeepsDeal BY <3>2 DEF KeepsDeal, dealVars
    <3>3. CASE Proves BY <3>3 DEF Proves, ProveFrozenStorageAudit, dealVars
    <3>4. CASE Begins
      <4>1. UNCHANGED dealVars BY <3>4, Zenon DEF Begins, BeginBlock
      <4>2. QED BY <4>1 DEF dealVars
    <3>5. QED BY <1>3, <3>1, <3>2, <3>3, <3>4, StepKinds DEF AuditStep
  <2>2. QED BY <1>1, <1>2, <1>3, <2>1 DEF AuditStep, generationVars
<1>4. ASSUME NEW c \in Contents, NEW n \in Sizes, UpdateSized(c, n) PROVE AdmittedBehind'
  <2>1. admitted' = admitted BY <1>4 DEF UpdateSized, snapshotVars
  <2>2. CASE gen' = gen + 1 BY <1>2, <2>1, <2>2
  <2>3. CASE gen' = gen /\ content' = c /\ content \in Contents /\ Grown(content, c)
    BY <1>0, <2>1, <2>3, GrownTransitive DEF AdmittedBehind
  <2>4. QED BY <1>0, <1>4, <2>2, <2>3, ContentGrows DEF UpdateSized
<1>5. ASSUME NEW n \in Sizes, Resize(n) PROVE AdmittedBehind'
  BY <1>1, <1>5 DEF Resize, SetDeal, snapshotVars
<1>6. ASSUME NEW c \in Contents, NEW r \in IntegrityRoots, NEW n \in Sizes,
             ProposeDealGenerationV3(c, r, n)
      PROVE  AdmittedBehind'
  BY <1>1, <1>6 DEF ProposeDealGenerationV3, auditVars
<1>7. ASSUME NEW s \in Slots, SignAcceptance(s) \/ AcceptDealGenerationV3(s) PROVE AdmittedBehind'
  BY <1>1, <1>7 DEF SignAcceptance, AcceptDealGenerationV3, auditVars
<1>8. CASE FinalizeDealGenerationV3
  <2>1. /\ pending \in Snapshots /\ admitted' = pending
        /\ gen' = pending.gen /\ content' = pending.content
    BY <1>8 DEF FinalizeDealGenerationV3, SetDeal, GenerationTypeOK
  <2>2. pending.gen \in Nat /\ TotalMdus(pending.content) \in Nat
    BY <2>1, ContentsAssumption DEF Snapshots, TotalMdus
  <2>3. QED BY <2>1, <2>2 DEF AdmittedBehind, Grown
<1>9. CASE UNCHANGED <<auditVars, generationVars>> BY <1>1, <1>9 DEF auditVars, generationVars
<1>10. QED BY <1>3, <1>4, <1>5, <1>6, <1>7, <1>8, <1>9 DEF GenerationNext, AuditStep

\* A step of the deal after its first commit that keeps generation and content
\* keeps the slots or has one under repair.
LEMMA SlotsStay ==
    ASSUME AuditTypeOK, AuditNext, gen' = gen, gen # 0, content' = content
    PROVE  slot' = slot \/ \E s \in Slots : slot'[s].status # "ACTIVE"
<1>0. slot \in [Slots -> SlotStates] /\ gen \in Nat BY BoundsAssumption DEF AuditTypeOK
<1>1. ASSUME NEW s \in Slots, NEW p \in Providers, StartSlotRepair(s, p)
      PROVE  slot'[s].status # "ACTIVE"
  BY <1>0, <1>1 DEF StartSlotRepair, SetDeal, Repairing, SlotStates
<1>2. ASSUME NEW s \in Slots, CompleteSlotRepair(s) PROVE FALSE
  BY <1>0, <1>2 DEF CompleteSlotRepair, SetDeal
<1>3. ASSUME NEW c \in Contents, UpdateDealContent(c) PROVE FALSE
  BY <1>3 DEF UpdateDealContent, SetDeal
<1>4. ASSUME ExtendDeal PROVE slot' = slot BY <1>4 DEF ExtendDeal, SetDeal
<1>5. ASSUME StoreDealMoney PROVE slot' = slot BY <1>5 DEF StoreDealMoney, SetDeal
<1>6. ASSUME NEW s \in Slots, NEW p \in Providers, BumpDealSetupSlot(s, p) PROVE FALSE
  BY <1>6 DEF BumpDealSetupSlot
<1>7. ASSUME NEW p \in Drainable, NEW flag \in BOOLEAN, SetProviderDraining(p, flag) PROVE slot' = slot
  BY <1>7 DEF SetProviderDraining, dealVars
<1>8. ASSUME NEW pick \in [Slots -> Eligible \cup {NoProvider}], NEW excess,
             FinalizeStorageAuditEpoch(EpochOf(height), pick, excess)
      PROVE  slot' = slot \/ \E s \in Slots : slot'[s].status # "ACTIVE"
  <2>1. PICK moved \in SUBSET {x \in Movable(EpochOf(height)) : pick[x] # NoProvider} :
              IF moved = {} THEN UNCHANGED <<dealVars, view, ready>>
              ELSE SetDeal(dealEnd, [x \in Slots |-> IF x \in moved THEN Repairing(slot[x], pick[x])
                                                     ELSE slot[x]], gen, content)
    BY <1>8, FinalizeMoves, Zenon
  <2>2. CASE moved = {} BY <2>1, <2>2 DEF dealVars
  <2>3. CASE moved # {}
    <3>1. PICK s \in moved : TRUE BY <2>3
    <3>2. s \in Slots BY <2>1, <3>1 DEF Movable
    <3>3. slot'[s] = Repairing(slot[s], pick[s]) BY <2>1, <2>3, <3>1, <3>2 DEF SetDeal
    <3>4. Repairing(slot[s], pick[s]).status = "REPAIRING"
      <4>1. slot[s] \in SlotStates BY <1>0, <3>2
      <4>2. QED BY <4>1 DEF Repairing, SlotStates
    <3>5. QED BY <3>2, <3>3, <3>4
  <2>4. QED BY <2>2, <2>3
<1>9. ASSUME Proves PROVE slot' = slot BY <1>9 DEF Proves, ProveFrozenStorageAudit, dealVars
<1>10. ASSUME Begins PROVE slot' = slot
  <2>1. UNCHANGED dealVars BY <1>10, Zenon DEF Begins, BeginBlock
  <2>2. QED BY <2>1 DEF dealVars
<1>11. QED BY <1>1, <1>2, <1>3, <1>4, <1>5, <1>6, <1>7, <1>8, <1>9, <1>10
       DEF AuditNext, Transaction, Block, Proves, Begins

\* A lapsed admission does not come back in one step.
LEMMA LapsedStays ==
    ASSUME GenerationTypeOK, AdmittedBehind, [GenerationNext]_<<auditVars, generationVars>>,
           admitted # NoGeneration, admitted' = admitted, StillCurrent(admitted)'
    PROVE  StillCurrent(admitted)
<1>0. /\ AuditTypeOK /\ gen \in Nat /\ admitted \in Snapshots
      /\ admitted.gen \in Nat \ {0} /\ admitted.content \in Contents
  <2>1. AuditTypeOK /\ admitted \in Snapshots BY Zenon DEF GenerationTypeOK
  <2>2. gen \in 0..MaxGen BY <2>1, Zenon DEF AuditTypeOK
  <2>3. MaxGen \in Nat BY BoundsAssumption, Zenon
  <2>4. admitted.gen \in 1..MaxGen /\ admitted.content \in Contents BY ONLY <2>1 DEF Snapshots
  <2>5. QED BY ONLY <2>1, <2>2, <2>3, <2>4
<1>1. /\ admitted.gen = gen' /\ admitted.content = content' /\ admitted.accepted = Slots
      /\ \A s \in Slots : slot'[s].status = "ACTIVE"
      /\ SameAssignment(admitted)'
  BY Zenon DEF StillCurrent, SameAssignment, ActiveProviders
<1>2. admitted.gen <= gen /\ (admitted.gen = gen => Grown(admitted.content, content))
  BY DEF AdmittedBehind
<1>3. CASE gen' = gen /\ content' = content /\ slot' = slot
  <2>1. SameAssignment(admitted)
    BY <1>1, <1>3 DEF SameAssignment, ActiveProviders, CurrentProviders
  <2>2. QED BY <1>1, <1>3, <2>1 DEF StillCurrent
<1>4. CASE gen' = gen + 1 BY <1>0, <1>1, <1>2, <1>4
<1>5. CASE AuditStep
  <2>1. gen' = gen \/ gen' = gen + 1
    <3>1. CASE WritesDeal BY <3>1 DEF WritesDeal, SetDeal
    <3>2. CASE KeepsDeal BY <3>2 DEF KeepsDeal, dealVars
    <3>3. CASE Proves BY <3>3 DEF Proves, ProveFrozenStorageAudit, dealVars
    <3>4. CASE Begins
      <4>1. UNCHANGED dealVars BY <3>4, Zenon DEF Begins, BeginBlock
      <4>2. QED BY <4>1 DEF dealVars
    <3>5. QED BY <1>5, <3>1, <3>2, <3>3, <3>4, StepKinds DEF AuditStep
  <2>2. CASE gen' = gen
    <3>1. gen # 0 BY <1>0, <1>1, <2>2
    <3>2. slot' = slot BY <1>0, <1>1, <1>5, <2>2, <3>1, SlotsStay DEF AuditStep
    <3>3. QED BY <1>3, <1>5, <2>2, <3>2 DEF AuditStep
  <2>3. QED BY <1>4, <2>1, <2>2
<1>6. ASSUME NEW c \in Contents, NEW n \in Sizes, UpdateSized(c, n) PROVE StillCurrent(admitted)
  <2>1. CASE gen' = gen + 1 BY <1>4, <2>1
  <2>2. CASE gen' = gen /\ content' = c /\ content \in Contents /\ c # content /\ Grown(content, c)
    <3>1. Grown(c, content) BY <1>1, <1>2, <2>2
    <3>2. c.root = content.root /\ c.witness = content.witness BY <3>1 DEF Grown
    <3>3. TotalMdus(c) = 1 + c.witness + c.mdus /\ TotalMdus(content) = 1 + content.witness + content.mdus
      BY <2>2, ContentsAssumption DEF TotalMdus
    <3>4. c.mdus = content.mdus
      BY <2>2, <3>1, <3>2, <3>3, ContentsAssumption DEF Grown
    <3>5. c = content BY <2>2, <3>2, <3>4, ContentsAssumption
    <3>6. QED BY <2>2, <3>5
  <2>3. QED BY <1>0, <1>6, <2>1, <2>2, ContentGrows DEF UpdateSized
<1>7. ASSUME NEW n \in Sizes, Resize(n) PROVE StillCurrent(admitted)
  BY <1>3, <1>7 DEF Resize, SetDeal
<1>8. ASSUME NEW c \in Contents, NEW r \in IntegrityRoots, NEW n \in Sizes,
             ProposeDealGenerationV3(c, r, n)
      PROVE  StillCurrent(admitted)
  BY <1>3, <1>8 DEF ProposeDealGenerationV3, auditVars
<1>9. ASSUME NEW s \in Slots, SignAcceptance(s) \/ AcceptDealGenerationV3(s)
      PROVE  StillCurrent(admitted)
  BY <1>3, <1>9 DEF SignAcceptance, AcceptDealGenerationV3, auditVars
<1>10. CASE FinalizeDealGenerationV3
  BY <1>4, <1>10 DEF FinalizeDealGenerationV3, SetDeal, ValidPending
<1>11. CASE UNCHANGED <<auditVars, generationVars>> BY <1>3, <1>11 DEF auditVars
<1>12. QED BY <1>5, <1>6, <1>7, <1>8, <1>9, <1>10, <1>11 DEF GenerationNext, AuditStep

\* Once a repair, an update or a growth has moved the deal away from its
\* admitted generation, only a newly finalized one restores eligibility: the
\* generation never goes back, a growth is never undone within it, and a slot
\* leaves repair only into a new generation.
THEOREM AdmissionNeverReturns == GenerationSpec => NoResurrection
<1>1. GenerationInit => AdmittedBehind BY DEF GenerationInit, AdmittedBehind
<1>2. GenerationTypeOK /\ AdmittedBehind /\ [GenerationNext]_<<auditVars, generationVars>> => AdmittedBehind'
  BY AdmittedStep
<1>3. ASSUME GenerationTypeOK, AdmittedBehind, [GenerationNext]_<<auditVars, generationVars>>
      PROVE  [admitted # NoGeneration /\ ~StillCurrent(admitted) /\ admitted' = admitted
                => ~StillCurrent(admitted)']_<<auditVars, generationVars>>
  BY <1>3, LapsedStays
<1>4. QED BY <1>1, <1>2, <1>3, GenerationTypes, PTL DEF GenerationSpec, NoResurrection

==============================================================================
