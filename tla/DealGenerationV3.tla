-------------------------- MODULE DealGenerationV3 --------------------------
(***************************************************************************)
(* Admission of a FAT v3 generation, on top of the deal's slots, repairs   *)
(* and audits: the owner proposes a content, every assigned provider       *)
(* accepts it, the owner finalizes, and new v3 sessions are opened only    *)
(* while the deal is still what was accepted.                              *)
(*                                                                         *)
(* Source: x/polystorechain/keeper/retrieval_v3_generation.go.  The        *)
(* twelve slots of the fixed profile are the constant Slots.  A provider's *)
(* acceptance is a message carrying a digest: it may be signed for one     *)
(* proposal and delivered after another.  Every size of the model fits the *)
(* smallest content.  The term deposit and the owner's authentication are  *)
(* outside.                                                                *)
(***************************************************************************)
EXTENDS StorageAudit

CONSTANTS
    IntegrityRoots,     \* integrity roots the owner may propose
    Sizes,              \* content sizes in bytes that may be declared
    NoGeneration,       \* no pending, or no admitted, generation
    MaxSigned           \* bound: acceptances signed in a behaviour

ASSUME SizesAssumption == Sizes \subseteq Nat \ {0}

VARIABLES
    size,       \* deal.Size_
    pending,    \* PendingDealGenerationsV3
    admitted,   \* AdmittedDealGenerationsV3
    signed      \* the acceptance digests providers have signed

snapshotVars == <<pending, admitted, signed>>
generationVars == <<size, pending, admitted, signed>>

\* activeK8M4Providers: every slot ACTIVE, no provider twice.
ActiveProviders(sl) ==
    /\ \A s \in Slots : sl[s].status = "ACTIVE"
    /\ \A s, t \in Slots : sl[s].provider = sl[t].provider => s = t

CurrentProviders == [s \in Slots |-> slot[s].provider]

SameAssignment(g) == ActiveProviders(slot) /\ g.providers = CurrentProviders

\* validateGenerationSnapshot with pending set.
ValidPending(g) ==
    /\ Live(dealEnd)
    /\ g.gen = gen + 1 /\ g.previous = content.root
    /\ g.content.root # content.root
    /\ TotalMdus(g.content) >= TotalMdus(content)
    /\ SameAssignment(g)

\* The admitted snapshot is still what the deal says, apart from size and end.
StillCurrent(g) ==
    /\ g.gen = gen /\ g.content = content
    /\ g.accepted = Slots
    /\ SameAssignment(g)

\* validateGenerationSnapshot with pending clear.
DealGenerationV3Eligible ==
    admitted # NoGeneration /\ Live(dealEnd) /\ StillCurrent(admitted) /\ admitted.size = size

(***************************************************************************)
(* UpdateDealContent declares a size as well, and may declare another one  *)
(* for what is already committed.                                          *)
(***************************************************************************)
UpdateSized(c, n) ==
    /\ UpdateDealContent(c)
    /\ size' = n
    /\ UNCHANGED snapshotVars

Resize(n) ==
    /\ Tx /\ Live(dealEnd)
    /\ content # NoContent /\ n # size
    /\ SetDeal(dealEnd, slot, gen, content)
    /\ size' = n
    /\ UNCHANGED <<height, ended, draining, tried, cooldown, epochVars, proved, snapshotVars>>

(***************************************************************************)
(* Admission.                                                              *)
(***************************************************************************)
Proposal(c, r, n) ==
    [gen |-> gen + 1, previous |-> content.root, content |-> c, integrity |-> r, size |-> n,
     providers |-> CurrentProviders, accepted |-> {}]

\* Fault: acceptances carry over to a proposal with another integrity root.
ProposeKeepingMask(c, r, n) ==
    LET p == [Proposal(c, r, n) EXCEPT !.accepted =
                 IF pending # NoGeneration /\ pending.gen = gen + 1 /\ pending.content = c
                 THEN pending.accepted ELSE {}]
    IN /\ Tx /\ gen < MaxGen /\ ValidPending(p)
       /\ pending' = p
       /\ UNCHANGED <<auditVars, size, admitted, signed>>

\* A repeated proposal leaves the pending one and its acceptances alone.
ProposeDealGenerationV3(c, r, n) ==
    LET p == Proposal(c, r, n) IN
    /\ Tx /\ gen < MaxGen
    /\ ValidPending(p)
    /\ ~(pending # NoGeneration /\ [pending EXCEPT !.accepted = {}] = p)
    /\ pending' = p
    /\ UNCHANGED <<auditVars, size, admitted, signed>>

\* GenerationAcceptanceV3.Hash: what one provider's acceptance binds; the size is
\* not part of it.
AcceptanceDigest(g, s) == <<s, g.providers[s], g.gen, g.content, g.integrity>>

\* A provider has checked its shards of the pending generation and signs.
SignAcceptance(s) ==
    /\ pending # NoGeneration /\ Cardinality(signed) < MaxSigned
    /\ AcceptanceDigest(pending, s) \notin signed
    /\ signed' = signed \cup {AcceptanceDigest(pending, s)}
    /\ UNCHANGED <<auditVars, size, pending, admitted>>

\* Delivery of a signed acceptance; a repeated one changes nothing.
AcceptDealGenerationV3(s) ==
    /\ Tx /\ pending # NoGeneration /\ ValidPending(pending)
    /\ AcceptanceDigest(pending, s) \in signed
    /\ s \notin pending.accepted
    /\ pending' = [pending EXCEPT !.accepted = @ \cup {s}]
    /\ UNCHANGED <<auditVars, size, admitted, signed>>

FinalizeDealGenerationV3 ==
    /\ Tx /\ pending # NoGeneration /\ ValidPending(pending)
    /\ pending.accepted = Slots
    /\ SetDeal(dealEnd, slot, pending.gen, pending.content)
    /\ admitted' = pending
    /\ pending' = NoGeneration /\ size' = pending.size
    /\ UNCHANGED <<height, ended, draining, tried, cooldown, epochVars, proved, signed>>

GenerationInit ==
    /\ AuditInit
    /\ size = 0
    /\ pending = NoGeneration /\ admitted = NoGeneration /\ signed = {}

GenerationNext ==
    \/ AuditNext /\ content' = content /\ UNCHANGED generationVars
    \/ \E c \in Contents, n \in Sizes : UpdateSized(c, n)
    \/ \E n \in Sizes : Resize(n)
    \/ \E c \in Contents, r \in IntegrityRoots, n \in Sizes : ProposeDealGenerationV3(c, r, n)
    \/ \E s \in Slots : SignAcceptance(s) \/ AcceptDealGenerationV3(s)
    \/ FinalizeDealGenerationV3

GenerationSpec == GenerationInit /\ [][GenerationNext]_<<auditVars, generationVars>>

(***************************************************************************)
(* Properties.                                                             *)
(***************************************************************************)
Snapshots == [gen : 1..MaxGen, previous : {c.root : c \in Contents \cup {NoContent}},
              content : Contents, integrity : IntegrityRoots, size : Sizes,
              providers : [Slots -> Providers], accepted : SUBSET Slots]

\* The snapshots keep their shape on top of the deal's.
GenerationTypeOK ==
    /\ AuditTypeOK
    /\ size \in Sizes \cup {0} /\ (size = 0 <=> content = NoContent)
    /\ pending \in Snapshots \cup {NoGeneration}
    /\ admitted \in Snapshots \cup {NoGeneration}

\* New v3 sessions are admitted only for a generation that every provider now
\* holding a slot has itself accepted: this generation, this content, this
\* integrity root, this slot.  Re-proposals, owner updates, repairs and late
\* acceptances in between do not matter.
EligibleMeansConsent ==
    DealGenerationV3Eligible =>
        \A s \in Slots :
            <<s, slot[s].provider, gen, content, admitted.integrity>> \in signed

\* Once a repair, an update or a growth has moved the deal away from its
\* admitted generation, that admission never becomes valid again: only a newly
\* finalized generation restores eligibility.  The declared size, which the
\* acceptances do not bind, is the one thing that can be put back.
NoResurrection ==
    [][admitted # NoGeneration /\ ~StillCurrent(admitted) /\ admitted' = admitted
         => ~StillCurrent(admitted)']_<<auditVars, generationVars>>

=============================================================================
