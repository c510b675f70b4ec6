------------------------- MODULE RetrievalSessionV3 -------------------------
(***************************************************************************)
(* The life of a v3 retrieval session: opened from deal escrow or by a     *)
(* sponsoring requester, answered by sampled proofs and acknowledged slot  *)
(* by slot, each obligation settled when it has both, the rest refunded    *)
(* after the deadline.  The challenge references of a session are those of *)
(* ChallengeRetention, taken and released in the same steps.               *)
(*                                                                         *)
(* Source: x/polystorechain/keeper/retrieval_v3_session.go and             *)
(* retrieval_v3_completion.go.  A session is named <<owner, deal, nonce>>, *)
(* the key of RetrievalSessionV3NonceIDs; its 32-byte id is a hash that    *)
(* binds this key.  The bank is the one denomination sessions are paid in; *)
(* dynamic pricing is off, so prices change only by UpdateParams.          *)
(*                                                                         *)
(* A definition marked "Fault:" is a wrong variant of the one that follows *)
(* it; the properties below are known to notice it.                        *)
(***************************************************************************)
EXTENDS ChallengeRetention, Functions

CONSTANTS
    Accounts,        \* session owners, deal owners and providers
    Nonces,          \* client-chosen session nonces
    DealOwner,       \* [Deals -> Accounts]
    DealEnd,         \* [Deals -> heights]: Deal.EndBlock
    SlotProvider,    \* [GenKeys -> [Slots -> Accounts]]: the admitted snapshots
    Plans,           \* delivery plans: [a set of slots -> blobs of that slot]
    MaxSamples,      \* MaxLargeSessionSamples
    SampleOf(_, _, _), \* the delivery tuples sampled for a seed, session and plan
    MaxProofs,       \* MaxProofsPerMessage
    Pricings,        \* the [price, base, burn] governance may set
    Vouchers,        \* the vouchers deal owners have signed
    FeeCaps,         \* the max_total_fee a sponsor may state; 0 is "absent"
    Policies,        \* retrieval policy modes deals may have
    Allowed,         \* the accounts with a valid allowlist proof
    InitBank, InitEscrow   \* funds of an account and of a deal at genesis

VARIABLES
    row,        \* RetrievalSessionsV3: the economic half of each session row
    lastNonce,  \* RetrievalSessionV3Nonces
    admitted,   \* AdmittedDealGenerationsV3, the eligible generation of a deal
    policy,     \* Deal.RetrievalPolicy.Mode
    pricing,    \* the retrieval price parameters
    escrow,     \* Deal.EscrowBalance
    bank,       \* account balances
    module,     \* the module account
    burned,     \* coins burned
    usedVouchers \* VoucherUsedNonces

moneyVars == <<escrow, bank, module, burned>>
dealVars == <<admitted, policy, pricing>>
v3Vars == <<retentionVars, row, lastNonce, dealVars, moneyVars, usedVouchers>>

NoVoucher == [nonce |-> 0]
OwnerOf(s) == s[1]
DealOf(s) == s[2]
NonceOf(s) == s[3]

\* The encoded blobs a plan delivers, each a <<slot, position>>.
Tuples(plan) == UNION {{<<i, n>> : n \in 1..plan[i]} : i \in DOMAIN plan}
Population(plan) == Cardinality(Tuples(plan))
SampleCount(plan) == IF Population(plan) < MaxSamples THEN Population(plan) ELSE MaxSamples

BasisPoints == 10000

ASSUME V3Constants ==
    /\ Sessions = V3 /\ V3 \subseteq Accounts \X Deals \X Nonces
    /\ IsFiniteSet(Accounts) /\ SlotProvider \in [GenKeys -> [Slots -> Accounts]]
    /\ InitBank \in Nat /\ InitEscrow \in Nat /\ MaxSamples \in Nat \ {0}
    /\ Nonces \subseteq Nat \ {0} /\ Generations \subseteq Nat /\ 1 \in Generations
    /\ \A plan \in Plans : /\ DOMAIN plan \in (SUBSET Slots) \ {{}}
                           /\ \A i \in DOMAIN plan : plan[i] \in Nat \ {0}
    /\ \A p \in Pricings : p.price \in Nat /\ p.base \in Nat /\ p.burn \in 0..BasisPoints
    /\ \A seed \in Seeds, s \in V3, plan \in Plans :
         /\ SampleOf(seed, s, plan) \subseteq Tuples(plan)
         /\ Cardinality(SampleOf(seed, s, plan)) = SampleCount(plan)

EmptyPlan == [i \in {} |-> 0]
NoRow == [plan |-> EmptyPlan, funding |-> "none", price |-> 0, burn |-> 0, locked |-> 0,
          acked |-> {}, settled |-> {}, refunded |-> {}, accepted |-> {},
          samples |-> [i \in Slots |-> 0]]

Represented(r) == DOMAIN r.plan
Fee(r, i) == r.price * r.plan[i]
FeeSum(r, I) == SumFunctionOnSet([i \in I |-> Fee(r, i)], I)
Unresolved(r) == Represented(r) \ (r.settled \cup r.refunded)
FullySettled(r) == Represented(r) # {} /\ Represented(r) \subseteq r.settled
Payee(s, i) == SlotProvider[session[s].key][i]

\* ceilBPS: quotient and remainder are scaled apart to stay within the Int width.
CeilBPS(amount, bps) ==
    (amount \div BasisPoints) * bps + ((amount % BasisPoints) * bps + (BasisPoints - 1)) \div BasisPoints

\* validateStoredSessionV3: what every load of a row demands of it.
ValidRow(r) ==
    /\ r.acked \cup r.settled \cup r.refunded \subseteq Represented(r)
    /\ r.settled \cap r.refunded = {}
    /\ r.settled \subseteq r.acked
    /\ r.locked = FeeSum(r, Unresolved(r))
    /\ SumFunctionOnSet(r.samples, Slots) \in {0, SampleCount(r.plan)}

(***************************************************************************)
(* Opening.  A message whose nonce is already bound to a session changes   *)
(* nothing: it returns that session or is refused.                         *)
(***************************************************************************)
NewRow(plan, funding) ==
    LET r == [NoRow EXCEPT !.plan = plan, !.funding = funding,
                           !.price = pricing.price, !.burn = pricing.burn]
    IN  [r EXCEPT !.locked = FeeSum(r, DOMAIN plan)]

\* Fault: neither the nonce index nor the last nonce is consulted.
PrepareAgain(s, deadline) ==
    /\ ~halted /\ ValidWindow(deadline)
    /\ height < DealEnd[DealOf(s)] /\ deadline <= DealEnd[DealOf(s)]

\* prepareRetrievalSessionV3: admission before any effect.
Prepare(s, deadline) ==
    /\ ~halted
    /\ ~session[s].stored
    /\ ValidWindow(deadline)
    /\ height < DealEnd[DealOf(s)] /\ deadline <= DealEnd[DealOf(s)]
    /\ NonceOf(s) > lastNonce[<<OwnerOf(s), DealOf(s)>>]

\* storeRetrievalSessionV3
Store(s, r, deadline) ==
    /\ Retain(s, <<DealOf(s), admitted[DealOf(s)]>>, deadline)
    /\ row' = [row EXCEPT ![s] = r]
    /\ lastNonce' = [lastNonce EXCEPT ![<<OwnerOf(s), DealOf(s)>>] = NonceOf(s)]

OpenRetrievalSessionV3(s, plan, deadline) ==
    LET d == DealOf(s)
        r == NewRow(plan, "escrow")
        total == r.locked + pricing.base IN
    /\ Prepare(s, deadline)
    /\ OwnerOf(s) = DealOwner[d]
    /\ escrow[d] >= total
    /\ Store(s, r, deadline)
    /\ escrow' = [escrow EXCEPT ![d] = @ - total]
    /\ module' = module - pricing.base
    /\ burned' = burned + pricing.base
    /\ UNCHANGED <<dealVars, bank, usedVouchers>>

\* Fault: the used nonces of a deal are not consulted.
VoucherOKAgain(v, s, plan, deadline) ==
    /\ Population(plan) = 1
    /\ v.key = <<DealOf(s), admitted[DealOf(s)]>>
    /\ v.plan = plan /\ v.deadline = deadline
    /\ v.redeemer \in {OwnerOf(s), "anyone"}

\* The signed terms of a voucher match the session, and its nonce is unused.
\* Only a session of one blob fits a voucher.
VoucherOK(v, s, plan, deadline) ==
    /\ Population(plan) = 1
    /\ v.key = <<DealOf(s), admitted[DealOf(s)]>>
    /\ v.plan = plan /\ v.deadline = deadline
    /\ v.redeemer \in {OwnerOf(s), "anyone"}
    /\ <<DealOf(s), v.nonce>> \notin usedVouchers

\* The policy admits the sponsor, consuming v when it is the ground.
Authorized(s, v) ==
    LET o == OwnerOf(s)
        mode == policy[DealOf(s)] IN
    /\ mode # "owner_only"
    /\ IF o = DealOwner[DealOf(s)] THEN v = NoVoucher
       ELSE \/ mode = "public" /\ v = NoVoucher
            \/ mode \in {"allowlist", "either"} /\ o \in Allowed /\ v = NoVoucher
            \/ mode \in {"voucher", "either"} /\ v # NoVoucher

OpenRetrievalSessionV3Sponsored(s, plan, deadline, cap, v) ==
    LET o == OwnerOf(s)
        r == NewRow(plan, "requester")
        total == r.locked + pricing.base IN
    /\ Prepare(s, deadline)
    /\ cap > 0 => total <= cap
    /\ Authorized(s, v)
    /\ v # NoVoucher => VoucherOK(v, s, plan, deadline)
    /\ bank[o] >= total
    /\ Store(s, r, deadline)
    /\ usedVouchers' = IF v = NoVoucher THEN usedVouchers
                       ELSE usedVouchers \cup {<<DealOf(s), v.nonce>>}
    /\ bank' = [bank EXCEPT ![o] = @ - total]
    /\ module' = module + r.locked
    /\ burned' = burned + pricing.base
    /\ UNCHANGED <<dealVars, escrow>>

(***************************************************************************)
(* Responses: proofs by the assigned provider, acknowledgements by the     *)
(* session owner.  D is the set of <<session, slot>> a message answers and *)
(* upd[s] the row with the message's bits recorded, before settlement.     *)
(***************************************************************************)
\* retrievalSessionV3AnchorSeed
ResponseSeed(s) == IF FullySettled(row[s]) /\ terminal[s] # NoSeed THEN terminal[s]
                   ELSE anchor[AnchorHeight(s)].seed
Challenges(s) == SampleOf(ResponseSeed(s), s, row[s].plan)
SlotChallenges(s, i) == {c \in Challenges(s) : c[1] = i}
SampleCounts(s) == [i \in Slots |-> Cardinality(SlotChallenges(s, i))]

\* The message is in the window, the seed is known, and the sample partition is
\* either not yet stored or the one the seed gives.
Answerable(s, i) ==
    /\ ~halted
    /\ session[s].stored /\ ValidRow(row[s]) /\ i \in Represented(row[s])
    /\ InWindow(s) /\ ResponseSeed(s) # NoSeed
    /\ row[s].samples \in {NoRow.samples, SampleCounts(s)}

\* Fault: an obligation is paid on its first accepted opening.
SettlesOnFirstProof(s, r, i) ==
    /\ i \in r.acked \ (r.settled \cup r.refunded)
    /\ SlotChallenges(s, i) \cap r.accepted # {} \/ SlotChallenges(s, i) = {}

\* Fault: a settled obligation is paid again by a repeated message.
SettlesAgain(s, r, i) ==
    i \in r.acked \ r.refunded /\ SlotChallenges(s, i) \subseteq r.accepted

\* settleRetrievalObligationV3 pays the obligation.
Settles(s, r, i) ==
    /\ i \in r.acked \ (r.settled \cup r.refunded)
    /\ SlotChallenges(s, i) \subseteq r.accepted

\* Fault: the burn rate in force is used, not the one the session froze.
BurnAtCurrentRate(r, i) == CeilBPS(Fee(r, i), pricing.burn)
Burn(r, i) == CeilBPS(Fee(r, i), r.burn)

Settled(r, I) == [r EXCEPT !.settled = @ \cup I, !.locked = @ - FeeSum(r, I)]

\* The sessions that have completed and hold no terminal marker yet.
Completing(after) == {s \in DOMAIN after : FullySettled(after[s]) /\ terminal[s] = NoSeed}

Respond(D, upd) ==
    LET paid == {p \in D : Settles(p[1], upd[p[1]], p[2])}
        fee == [p \in paid |-> Fee(row[p[1]], p[2])]
        burn == [p \in paid |-> Burn(row[p[1]], p[2])]
        net == [p \in paid |-> fee[p] - burn[p]]
        after == [s \in {p[1] : p \in D} |-> Settled(upd[s], {i \in Slots : <<s, i>> \in paid})]
        done == Completing(after)
    IN  /\ row' = [s \in Sessions |-> IF s \in DOMAIN after THEN after[s] ELSE row[s]]
        /\ burned' = burned + SumFunctionOnSet(burn, paid)
        /\ module' = module - SumFunctionOnSet(fee, paid)
        /\ bank' = [a \in Accounts |->
                       bank[a] + SumFunctionOnSet(net, {p \in paid : Payee(p[1], p[2]) = a})]
        /\ IF done = {} THEN UNCHANGED retentionVars ELSE ReleaseTerminal(done)
        /\ UNCHANGED <<lastNonce, dealVars, escrow, usedVouchers>>

\* The accepted bits of the proofs in one message, given per <<session, slot>>.
Accepted(proofs) ==
    [s \in {p[1] : p \in DOMAIN proofs} |->
        [row[s] EXCEPT !.accepted = @ \cup UNION {proofs[p] : p \in {q \in DOMAIN proofs : q[1] = s}},
                       !.samples = SampleCounts(s)]]

SubmitRetrievalSessionProofV3(s, i, T) ==
    /\ Answerable(s, i)
    /\ T \in SUBSET SlotChallenges(s, i) /\ Cardinality(T) \in 1..MaxProofs
    /\ Respond({<<s, i>>}, Accepted([p \in {<<s, i>>} |-> T]))

\* All entries are checked against the state before the message; one invalid entry
\* refuses the batch.  The creator is the provider of every entry.
SubmitRetrievalSessionProofBatchV3(creator, proofs) ==
    LET D == DOMAIN proofs IN
    /\ \A p \in D : /\ Answerable(p[1], p[2])
                    /\ Payee(p[1], p[2]) = creator
                    /\ proofs[p] \in (SUBSET SlotChallenges(p[1], p[2])) \ {{}}
    /\ SumFunctionOnSet([p \in D |-> Cardinality(proofs[p])], D) \in 1..MaxProofs
    /\ Respond(D, Accepted(proofs))

AcknowledgeRetrievalObligationV3(s, i) ==
    /\ Answerable(s, i)
    /\ Respond({<<s, i>>}, [x \in {s} |-> [row[s] EXCEPT !.acked = @ \cup {i},
                                                         !.samples = SampleCounts(s)]])

(***************************************************************************)
(* Refund after the deadline, by the session owner.                        *)
(***************************************************************************)
\* Fault: the deadline block counts as past the deadline.
PastDeadlineEarly(s) == height >= session[s].deadline
\* Fault: the block after the deadline still counts as within it.
PastDeadlineLate(s) == height > session[s].deadline + 1
PastDeadline(s) == height > session[s].deadline

\* Fault: the locked total is left as it was.
RefundedKeepsLocked(r) == [r EXCEPT !.refunded = @ \cup Unresolved(r)]
Refunded(r) == [r EXCEPT !.refunded = @ \cup Unresolved(r), !.locked = @ - FeeSum(r, Unresolved(r))]

RefundRetrievalSessionV3(s) ==
    LET r == row[s]
        amount == FeeSum(r, Unresolved(r)) IN
    /\ ~halted
    /\ session[s].stored /\ ValidRow(r)
    /\ PastDeadline(s)
    /\ Unresolved(r) # {}
    /\ row' = [row EXCEPT ![s] = Refunded(r)]
    /\ expired' = expired \cup {s}
    /\ \/ /\ r.funding = "escrow"
          /\ escrow' = [escrow EXCEPT ![DealOf(s)] = @ + amount]
          /\ UNCHANGED <<bank, module>>
       \/ /\ r.funding = "requester"
          /\ module >= amount
          /\ bank' = [bank EXCEPT ![OwnerOf(s)] = @ + amount]
          /\ module' = module - amount
          /\ UNCHANGED escrow
    /\ UNCHANGED <<height, halted, session, terminal, anchor, pending, indexVars, genVars,
                   auditVars, lastNonce, dealVars, burned, usedVouchers>>

(***************************************************************************)
(* What changes under open sessions: blocks, parameters, policy, content.  *)
(***************************************************************************)
\* Expiry loads each row, so an invalid one is an error of BeginBlock.
BeginBlockV3(inv, hash) ==
    LET h == height + 1 IN
    /\ ~halted /\ height < MaxHeight
    /\ inv # {} => IsEpochStart(h)
    /\ IF BeginBlockOK(h, inv, hash) /\ \A s \in Expiring(h) : ValidRow(row[s])
       THEN /\ height' = h
            /\ ProcessRetrievalChallengeState(h, inv, hash)
            /\ UNCHANGED halted
       ELSE /\ halted' = TRUE
            /\ UNCHANGED <<height, sessionVars, anchor, pending, indexVars, genVars, auditVars>>
    /\ UNCHANGED <<row, lastNonce, dealVars, moneyVars, usedVouchers>>

UpdateParams(p) ==
    /\ ~halted
    /\ pricing' = p
    /\ UNCHANGED <<retentionVars, row, lastNonce, admitted, policy, moneyVars, usedVouchers>>

UpdateDealRetrievalPolicy(d, mode) ==
    /\ ~halted /\ height < DealEnd[d]
    /\ policy' = [policy EXCEPT ![d] = mode]
    /\ UNCHANGED <<retentionVars, row, lastNonce, admitted, pricing, moneyVars, usedVouchers>>

\* FinalizeDealGenerationV3 makes another generation the admitted one.
AdmitGeneration(d, g) ==
    /\ ~halted /\ height < DealEnd[d]
    /\ g = admitted[d] + 1
    /\ admitted' = [admitted EXCEPT ![d] = g]
    /\ UNCHANGED <<retentionVars, row, lastNonce, policy, pricing, moneyVars, usedVouchers>>

V3Init ==
    /\ Init
    /\ row = [s \in Sessions |-> NoRow]
    /\ lastNonce = [od \in Accounts \X Deals |-> 0]
    /\ admitted = [d \in Deals |-> 1]
    /\ policy \in [Deals -> Policies]
    /\ pricing \in Pricings
    /\ escrow = [d \in Deals |-> InitEscrow]
    /\ bank = [a \in Accounts |-> InitBank]
    /\ module = InitEscrow * Cardinality(Deals)
    /\ burned = 0
    /\ usedVouchers = {}

\* The sessions whose challenges can be derived.
Seeded == {s \in Stored : ResponseSeed(s) # NoSeed}

\* The proofs one provider can put in a batch.
Batches(creator) ==
    LET D == {p \in Seeded \X Slots : /\ p[2] \in Represented(row[p[1]])
                                      /\ Payee(p[1], p[2]) = creator}
    IN  UNION {{f \in [C -> SUBSET UNION {Tuples(row[p[1]].plan) : p \in C}] :
                   \A p \in C : f[p] \subseteq SlotChallenges(p[1], p[2])} :
               C \in (SUBSET D) \ {{}}}

V3Next ==
    \/ \E s \in V3, plan \in Plans, deadline \in Heights :
         \/ OpenRetrievalSessionV3(s, plan, deadline)
         \/ \E cap \in FeeCaps, v \in Vouchers \cup {NoVoucher} :
              OpenRetrievalSessionV3Sponsored(s, plan, deadline, cap, v)
    \/ \E s \in Seeded, i \in Slots :
         \/ \E T \in SUBSET SlotChallenges(s, i) : SubmitRetrievalSessionProofV3(s, i, T)
         \/ AcknowledgeRetrievalObligationV3(s, i)
    \/ \E a \in Accounts : \E proofs \in Batches(a) : SubmitRetrievalSessionProofBatchV3(a, proofs)
    \/ \E s \in V3 : RefundRetrievalSessionV3(s)
    \/ \E inv \in Inventories, hash \in Seeds \cup {NoSeed} : BeginBlockV3(inv, hash)
    \/ \E p \in Pricings : UpdateParams(p)
    \/ \E d \in Deals, mode \in Policies : UpdateDealRetrievalPolicy(d, mode)
    \/ \E d \in Deals, g \in Generations : AdmitGeneration(d, g)

V3Spec == V3Init /\ [][V3Next]_v3Vars

-----------------------------------------------------------------------------
Rows == [plan : Plans \cup {EmptyPlan}, funding : {"none", "escrow", "requester"},
         price : Nat, burn : 0..BasisPoints, locked : Nat,
         acked : SUBSET Slots, settled : SUBSET Slots, refunded : SUBSET Slots,
         accepted : SUBSET UNION {Tuples(plan) : plan \in Plans}, samples : [Slots -> Nat]]

\* The rows, balances and indexes have their shapes.
V3TypeOK ==
    /\ TypeOK
    /\ row \in [Sessions -> Rows]
    /\ \A s \in Sessions : row[s].accepted \subseteq Tuples(row[s].plan)
    /\ lastNonce \in [Accounts \X Deals -> Nonces \cup {0}]
    /\ admitted \in [Deals -> Generations]
    /\ policy \in [Deals -> Policies] /\ pricing \in Pricings
    /\ escrow \in [Deals -> Nat] /\ bank \in [Accounts -> Nat]
    /\ module \in Nat /\ burned \in Nat
    /\ usedVouchers \subseteq Deals \X {v.nonce : v \in Vouchers}

\* The module account holds exactly the deal escrows and the fees sessions have
\* locked, and no open, settlement, burn or refund creates or loses a coin.
Conservation ==
    /\ module = SumFunctionOnSet(escrow, Deals)
                  + SumFunctionOnSet([s \in Stored |-> row[s].locked], Stored)
    /\ module + burned + SumFunctionOnSet(bank, Accounts)
         = InitBank * Cardinality(Accounts) + InitEscrow * Cardinality(Deals)

\* No sequence of messages leaves a row that validateStoredSessionV3 refuses: such
\* a session could be neither answered nor refunded, and its expiry would stop the
\* chain.
RowsStayLoadable == V3TypeOK /\ \A s \in Stored : ValidRow(row[s])

\* An obligation is paid only on evidence: acknowledged, with every opening the
\* seed samples for its slot accepted.  The stored sample partition stays the one
\* the seed gives, so a partly answered session is never locked out.
PaidOnEvidence ==
    \A s \in Seeded : height <= session[s].deadline =>
        /\ row[s].samples \in {NoRow.samples, SampleCounts(s)}
        /\ \A i \in row[s].settled : i \in row[s].acked /\ SlotChallenges(s, i) \subseteq row[s].accepted

\* A provider's income is exactly its own settled obligations at the price and burn
\* rate frozen when each session was opened, whatever UpdateParams does later.
ProvidersPaidFrozenTerms ==
    \A a \in {SlotProvider[k][i] : k \in GenKeys, i \in Slots} :
        bank[a] = InitBank +
            SumFunctionOnSet(
                [p \in Stored \X Slots |-> Fee(row[p[1]], p[2]) - CeilBPS(Fee(row[p[1]], p[2]), row[p[1]].burn)],
                {p \in Stored \X Slots : p[2] \in row[p[1]].settled /\ Payee(p[1], p[2]) = a})

\* After the deadline the owner can always have the unresolved fees back.
RefundAlwaysPossible ==
    \A s \in Stored : height > session[s].deadline /\ Unresolved(row[s]) # {}
                        => ENABLED RefundRetrievalSessionV3(s)

\* Where no deal is public, whoever is neither its owner nor on the allowlist used
\* up a voucher for each session opened, however the policy mode changed meanwhile
\* and whichever vouchers share a nonce.
VoucherFundsOneSession ==
    "public" \notin Policies => \A d \in Deals :
        Cardinality({s \in Stored : DealOf(s) = d /\ OwnerOf(s) \notin Allowed \cup {DealOwner[d]}})
            <= Cardinality({u \in usedVouchers : u[1] = d})

\* With its retention half alone a v3 session is a session of ChallengeRetention.
ImplementsRetention == Spec

Escrow == INSTANCE ObligationEscrow WITH
    Obligations <- V3 \X Slots,
    due <- [p \in V3 \X Slots |-> IF p[2] \in Represented(row[p[1]]) THEN Fee(row[p[1]], p[2]) ELSE 0],
    open <- {p \in V3 \X Slots : p[2] \in Unresolved(row[p[1]])},
    paid <- {p \in V3 \X Slots : p[2] \in row[p[1]].settled},
    returned <- {p \in V3 \X Slots : p[2] \in row[p[1]].refunded},
    held <- module - SumFunctionOnSet(escrow, Deals)

\* What the module account holds beside the deal escrows behaves as one escrow of
\* independent obligations: funded once, each paid or returned once and in full.
ImplementsEscrow == Escrow!Spec

(***************************************************************************)
(* The website's reader of a v3 session row.  Before a download, and again *)
(* for every observation, acknowledgement and refund, the browser fetches  *)
(* the committed row and repeats the chain's arithmetic on it; a row it    *)
(* refuses is a paid session it can neither use nor give up.               *)
(*                                                                         *)
(* Source: lib/retrievalV3.ts, parseFrozenSessionV3.  The row is read in   *)
(* any state between two messages, since a block may end there.            *)
(***************************************************************************)
\* Fault: a refunded obligation still counts as unresolved.
RemainingUnrefunded(r) == FeeSum(r, {i \in Represented(r) : i \notin r.settled})
Remaining(r) == FeeSum(r, {i \in Represented(r) : i \notin r.settled \cup r.refunded})

StoredSamples(r) == SumFunctionOnSet(r.samples, Represented(r))
StateMaterialized(r) == r.accepted # {} \/ r.acked # {} \/ r.settled # {}

\* The heights of the row: the anchor is the block after the snapshot, responses
\* start one later, and the deadline lies within the deal.
CanonicalHeights(s) ==
    /\ session[s].opened <= height
    /\ FirstResponse(s) <= session[s].deadline
    /\ session[s].deadline <= DealEnd[DealOf(s)]

\* The fees, masks and sample counts of the row agree with each other.
CanonicalPlan(r) ==
    /\ r.acked \cup r.settled \cup r.refunded \subseteq Represented(r)
    /\ r.settled \cap r.refunded = {}
    /\ r.settled \subseteq r.acked
    /\ r.locked = Remaining(r)
    /\ Cardinality(r.accepted) <= SampleCount(r.plan)
    /\ StoredSamples(r) \in {0, SampleCount(r.plan)}
    /\ StateMaterialized(r) => StoredSamples(r) # 0

\* Once the response carries the anchor seed, the browser derives the challenges
\* itself and compares the stored partition with theirs.
PartitionMatchesAnchor(s) ==
    (ResponseSeed(s) # NoSeed /\ StoredSamples(row[s]) # 0)
      => \A i \in Represented(row[s]) : row[s].samples[i] = Cardinality(SlotChallenges(s, i))

parseFrozenSessionV3(s) ==
    CanonicalHeights(s) /\ CanonicalPlan(row[s]) /\ PartitionMatchesAnchor(s)

\* The browser accepts every row the chain can hold for a session it opened:
\* partly proved, acknowledged, settled, expired or refunded, with the anchor not
\* yet drawn, available, kept as the terminal seed or released again.
ClientReadsEveryRow == \A s \in Stored : parseFrozenSessionV3(s)
=============================================================================
