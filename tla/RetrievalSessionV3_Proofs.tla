---------------------- MODULE RetrievalSessionV3_Proofs ----------------------
(***************************************************************************)
(* The theorems about RetrievalSessionV3, for every set of sessions, deals,*)
(* plans, prices and vouchers: the inductive invariant, what follows from it,*)
(* and the two specifications it implements.                               *)
(***************************************************************************)
EXTENDS RetrievalMoney_Proofs, ChallengeRetention_Proofs

(***************************************************************************)
(* Rows and retention.                                                     *)
(***************************************************************************)
\* The challenge state moves and the row does not: its evidence stands.
LEMMA RowKept ==
    ASSUME V3IInv, IInv', [Next]_retentionVars, NEW s \in Stored, row'[s] = row[s], terminal'[s] = terminal[s]
    PROVE  RowOK(s)'
<1>1. RowOK(s) /\ IInv
  BY Zenon DEF V3IInv, RowsOK
<1>2. height \in Nat /\ height' \in Nat /\ height <= height' /\ session'[s] = session[s]
  BY <1>1, RowsKept, Zenon
<1>3. CASE Pristine(row[s])
  BY <1>1, <1>2, <1>3, RowOKNext, Zenon DEF RowOK
<1>4. CASE AnchorHeight(s) <= height /\ \E q \in Seeds : Answered(q, s, row[s]) /\ AnchorSeed(s) \in {q, NoSeed}
  <2>1. PICK q \in Seeds : Answered(q, s, row[s]) /\ AnchorSeed(s) \in {q, NoSeed}
    BY <1>4, Zenon
  <2>2. (AnchorSeed(s))' \in {AnchorSeed(s), NoSeed}
    BY <1>1, <1>4, SeedFades, Zenon
  <2>3. (AnchorHeight(s))' = AnchorHeight(s)
    BY <1>2, Zenon DEF AnchorHeight
  <2>4. AnchorHeight(s) \in Nat
    BY <1>1, SeedType, RetentionConstants DEF Heights
  <2>5. (AnchorHeight(s))' <= height'
    BY <1>2, <1>4, <2>3, <2>4
  <2>6. Answered(q, s, row[s]) /\ (AnchorSeed(s))' \in {q, NoSeed}
    BY <2>1, <2>2, Zenon
  <2> QED BY <1>1, <1>2, <2>5, <2>6, RowOKNext, Zenon DEF RowOK
<1> QED BY <1>1, <1>3, <1>4, Zenon DEF RowOK, EvidenceOf

\* To ChallengeRetention a response is the completion of the sessions it settled in
\* full, or nothing; each row and its completion marker stay in step.
LEMMA RespondRetention ==
    ASSUME V3IInv, NEW D, NEW upd, ResponseOK(D, upd), Respond(D, upd)
    PROVE  [Next]_retentionVars /\ IInv' /\ RowsOK'
<1> DEFINE P == PaidIn(D, upd)
           after == [s \in Touched(D) |-> Settled(upd[s], PaidSlots(P, s))]
           E == Completing(after)
<1>1. /\ Touched(D) \in SUBSET Stored /\ row' \in [Sessions -> Rows]
      /\ \A s \in Sessions \ Touched(D) : row'[s] = row[s]
      /\ \A s \in Stored : Paid(s, PaidSlots(P, s), row'[s])
      /\ \A s \in Touched(D) : /\ ResponseSeed(s) # NoSeed /\ InWindow(s)
                               /\ Masks(row'[s]) /\ Answered(ResponseSeed(s), s, row'[s])
  <2> HIDE DEF P
  <2>1. P = PaidIn(D, upd)
    BY Zenon DEF P
  <2> QED BY <2>1, RespondRows, Zenon
<1>2. IF E = {} THEN UNCHANGED retentionVars ELSE ReleaseTerminal(E)
  BY Zenon DEF Respond, Touched, PaidIn, PaidSlots
<1>3. Stored \subseteq Sessions /\ Stored \subseteq V3 /\ ~halted /\ IInv /\ height \in Nat
  BY Running
<1>4. row' = [s \in Sessions |-> IF s \in Touched(D) THEN after[s] ELSE row[s]]
  BY Zenon DEF Respond, Touched, PaidIn, PaidSlots
<1>5. E = {s \in Touched(D) : FullySettled(row'[s]) /\ terminal[s] = NoSeed}
  <2>1. \A s \in Touched(D) : after[s] = row'[s]
    BY <1>1, <1>3, <1>4, Zenon
  <2>2. E = {s \in Touched(D) : FullySettled(after[s]) /\ terminal[s] = NoSeed}
    BY Zenon DEF Completing
  <2> HIDE DEF after
  <2> QED BY <2>1, <2>2, Zenon
<1> HIDE DEF P, after, E
<1>6. E \in SUBSET V3 /\ E \subseteq Stored /\ \A s \in E : InWindow(s)
  BY <1>1, <1>3, <1>5, Zenon
<1>7. E # {} => Complete(E)
  BY <1>2, <1>3, <1>6, Zenon DEF Complete
<1>8. [Next]_retentionVars
  BY <1>2, <1>6, <1>7, Zenon DEF Next
<1>9. IInv'
  BY <1>3, <1>8, NextPreserves, Zenon
<1>10. /\ session' = session /\ height' = height
       /\ \A s \in Sessions \ E : terminal'[s] = terminal[s]
       /\ \A s \in E : terminal'[s] # NoSeed
  <2>1. CASE E = {}
    BY <1>2, <2>1, Zenon DEF retentionVars, sessionVars
  <2>2. CASE E # {}
    <3>1. ReleaseTerminal(E)
      BY <1>2, <2>2, Zenon
    <3>2. /\ session' = session /\ height' = height
          /\ \A s \in Sessions : terminal'[s] = IF s \in E THEN anchor[AnchorHeight(s)].seed ELSE terminal[s]
          /\ \A s \in E : anchor[AnchorHeight(s)].seed # NoSeed
      BY <3>1, Zenon DEF ReleaseTerminal, TerminalOK
    <3> QED BY <1>3, <1>6, <3>2, Zenon
  <2> QED BY <2>1, <2>2, Zenon
<1>11. Stored' = Stored
  BY <1>10, Zenon DEF Stored
<1>12. ASSUME NEW s \in Stored, s \notin Touched(D) PROVE RowOK(s)'
  <2>1. row'[s] = row[s] /\ terminal'[s] = terminal[s]
    BY <1>1, <1>3, <1>5, <1>10, <1>12, Zenon
  <2> QED BY <1>8, <1>9, <2>1, RowKept, Zenon
<1>13. ASSUME NEW s \in Touched(D) PROVE RowOK(s)'
  <2> DEFINE x == row'[s]
             q == ResponseSeed(s)
  <2>1. /\ s \in Stored /\ s \in Sessions /\ RowOK(s) /\ InWindow(s)
        /\ Paid(s, PaidSlots(P, s), x) /\ Masks(x) /\ Answered(q, s, x)
    BY <1>1, <1>3, Zenon DEF V3IInv, RowsOK
  <2>2. q \in Seeds /\ q = AnchorSeed(s)
    BY <1>1, <2>1, KnownChallenges, Zenon
  <2>3. x.plan = row[s].plan /\ x.funding = row[s].funding /\ row[s].settled \subseteq x.settled
    BY <2>1, Zenon DEF Paid
  <2>4. FullySettled(row[s]) => FullySettled(x)
    BY <2>3, Zenon DEF FullySettled, Represented
  <2>5. s \in E <=> FullySettled(x) /\ terminal[s] = NoSeed
    BY <1>5, Zenon
  <2>6. terminal'[s] # NoSeed <=> FullySettled(x)
    <3>1. terminal[s] # NoSeed <=> FullySettled(row[s])
      BY <2>1, Zenon DEF RowOK
    <3> HIDE DEF x
    <3> QED BY <1>10, <2>1, <2>4, <2>5, <3>1, Zenon
  <2>7. AnchorHeight(s) <= height
    <3>1. AnchorHeight(s) \in Heights /\ AnchorHeight(s) + 1 = FirstResponse(s) /\ FirstResponse(s) <= height
      <4>1. AnchorHeight(s) \in Heights
        BY <1>3, <2>1, SeedType, Zenon
      <4>2. session[s].opened \in Nat
        BY <1>3, <2>1, RetentionConstants DEF IInv, WindowsOK
      <4> QED BY <2>1, <4>1, <4>2 DEF AnchorHeight, FirstResponse, InWindow
    <3> QED BY <1>3, <3>1, RetentionConstants DEF Heights
  <2>8. (AnchorSeed(s))' \in {q, NoSeed}
    BY <1>3, <1>8, <1>9, <2>1, <2>2, <2>7, SeedFades, Zenon
  <2>9. (AnchorHeight(s))' <= height'
    BY <1>10, <2>7, Zenon DEF AnchorHeight
  <2>10. x.plan \in Plans /\ x.funding \in {"escrow", "requester"} /\ session'[s].deadline <= DealEnd[DealOf(s)]
    BY <1>10, <2>1, <2>3, Zenon DEF RowOK
  <2>11. x = row'[s]
    BY Zenon
  <2> HIDE DEF x, q
  <2> QED BY <2>1, <2>2, <2>6, <2>8, <2>9, <2>10, <2>11, RowOKNext, Zenon
<1>14. \A s \in Sessions \ Stored' : row'[s] = NoRow
  BY <1>1, <1>11, Zenon DEF V3IInv, RowsOK
<1>15. \A s \in Stored' : RowOK(s)'
  BY <1>11, <1>12, <1>13, Zenon
<1>16. RowsOK'
  BY <1>1, <1>14, <1>15, Zenon DEF RowsOK
<1> QED BY <1>8, <1>9, <1>16, Zenon

\* prepareRetrievalSessionV3 and storeRetrievalSessionV3: to ChallengeRetention, an
\* open; a new row beside the others.
LEMMA StoreKeeps ==
    ASSUME V3IInv, NEW s \in V3, NEW plan \in Plans, NEW deadline \in Heights,
           NEW f \in {"escrow", "requester"}, NEW r, r = NewRow(plan, f),
           Prepare(s, deadline), Store(s, r, deadline)
    PROVE  /\ [Next]_retentionVars /\ IInv' /\ RowsOK'
           /\ s \notin Stored /\ Stored' = Stored \cup {s} /\ row[s] = NoRow /\ row'[s] = r
           /\ \A t \in Sessions \ {s} : row'[t] = row[t]
<1> DEFINE d == DealOf(s)
           k == <<d, admitted[d]>>
<1>1. IInv /\ s \in Sessions /\ Stored \subseteq Sessions /\ row \in [Sessions -> Rows]
  BY Running, Zenon DEF V3IInv, RowsOK
<1>2. d \in Deals
  BY V3Constants, SMT DEF DealOf
<1>3. k \in GenKeys
  BY <1>2, SMT DEF V3IInv, DealsOK, GenKeys
<1>4. Open(s, k, deadline)
  BY Zenon DEF Prepare, Store, Open
<1>5. row' = [row EXCEPT ![s] = r]
  BY Zenon DEF Store
<1> HIDE DEF k
<1>6. [Next]_retentionVars
  BY <1>1, <1>3, <1>4, Zenon DEF Next
<1>7. IInv'
  BY <1>1, <1>6, NextPreserves, Zenon
<1>8. /\ s \notin Stored /\ terminal[s] = NoSeed /\ Stored' = Stored \cup {s}
      /\ session'[s] = [stored |-> TRUE, key |-> k, opened |-> height, deadline |-> deadline]
  <2>1. deadline \in Heights
    OBVIOUS
  <2> QED BY ONLY <1>1, <1>3, <1>4, <2>1, OpenEffect
<1>9. terminal' = terminal
  BY <1>4, Zenon DEF Open, Retain
<1>10. row'[s] = r /\ \A t \in Sessions \ {s} : row'[t] = row[t]
  BY <1>1, <1>5, Zenon
<1>11. r \in Rows /\ r.plan = plan /\ r.funding = f /\ Pristine(r) /\ Masks(r) /\ ~FullySettled(r)
  BY NewRowOK, Zenon
<1>12. row' \in [Sessions -> Rows]
  BY <1>1, <1>5, <1>11, Zenon
<1>13. session'[s].deadline <= DealEnd[DealOf(s)]
  <2>1. session'[s].deadline = deadline
    BY <1>8, SMT
  <2> QED BY <2>1, Zenon DEF Prepare
<1>14. RowOK(s)'
  BY <1>8, <1>9, <1>10, <1>11, <1>13, RowOKNext, Zenon
<1>15. \A t \in Stored : RowOK(t)'
  <2> TAKE t \in Stored
  <2>1. row'[t] = row[t] /\ terminal'[t] = terminal[t]
    BY <1>1, <1>8, <1>9, <1>10, Zenon
  <2> QED BY <1>6, <1>7, <2>1, RowKept, Zenon
<1>16. \A t \in Sessions \ Stored : row[t] = NoRow
  BY Zenon DEF V3IInv, RowsOK
<1>17. RowsOK'
  BY <1>8, <1>10, <1>12, <1>14, <1>15, <1>16, Zenon DEF RowsOK
<1> QED BY <1>1, <1>6, <1>7, <1>8, <1>10, <1>16, <1>17, Zenon

\* RefundRetrievalSessionV3 changes one row and nothing of the challenge state: the
\* block that passed the deadline has marked the session expired already.
LEMMA RefundKeeps ==
    ASSUME V3IInv, NEW s \in V3, RefundRetrievalSessionV3(s)
    PROVE  /\ s \in Stored /\ UNCHANGED retentionVars /\ IInv' /\ RowsOK'
           /\ Unresolved(row[s]) # {} /\ row'[s] = Refunded(row[s])
           /\ \A t \in Sessions \ {s} : row'[t] = row[t]
<1>1. IInv /\ Sessions = V3 /\ row \in [Sessions -> Rows]
  BY Running, Zenon DEF V3IInv, RowsOK
<1>2. /\ session[s].stored /\ PastDeadline(s) /\ Unresolved(row[s]) # {}
      /\ row' = [row EXCEPT ![s] = Refunded(row[s])] /\ expired' = expired \cup {s}
      /\ UNCHANGED <<height, halted, session, terminal, anchor, pending, indexVars, genVars, auditVars>>
  BY Zenon DEF RefundRetrievalSessionV3
<1>3. s \in Stored
  BY <1>1, <1>2, Zenon DEF Stored
<1>4. RowOK(s) /\ ~FullySettled(row[s])
  <2>1. RowOK(s)
    BY <1>3, Zenon DEF V3IInv, RowsOK
  <2> QED BY <1>2, <2>1, Zenon DEF FullySettled, Unresolved
<1>5. terminal[s] = NoSeed
  BY <1>4, Zenon DEF RowOK
<1>6. session[s].deadline < height
  <2>1. session[s].deadline \in Heights
    BY <1>1, Zenon DEF IInv, TypeOK, Contexts
  <2>2. height \in Nat /\ session[s].deadline \in Nat
    BY <2>1, Running, RetentionConstants DEF Heights
  <2> QED BY <1>2, <2>2 DEF PastDeadline
<1>7. s \in expired
  BY <1>1, <1>3, <1>5, <1>6, Zenon DEF IInv, MarksOK
<1>8. expired' = expired
  BY <1>2, <1>7, Zenon
<1>9. UNCHANGED retentionVars
  BY <1>2, <1>8, Zenon DEF retentionVars, sessionVars
<1>10. IInv'
  BY <1>1, <1>9, NextPreserves, Zenon
<1> DEFINE x == Refunded(row[s])
<1>11. /\ x \in Rows /\ x.plan = row[s].plan /\ x.funding = row[s].funding /\ Masks(x)
       /\ (Pristine(row[s]) => Pristine(x)) /\ \A q : Answered(q, s, row[s]) => Answered(q, s, x)
       /\ FullySettled(x) <=> FullySettled(row[s])
  BY <1>3, RefundRow, Zenon
<1>12. row'[s] = x /\ \A t \in Sessions \ {s} : row'[t] = row[t]
  BY <1>1, <1>2, Zenon
<1>13. row' \in [Sessions -> Rows]
  BY <1>1, <1>2, <1>11, Zenon
<1> HIDE DEF x
<1>14. Stored' = Stored
  BY <1>2, Zenon DEF Stored
<1>15. \A t \in Stored \ {s} : RowOK(t)'
  <2> TAKE t \in Stored \ {s}
  <2>1. t \in Sessions /\ row'[t] = row[t] /\ terminal'[t] = terminal[t]
    BY <1>2, <1>12, Zenon DEF Stored
  <2> QED BY <1>9, <1>10, <2>1, RowKept, Zenon
<1>16. RowOK(s)'
  <2>1. (AnchorHeight(s))' = AnchorHeight(s) /\ (AnchorSeed(s))' = AnchorSeed(s) /\ height' = height
    BY <1>2, Zenon DEF AnchorHeight, AnchorSeed
  <2>2. \/ Pristine(x)
        \/ /\ (AnchorHeight(s))' <= height'
           /\ \E q \in Seeds : Answered(q, s, x) /\ (AnchorSeed(s))' \in {q, NoSeed}
    BY <1>4, <1>11, <2>1, Zenon DEF RowOK, EvidenceOf
  <2>3. /\ x.plan \in Plans /\ x.funding \in {"escrow", "requester"}
        /\ terminal'[s] # NoSeed <=> FullySettled(x)
        /\ session'[s].deadline <= DealEnd[DealOf(s)]
    BY <1>2, <1>4, <1>11, Zenon DEF RowOK
  <2> QED BY <1>11, <1>12, <2>2, <2>3, RowOKNext, Zenon
<1>17. RowsOK'
  <2>1. \A t \in Sessions \ Stored : row[t] = NoRow
    BY Zenon DEF V3IInv, RowsOK
  <2> QED BY <1>3, <1>12, <1>13, <1>14, <1>15, <1>16, <2>1, Zenon DEF RowsOK
<1> QED BY <1>2, <1>3, <1>9, <1>10, <1>12, <1>17, Zenon DEF x

\* A step that leaves rows and completion markers alone.
LEMMA RowsAlone ==
    ASSUME V3IInv, [Next]_retentionVars, row' = row, terminal' = terminal, session' = session
    PROVE  IInv' /\ RowsOK' /\ Stored' = Stored
<1>1. IInv /\ RowsOK
  BY Zenon DEF V3IInv
<1>2. IInv'
  BY <1>1, NextPreserves, Zenon
<1>3. Stored' = Stored
  BY Zenon DEF Stored
<1>4. \A s \in Stored : RowOK(s)'
  BY <1>2, RowKept, Zenon
<1> QED BY <1>1, <1>2, <1>3, <1>4, Zenon DEF RowsOK

\* Every row can be loaded, so to ChallengeRetention a block is a block.
LEMMA BlockKeeps ==
    ASSUME V3IInv, NEW inv \in Inventories, NEW hash \in Seeds \cup {NoSeed}, BeginBlockV3(inv, hash)
    PROVE  [Next]_retentionVars /\ IInv' /\ RowsOK' /\ Stored' = Stored /\ height' = height + 1
<1>1. IInv /\ height \in Nat
  BY Running, Zenon
<1>2. /\ ~halted /\ height < MaxHeight /\ (inv # {} => IsEpochStart(height + 1))
      /\ IF BeginBlockOK(height + 1, inv, hash) /\ \A s \in Expiring(height + 1) : ValidRow(row[s])
         THEN /\ height' = height + 1
              /\ ProcessRetrievalChallengeState(height + 1, inv, hash)
              /\ UNCHANGED halted
         ELSE /\ halted' = TRUE
              /\ UNCHANGED <<height, sessionVars, anchor, pending, indexVars, genVars, auditVars>>
      /\ row' = row
  BY Zenon DEF BeginBlockV3
<1>3. height + 1 \in Heights
  BY <1>1, <1>2, RetentionConstants DEF Heights
<1>4. BeginBlockOK(height + 1, inv, hash)
  BY <1>1, <1>2, <1>3, BeginBlockAgreed, Zenon
<1>5. \A s \in Expiring(height + 1) : ValidRow(row[s])
  <2>1. Expiring(height + 1) \subseteq Stored
    BY <1>1, <1>3, ExpiringExact, Zenon DEF Retained
  <2> QED BY <2>1, StoredRow, Zenon
<1>6. height' = height + 1 /\ ProcessRetrievalChallengeState(height + 1, inv, hash) /\ UNCHANGED halted
  BY <1>2, <1>4, <1>5, Zenon
<1>7. BeginBlock(inv, hash)
  BY <1>2, <1>4, <1>6, Zenon DEF BeginBlock
<1>8. terminal' = terminal /\ session' = session
  BY <1>6, Zenon DEF ProcessRetrievalChallengeState
<1>9. [Next]_retentionVars
  BY <1>7, Zenon DEF Next
<1> QED BY <1>2, <1>6, <1>8, <1>9, RowsAlone, Zenon

\* UpdateParams, UpdateDealRetrievalPolicy and a new admitted generation reach no
\* stored session.
LEMMA QuietKeeps ==
    ASSUME V3IInv, UNCHANGED <<retentionVars, row>>
    PROVE  [Next]_retentionVars /\ IInv' /\ RowsOK' /\ Stored' = Stored
<1>1. UNCHANGED retentionVars /\ row' = row
  BY Zenon
<1>2. terminal' = terminal /\ session' = session
  BY <1>1, Zenon DEF retentionVars, sessionVars
<1> QED BY <1>1, <1>2, RowsAlone, Zenon

(***************************************************************************)
(* The invariant holds.                                                    *)
(***************************************************************************)
\* A recorded response moves only money, masks and challenge references.
LEMMA RespondLeaves ==
    ASSUME V3IInv, NEW D, NEW upd, ResponseOK(D, upd), Respond(D, upd)
    PROVE  /\ Stored' = Stored /\ session' = session
           /\ UNCHANGED <<lastNonce, admitted, policy, pricing, escrow, usedVouchers>>
<1>1. \E E : UNCHANGED retentionVars \/ ReleaseTerminal(E)
  BY Zenon DEF Respond
<1>2. session' = session
  BY <1>1, Zenon DEF ReleaseTerminal, retentionVars, sessionVars
<1>3. UNCHANGED <<lastNonce, admitted, policy, pricing, escrow, usedVouchers>>
  BY Zenon DEF Respond, dealVars
<1> QED BY <1>2, <1>3, Zenon DEF Stored

\* Opening from escrow keeps the invariant.
LEMMA EscrowOpenInv ==
    ASSUME V3IInv, NEW s \in V3, NEW plan \in Plans, NEW deadline \in Heights,
           OpenRetrievalSessionV3(s, plan, deadline)
    PROVE  V3IInv' /\ [Next]_retentionVars
<1> DEFINE r == NewRow(plan, "escrow")
<1>1. /\ Prepare(s, deadline) /\ Store(s, r, deadline) /\ UNCHANGED <<dealVars, usedVouchers>>
      /\ OwnerOf(s) = DealOwner[DealOf(s)]
  BY Zenon DEF OpenRetrievalSessionV3
<1> HIDE DEF r
<1>2. [Next]_retentionVars /\ IInv' /\ RowsOK' /\ Stored' = Stored \cup {s}
  BY <1>1, StoreKeeps, Zenon DEF r
<1>3. DealsOK'
  BY <1>1, StoreDeals, Zenon
<1>4. MoneyOK'
  BY EscrowOpenKeeps, Zenon
<1>5. VouchersOK'
  <2>1. /\ usedVouchers \subseteq usedVouchers' /\ IsFiniteSet(usedVouchers')
        /\ usedVouchers' \subseteq Deals \X {v.nonce : v \in Vouchers}
    BY <1>1, Zenon DEF V3IInv, VouchersOK
  <2>2. OwnerOf(s) \in Allowed \cup {DealOwner[DealOf(s)]}
    BY <1>1, Zenon
  <2> QED BY <1>2, <2>1, <2>2, InsiderOpens, Zenon
<1> QED BY <1>2, <1>3, <1>4, <1>5, Zenon DEF V3IInv

\* A sponsored open keeps the invariant.
LEMMA SponsoredOpenInv ==
    ASSUME V3IInv, NEW s \in V3, NEW plan \in Plans, NEW deadline \in Heights, NEW cap,
           NEW v \in Vouchers \cup {NoVoucher},
           OpenRetrievalSessionV3Sponsored(s, plan, deadline, cap, v)
    PROVE  V3IInv' /\ [Next]_retentionVars
<1> DEFINE r == NewRow(plan, "requester")
<1>1. Prepare(s, deadline) /\ Store(s, r, deadline) /\ UNCHANGED dealVars
  BY Zenon DEF OpenRetrievalSessionV3Sponsored
<1> HIDE DEF r
<1>2. [Next]_retentionVars /\ IInv' /\ RowsOK'
  BY <1>1, StoreKeeps, Zenon DEF r
<1>3. DealsOK'
  BY <1>1, StoreDeals, Zenon
<1>4. MoneyOK'
  BY SponsoredOpenKeeps, Zenon
<1>5. VouchersOK'
  BY SponsoredVouchers, Zenon
<1> QED BY <1>2, <1>3, <1>4, <1>5, Zenon DEF V3IInv

\* Proofs, batches and acknowledgements keep the invariant.
LEMMA ResponseInv ==
    ASSUME V3IInv, Response
    PROVE  V3IInv' /\ [Next]_retentionVars
<1>1. PICK D, upd : ResponseOK(D, upd) /\ Respond(D, upd)
  BY ResponsesRecorded, Zenon
<1>2. [Next]_retentionVars /\ IInv' /\ RowsOK' /\ MoneyOK'
  BY <1>1, RespondRetention, RespondMoney, Zenon
<1>3. Stored' = Stored /\ UNCHANGED <<lastNonce, admitted, policy, pricing, escrow, usedVouchers>>
  BY <1>1, RespondLeaves, Zenon
<1>4. DealsOK'
  BY <1>3, Zenon DEF V3IInv, DealsOK
<1>5. VouchersOK'
  BY <1>3, VouchersAlone, Zenon
<1> QED BY <1>2, <1>4, <1>5, Zenon DEF V3IInv

\* A refund keeps the invariant.
LEMMA RefundInv ==
    ASSUME V3IInv, NEW s \in V3, RefundRetrievalSessionV3(s)
    PROVE  V3IInv' /\ [Next]_retentionVars
<1>1. UNCHANGED retentionVars /\ IInv' /\ RowsOK'
  BY RefundKeeps, Zenon
<1>2. MoneyOK'
  BY RefundMoney, Zenon
<1>3. UNCHANGED <<lastNonce, dealVars, usedVouchers, session>>
  BY Zenon DEF RefundRetrievalSessionV3
<1>4. DealsOK'
  BY <1>3, Zenon DEF V3IInv, DealsOK, dealVars
<1>5. Stored' = Stored
  BY <1>3, Zenon DEF Stored
<1>6. VouchersOK'
  BY <1>3, <1>5, VouchersAlone, Zenon
<1> QED BY <1>1, <1>2, <1>4, <1>6, Zenon DEF V3IInv

\* A block, a change of parameters or policy and an admitted generation keep the
\* invariant.
LEMMA EnvironmentInv ==
    ASSUME V3IInv,
           \/ \E inv \in Inventories, hash \in Seeds \cup {NoSeed} : BeginBlockV3(inv, hash)
           \/ \E p \in Pricings : UpdateParams(p)
           \/ \E d \in Deals, mode \in Policies : UpdateDealRetrievalPolicy(d, mode)
           \/ \E d \in Deals, g \in Generations : AdmitGeneration(d, g)
           \/ UNCHANGED v3Vars
    PROVE  V3IInv' /\ [Next]_retentionVars
<1>1. ASSUME NEW inv \in Inventories, NEW hash \in Seeds \cup {NoSeed}, BeginBlockV3(inv, hash)
      PROVE  V3IInv' /\ [Next]_retentionVars
  <2>1. [Next]_retentionVars /\ IInv' /\ RowsOK' /\ Stored' = Stored
    BY <1>1, BlockKeeps, Zenon
  <2>2. UNCHANGED <<row, lastNonce, dealVars, moneyVars, usedVouchers>>
    BY <1>1, Zenon DEF BeginBlockV3
  <2>3. MoneyOK' /\ VouchersOK'
    BY <2>1, <2>2, MoneyAlone, VouchersAlone, Zenon
  <2>4. DealsOK'
    BY <2>2, Zenon DEF V3IInv, DealsOK, dealVars
  <2> QED BY <2>1, <2>3, <2>4, Zenon DEF V3IInv
<1>2. ASSUME UNCHANGED <<retentionVars, row, moneyVars, usedVouchers>>, DealsOK'
      PROVE  V3IInv' /\ [Next]_retentionVars
  <2>1. [Next]_retentionVars /\ IInv' /\ RowsOK' /\ Stored' = Stored
    BY <1>2, QuietKeeps, Zenon
  <2>2. MoneyOK' /\ VouchersOK'
    BY <1>2, <2>1, MoneyAlone, VouchersAlone, Zenon
  <2> QED BY <1>2, <2>1, <2>2, Zenon DEF V3IInv
<1>3. ASSUME NEW p \in Pricings, UpdateParams(p)
      PROVE  UNCHANGED <<retentionVars, row, moneyVars, usedVouchers>> /\ DealsOK'
  BY <1>3, Zenon DEF V3IInv, DealsOK, UpdateParams
<1>4. ASSUME NEW d \in Deals, NEW mode \in Policies, UpdateDealRetrievalPolicy(d, mode)
      PROVE  UNCHANGED <<retentionVars, row, moneyVars, usedVouchers>> /\ DealsOK'
  BY <1>4, Zenon DEF V3IInv, DealsOK, UpdateDealRetrievalPolicy
<1>5. ASSUME NEW d \in Deals, NEW g \in Generations, AdmitGeneration(d, g)
      PROVE  UNCHANGED <<retentionVars, row, moneyVars, usedVouchers>> /\ DealsOK'
  BY <1>5, Zenon DEF V3IInv, DealsOK, AdmitGeneration
<1>6. ASSUME UNCHANGED v3Vars
      PROVE  UNCHANGED <<retentionVars, row, moneyVars, usedVouchers>> /\ DealsOK'
  BY <1>6, Zenon DEF V3IInv, DealsOK, v3Vars, dealVars
<1> QED BY <1>1, <1>2, <1>3, <1>4, <1>5, <1>6, Zenon

\* Every step keeps the invariant, and is a step of ChallengeRetention on what
\* concerns challenges.
LEMMA V3NextPreserves ==
    ASSUME V3IInv, [V3Next]_v3Vars
    PROVE  V3IInv' /\ [Next]_retentionVars
<1>1. ASSUME NEW s \in V3, NEW plan \in Plans, NEW deadline \in Heights,
             \/ OpenRetrievalSessionV3(s, plan, deadline)
             \/ \E cap \in FeeCaps, v \in Vouchers \cup {NoVoucher} :
                  OpenRetrievalSessionV3Sponsored(s, plan, deadline, cap, v)
      PROVE  V3IInv' /\ [Next]_retentionVars
  BY <1>1, EscrowOpenInv, SponsoredOpenInv, Zenon
<1>2. ASSUME Response PROVE V3IInv' /\ [Next]_retentionVars
  BY <1>2, ResponseInv, Zenon
<1>3. ASSUME NEW s \in V3, RefundRetrievalSessionV3(s) PROVE V3IInv' /\ [Next]_retentionVars
  BY <1>3, RefundInv, Zenon
<1> QED BY <1>1, <1>2, <1>3, EnvironmentInv, Zenon DEF V3Next, Response

\* The genesis state satisfies the invariant.
LEMMA V3InitInv == V3Init => V3IInv
<1> SUFFICES ASSUME V3Init PROVE V3IInv
  BY Zenon
<1>1. /\ Init /\ row = [s \in Sessions |-> NoRow] /\ lastNonce = [od \in Accounts \X Deals |-> 0]
      /\ admitted = [d \in Deals |-> 1] /\ policy \in [Deals -> Policies] /\ pricing \in Pricings
      /\ escrow = [d \in Deals |-> InitEscrow] /\ bank = [a \in Accounts |-> InitBank]
      /\ module = InitEscrow * Cardinality(Deals) /\ burned = 0 /\ usedVouchers = {}
  BY Zenon DEF V3Init
<1>2. IInv
  BY <1>1, InitInv, Zenon
<1>3. Stored = {}
  BY <1>1, SMT DEF Init, Stored, NoContext
<1>4. RowsOK
  BY <1>1, <1>3, NoRowFields, Zenon DEF RowsOK
<1>5. DealsOK
  BY <1>1, V3Constants, Zenon DEF DealsOK
<1>6. VouchersOK
  <2>1. \A d \in Deals : {s \in Stored : DealOf(s) = d /\ OwnerOf(s) \notin Allowed \cup {DealOwner[d]}} = {}
                         /\ {u \in usedVouchers : u[1] = d} = {}
    BY <1>1, <1>3, Zenon
  <2>2. Cardinality({}) <= Cardinality({}) /\ IsFiniteSet({})
    BY FS_EmptySet
  <2>3. VoucherFundsOneSession
    BY <2>1, <2>2, Zenon DEF VoucherFundsOneSession
  <2> QED BY <1>1, <2>2, <2>3, Zenon DEF VouchersOK
<1>7. MoneyOK
  <2> DEFINE f == [s \in Sessions |-> row[s].locked]
             D == Cardinality(Deals)
             A == Cardinality(Accounts)
             S == Cardinality(Sessions)
  <2>1. /\ IsFiniteSet(Sessions) /\ IsFiniteSet(Deals) /\ IsFiniteSet(Accounts)
        /\ InitBank \in Nat /\ InitEscrow \in Nat /\ InitBank \in Int /\ InitEscrow \in Int /\ 0 \in Int
    BY RetentionConstants, V3Constants
  <2>2. D \in Nat /\ A \in Nat /\ S \in Nat
    BY <2>1, FS_CardinalityType
  <2>3. \A s \in Sessions : f[s] = 0
    BY <1>1, NoRowFields, Zenon
  <2>4. (\A d \in Deals : escrow[d] = InitEscrow) /\ (\A a \in Accounts : bank[a] = InitBank)
    BY <1>1, Zenon
  <2>5. LockedFees = SumFunctionOnSet(f, Sessions)
    BY Zenon DEF LockedFees
  <2> HIDE DEF f
  <2>6. SumFunctionOnSet(f, Sessions) = 0 * S
    BY <2>1, <2>3, SumConstant
  <2>7. SumFunctionOnSet(escrow, Deals) = InitEscrow * D
    BY ONLY <2>1, <2>4, SumConstant
  <2>8. SumFunctionOnSet(bank, Accounts) = InitBank * A
    BY ONLY <2>1, <2>4, SumConstant
  <2>9. escrow \in [Deals -> Nat] /\ bank \in [Accounts -> Nat] /\ burned \in Nat
    BY <1>1, <2>1
  <2>10. module = InitEscrow * D /\ burned = 0
    BY <1>1, Zenon
  <2> HIDE DEF D, A, S
  <2>11. InitEscrow * D \in Nat /\ InitBank * A \in Nat
    BY <2>1, <2>2
  <2> DEFINE x == InitEscrow * D
             y == InitBank * A
  <2>12. LockedFees = 0
    BY <2>2, <2>5, <2>6
  <2> HIDE DEF x, y
  <2>13. /\ module = SumFunctionOnSet(escrow, Deals) + LockedFees
         /\ module + burned + SumFunctionOnSet(bank, Accounts) = y + x
    <3>1. x \in Nat /\ y \in Nat /\ module = x /\ burned = 0
          /\ SumFunctionOnSet(escrow, Deals) = x /\ SumFunctionOnSet(bank, Accounts) = y
      BY <2>7, <2>8, <2>10, <2>11, Zenon DEF x, y
    <3> QED BY <2>12, <3>1
  <2> QED BY <2>9, <2>13, Zenon DEF MoneyOK, x, y, D, A
<1> QED BY <1>2, <1>4, <1>5, <1>6, <1>7, Zenon DEF V3IInv

(***************************************************************************)
(* The theorems.                                                           *)
(***************************************************************************)
\* The inductive invariant of v3 sessions: the retention invariant, rows whose masks,
\* locked fee and evidence agree, balances that add up and vouchers that account for
\* the sessions of outsiders.
THEOREM V3Invariant == V3Spec => []V3IInv
<1>1. V3IInv /\ [V3Next]_v3Vars => V3IInv'
  BY V3NextPreserves, Zenon
<1> QED BY <1>1, V3InitInv, PTL DEF V3Spec

\* No sequence of opens, proofs, batches, acknowledgements, refunds and blocks leaves
\* a row that validateStoredSessionV3 would refuse.
THEOREM RowsLoad == V3Spec => []RowsStayLoadable
BY V3Invariant, RowsLoadable, PTL

\* For every set of sessions, plans and prices the module account is the deal escrows
\* plus the locked fees, and opens, settlements, burns and refunds neither create
\* nor lose a coin.
THEOREM CoinsAddUp == V3Spec => []Conservation
BY V3Invariant, CoinsConserved, PTL

\* An obligation is settled only when it is acknowledged and every opening the seed
\* samples for its slot is accepted, one by one or in batches.
THEOREM PaymentsRest == V3Spec => []PaidOnEvidence
BY V3Invariant, SettledOnEvidence, PTL

\* Without public deals the sessions of outsiders are never more than the vouchers
\* of the deal used up.
THEOREM VouchersAccount == V3Spec => []VoucherFundsOneSession
<1>1. V3IInv => VoucherFundsOneSession
  BY Zenon DEF V3IInv, VouchersOK
<1> QED BY <1>1, V3Invariant, PTL

\* The website's reader accepts every row the chain can hold.
THEOREM RowsReadable == V3Spec => []ClientReadsEveryRow
BY V3Invariant, RowReadable, PTL

\* The challenge references of v3 sessions behave as ChallengeRetention says, so its
\* theorems hold of them: BeginBlock never fails, anchors serve their windows, the
\* seed of a session is stable.
THEOREM SessionsRetain == V3Spec => ImplementsRetention
<1>1. V3Init => Init
  BY Zenon DEF V3Init
<1>2. V3IInv /\ [V3Next]_v3Vars => [Next]_retentionVars
  BY V3NextPreserves, Zenon
<1> QED BY <1>1, <1>2, V3Invariant, PTL DEF V3Spec, ImplementsRetention, Spec

(***************************************************************************)
(* Sessions implement the escrow of obligations.                           *)
(***************************************************************************)
\* Every step of the sessions is a step of the escrow, or leaves it as it is.
LEMMA EscrowSimulated ==
    ASSUME V3IInv, [V3Next]_v3Vars
    PROVE  EscrowStep
<1>0. MoneyOK'
  BY V3NextPreserves, Zenon DEF V3IInv
<1>1. ASSUME NEW s \in V3, NEW plan \in Plans, NEW deadline \in Heights,
             OpenRetrievalSessionV3(s, plan, deadline)
      PROVE  EscrowStep
  <2> DEFINE r == NewRow(plan, "escrow")
  <2>1. Prepare(s, deadline) /\ Store(s, r, deadline)
    BY <1>1, Zenon DEF OpenRetrievalSessionV3
  <2>2. row[s] = NoRow /\ row'[s] = r /\ \A t \in Sessions \ {s} : row'[t] = row[t]
    BY <2>1, StoreKeeps, Zenon
  <2>3. FundO
    BY <1>0, <2>2, OpenFunds, Zenon
  <2> QED BY <2>3, Zenon DEF EscrowStep
<1>2. ASSUME NEW s \in V3, NEW plan \in Plans, NEW deadline \in Heights, NEW cap,
             NEW v \in Vouchers \cup {NoVoucher},
             OpenRetrievalSessionV3Sponsored(s, plan, deadline, cap, v)
      PROVE  EscrowStep
  <2> DEFINE r == NewRow(plan, "requester")
  <2>1. Prepare(s, deadline) /\ Store(s, r, deadline)
    BY <1>2, Zenon DEF OpenRetrievalSessionV3Sponsored
  <2>2. row[s] = NoRow /\ row'[s] = r /\ \A t \in Sessions \ {s} : row'[t] = row[t]
    BY <2>1, StoreKeeps, Zenon
  <2>3. FundO
    BY <1>0, <2>2, OpenFunds, Zenon
  <2> QED BY <2>3, Zenon DEF EscrowStep
<1>3. ASSUME Response PROVE EscrowStep
  <2>1. PICK D, upd : ResponseOK(D, upd) /\ Respond(D, upd)
    BY <1>3, ResponsesRecorded, Zenon
  <2> QED BY <1>0, <2>1, RespondPays, Zenon
<1>4. ASSUME NEW s \in V3, RefundRetrievalSessionV3(s) PROVE EscrowStep
  <2>1. /\ s \in Stored /\ Unresolved(row[s]) # {} /\ row'[s] = Refunded(row[s])
        /\ \A t \in Sessions \ {s} : row'[t] = row[t]
    BY <1>4, RefundKeeps, Zenon
  <2>2. ReturnO
    BY <1>0, <2>1, RefundReturns, Zenon
  <2> QED BY <2>2, Zenon DEF EscrowStep
<1>5. ASSUME UNCHANGED <<row, moneyVars>> PROVE EscrowStep
  BY <1>5, Zenon DEF EscrowStep, moneyVars, DueF, OpenO, PaidO, ReturnedO, HeldO
<1>6. ASSUME NEW inv, NEW hash, BeginBlockV3(inv, hash) PROVE UNCHANGED <<row, moneyVars>>
  BY <1>6, Zenon DEF BeginBlockV3
<1>7. ASSUME NEW p, UpdateParams(p) PROVE UNCHANGED <<row, moneyVars>>
  BY <1>7, Zenon DEF UpdateParams
<1>8. ASSUME NEW d, NEW mode, UpdateDealRetrievalPolicy(d, mode) PROVE UNCHANGED <<row, moneyVars>>
  BY <1>8, Zenon DEF UpdateDealRetrievalPolicy
<1>9. ASSUME NEW d, NEW g, AdmitGeneration(d, g) PROVE UNCHANGED <<row, moneyVars>>
  BY <1>9, Zenon DEF AdmitGeneration
<1>10. UNCHANGED v3Vars => UNCHANGED <<row, moneyVars>>
  BY Zenon DEF v3Vars
<1> QED BY <1>1, <1>2, <1>3, <1>4, <1>5, <1>6, <1>7, <1>8, <1>9, <1>10, Zenon DEF V3Next, Response

\* What the module account holds for sessions is an escrow of independent
\* obligations: an open funds all of its session, and each is then paid out or
\* returned once and in full, whatever order proofs, acknowledgements, blocks and
\* refunds come in.
THEOREM SessionsAreEscrowed == V3Spec => ImplementsEscrow
<1>1. V3IInv /\ [V3Next]_v3Vars => [Escrow!Next]_(Escrow!escrowVars)
  BY EscrowSimulated, EscrowSteps, Zenon
<1> QED BY <1>1, EscrowStart, V3Invariant, PTL DEF V3Spec, ImplementsEscrow, Escrow!Spec

==============================================================================
