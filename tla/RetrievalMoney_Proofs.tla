---------------------- MODULE RetrievalMoney_Proofs ----------------------
(***************************************************************************)
(* The coins and the vouchers of RetrievalSessionV3: what each message moves,*)
(* that nothing is made or lost, and the escrow of obligations it implements.*)
(***************************************************************************)
EXTENDS RetrievalRows_Proofs

(***************************************************************************)
(* The money.                                                              *)
(***************************************************************************)
\* The sets summed over are finite and what is summed are amounts.
LEMMA Amounts ==
    ASSUME V3IInv
    PROVE  /\ IsFiniteSet(Sessions) /\ IsFiniteSet(Slots) /\ IsFiniteSet(Deals) /\ IsFiniteSet(Accounts)
           /\ \A s \in Sessions : row[s].locked \in Nat
           /\ LockedFees \in Nat
           /\ SumFunctionOnSet(escrow, Deals) \in Nat /\ SumFunctionOnSet(bank, Accounts) \in Nat
           /\ module \in Nat
           /\ \A d \in Deals : escrow[d] <= SumFunctionOnSet(escrow, Deals)
<1>1. IsFiniteSet(Sessions) /\ IsFiniteSet(Slots) /\ IsFiniteSet(Deals) /\ IsFiniteSet(Accounts)
  BY RetentionConstants, V3Constants, Zenon
<1>2. \A s \in Sessions : row[s].locked \in Nat
  BY RowFields, Zenon DEF V3IInv, RowsOK
<1>3. LockedFees \in Nat
  <2> DEFINE f == [s \in Sessions |-> row[s].locked]
  <2>1. \A s \in Sessions : f[s] \in Nat
    BY <1>2, Zenon
  <2> HIDE DEF f
  <2>2. SumFunctionOnSet(f, Sessions) \in Nat
    BY <1>1, <2>1, SumType, Zenon
  <2> QED BY <2>2, Zenon DEF LockedFees, f
<1>4. /\ (\A d \in Deals : escrow[d] \in Nat) /\ (\A a \in Accounts : bank[a] \in Nat)
      /\ module = SumFunctionOnSet(escrow, Deals) + LockedFees
  BY Zenon DEF V3IInv, MoneyOK
<1>5. SumFunctionOnSet(escrow, Deals) \in Nat /\ SumFunctionOnSet(bank, Accounts) \in Nat
  BY <1>1, <1>4, SumType, Zenon
<1>6. module \in Nat
  BY <1>3, <1>4, <1>5
<1>7. ASSUME NEW d \in Deals PROVE escrow[d] <= SumFunctionOnSet(escrow, Deals)
  <2>1. SumFunctionOnSet(escrow, Deals) = escrow[d] + SumFunctionOnSet(escrow, Deals \ {d})
    <3>1. \A x \in Deals : escrow[x] \in Int
      BY <1>4
    <3> QED BY <1>1, <3>1, SumAny, Zenon
  <2>2. SumFunctionOnSet(escrow, Deals \ {d}) \in Nat
    <3> DEFINE D == Deals \ {d}
    <3>1. IsFiniteSet(D) /\ \A x \in D : escrow[x] \in Nat
      BY <1>1, <1>4, FS_Subset, Zenon
    <3> HIDE DEF D
    <3>2. SumFunctionOnSet(escrow, D) \in Nat
      BY <3>1, SumType, Zenon
    <3> QED BY <3>2, Zenon DEF D
  <2> QED BY <1>4, <2>1, <2>2
<1> QED BY <1>1, <1>2, <1>3, <1>5, <1>6, <1>7, Zenon

\* One row changes: the locked fees change by what it locks.
LEMMA LockedChange ==
    ASSUME V3IInv, NEW s \in Sessions, row'[s].locked \in Nat,
           \A t \in Sessions \ {s} : row'[t] = row[t]
    PROVE  LockedFees' = LockedFees + (row'[s].locked - row[s].locked)
<1> DEFINE f == [t \in Sessions |-> row[t].locked]
           g == [t \in Sessions |-> row'[t].locked]
<1>1. IsFiniteSet(Sessions) /\ \A t \in Sessions : row[t].locked \in Nat
  BY Amounts, Zenon
<1>2. \A t \in Sessions : f[t] \in Nat /\ g[t] \in Nat /\ (t # s => f[t] = g[t])
  BY <1>1, Zenon
<1>3. f[s] = row[s].locked /\ g[s] = row'[s].locked
  BY Zenon
<1> HIDE DEF f, g
<1>4. Summable(f, Sessions) /\ Summable(g, Sessions)
  BY <1>2 DEF Summable
<1>5. DifferAt(f, g, Sessions, s)
  BY <1>2, Zenon DEF DifferAt
<1>6. SumFunctionOnSet(g, Sessions) = SumFunctionOnSet(f, Sessions) + (g[s] - f[s])
  BY <1>1, <1>4, <1>5, SumChange
<1>7. LockedFees = SumFunctionOnSet(f, Sessions) /\ LockedFees' = SumFunctionOnSet(g, Sessions)
  BY Zenon DEF LockedFees, f, g
<1> QED BY <1>3, <1>6, <1>7, Zenon

\* The balance of x among those of A changes by n.
Moved(f, g, A, x, n) ==
    /\ IsFiniteSet(A) /\ x \in A /\ n \in Int
    /\ f \in [A -> Nat] /\ f[x] + n \in Nat /\ g = [f EXCEPT ![x] = f[x] + n]

\* The balances then add up to n more.
LEMMA BalanceChange ==
    ASSUME NEW A, NEW f, NEW g, NEW x, NEW n, Moved(f, g, A, x, n)
    PROVE  /\ g \in [A -> Nat] /\ g[x] = f[x] + n
           /\ SumFunctionOnSet(g, A) = SumFunctionOnSet(f, A) + n
<1>0. f \in [A -> Nat] /\ IsFiniteSet(A) /\ x \in A /\ n \in Int
  BY Zenon DEF Moved
<1>1. g \in [A -> Nat] /\ g[x] = f[x] + n /\ \A y \in A : y # x => f[y] = g[y]
  BY Zenon DEF Moved
<1>2. Summable(f, A) /\ Summable(g, A)
  BY <1>0, <1>1 DEF Summable
<1>3. DifferAt(f, g, A, x)
  BY <1>1, Zenon DEF DifferAt
<1>4. SumFunctionOnSet(g, A) = SumFunctionOnSet(f, A) + (g[x] - f[x])
  BY ONLY <1>0, <1>2, <1>3, SumChange
<1>5. f[x] \in Nat /\ g[x] - f[x] = n
  BY <1>0, <1>1
<1> QED BY <1>1, <1>4, <1>5, Zenon

\* MsgOpenRetrievalSessionV3: the fees move from the deal's escrow to the session,
\* the base fee is burned.
LEMMA EscrowOpenKeeps ==
    ASSUME V3IInv, NEW s \in V3, NEW plan \in Plans, NEW deadline \in Heights,
           OpenRetrievalSessionV3(s, plan, deadline)
    PROVE  MoneyOK'
<1> DEFINE r == NewRow(plan, "escrow")
           d == DealOf(s)
           b == pricing.base
           total == r.locked + b
<1>1. /\ Prepare(s, deadline) /\ escrow[d] >= total /\ Store(s, r, deadline)
      /\ escrow' = [escrow EXCEPT ![d] = escrow[d] - total] /\ module' = module - b
      /\ burned' = burned + b /\ bank' = bank
  BY Zenon DEF OpenRetrievalSessionV3
<1>2. s \in Sessions /\ d \in Deals
  BY V3Constants, SMT DEF DealOf
<1>3. r \in Rows /\ b \in Nat
  BY NewRowOK, Zenon
<1>4. r.locked \in Nat
  BY <1>3, RowFields, Zenon
<1>5. row[s].locked = 0 /\ row'[s] = r /\ \A t \in Sessions \ {s} : row'[t] = row[t]
  BY <1>1, StoreRow, NoRowFields, Zenon
<1>6. LockedFees' = LockedFees + (row'[s].locked - row[s].locked)
  BY <1>2, <1>4, <1>5, LockedChange, Zenon
<1>7. /\ escrow \in [Deals -> Nat] /\ bank \in [Accounts -> Nat] /\ burned \in Nat
      /\ module = SumFunctionOnSet(escrow, Deals) + LockedFees
      /\ module + burned + SumFunctionOnSet(bank, Accounts)
           = InitBank * Cardinality(Accounts) + InitEscrow * Cardinality(Deals)
  BY Zenon DEF V3IInv, MoneyOK
<1>8. /\ IsFiniteSet(Deals) /\ LockedFees \in Nat /\ module \in Nat
      /\ SumFunctionOnSet(escrow, Deals) \in Nat /\ SumFunctionOnSet(bank, Accounts) \in Nat
  BY Amounts, Zenon
<1> DEFINE n == - total
           Start == InitBank * Cardinality(Accounts) + InitEscrow * Cardinality(Deals)
<1> HIDE DEF r, d, b
<1>9. n \in Int /\ escrow[d] + n \in Nat /\ escrow[d] - total = escrow[d] + n
  BY <1>1, <1>2, <1>3, <1>4, <1>7
<1>10. escrow' = [escrow EXCEPT ![d] = escrow[d] + n]
  BY <1>1, <1>9, Zenon
<1> HIDE DEF n
<1>11. escrow' \in [Deals -> Nat] /\ SumFunctionOnSet(escrow', Deals) = SumFunctionOnSet(escrow, Deals) + n
  <2>1. Moved(escrow, escrow', Deals, d, n)
    BY <1>2, <1>7, <1>8, <1>9, <1>10, Zenon DEF Moved
  <2> QED BY ONLY <2>1, BalanceChange, SMT
<1>12. module' = SumFunctionOnSet(escrow', Deals) + LockedFees'
  BY <1>1, <1>3, <1>4, <1>5, <1>6, <1>7, <1>8, <1>11 DEF n
<1> HIDE DEF Start
<1>13. module + burned + SumFunctionOnSet(bank, Accounts) = Start
  BY <1>7, Zenon DEF Start
<1>14. module' + burned' + SumFunctionOnSet(bank', Accounts) = Start /\ burned' \in Nat
  BY <1>1, <1>3, <1>7, <1>8, <1>13
<1>15. bank' \in [Accounts -> Nat]
  BY <1>1, <1>7, Zenon
<1> QED BY <1>11, <1>12, <1>14, <1>15, Zenon DEF MoneyOK, Start

\* MsgOpenRetrievalSessionV3Sponsored: the requester pays the fees into the module
\* account and the base fee to be burned.
LEMMA SponsoredOpenKeeps ==
    ASSUME V3IInv, NEW s \in V3, NEW plan \in Plans, NEW deadline \in Heights, NEW cap, NEW v,
           OpenRetrievalSessionV3Sponsored(s, plan, deadline, cap, v)
    PROVE  MoneyOK'
<1> DEFINE r == NewRow(plan, "requester")
           o == OwnerOf(s)
           b == pricing.base
           total == r.locked + b
<1>1. /\ Prepare(s, deadline) /\ bank[o] >= total /\ Store(s, r, deadline)
      /\ bank' = [bank EXCEPT ![o] = bank[o] - total] /\ module' = module + r.locked
      /\ burned' = burned + b /\ escrow' = escrow
  BY Zenon DEF OpenRetrievalSessionV3Sponsored
<1>2. s \in Sessions /\ o \in Accounts
  BY V3Constants, SMT DEF OwnerOf
<1>3. r \in Rows /\ b \in Nat
  BY NewRowOK, Zenon
<1>4. r.locked \in Nat
  BY <1>3, RowFields, Zenon
<1>5. row[s].locked = 0 /\ row'[s] = r /\ \A t \in Sessions \ {s} : row'[t] = row[t]
  BY <1>1, StoreRow, NoRowFields, Zenon
<1>6. LockedFees' = LockedFees + (row'[s].locked - row[s].locked)
  BY <1>2, <1>4, <1>5, LockedChange, Zenon
<1>7. /\ escrow \in [Deals -> Nat] /\ bank \in [Accounts -> Nat] /\ burned \in Nat
      /\ module = SumFunctionOnSet(escrow, Deals) + LockedFees
      /\ module + burned + SumFunctionOnSet(bank, Accounts)
           = InitBank * Cardinality(Accounts) + InitEscrow * Cardinality(Deals)
  BY Zenon DEF V3IInv, MoneyOK
<1>8. /\ IsFiniteSet(Accounts) /\ LockedFees \in Nat /\ module \in Nat
      /\ SumFunctionOnSet(escrow, Deals) \in Nat /\ SumFunctionOnSet(bank, Accounts) \in Nat
  BY Amounts, Zenon
<1> DEFINE n == - total
           Start == InitBank * Cardinality(Accounts) + InitEscrow * Cardinality(Deals)
<1> HIDE DEF r, o, b
<1>9. n \in Int /\ bank[o] + n \in Nat /\ bank[o] - total = bank[o] + n
  BY <1>1, <1>2, <1>3, <1>4, <1>7
<1>10. bank' = [bank EXCEPT ![o] = bank[o] + n]
  BY <1>1, <1>9, Zenon
<1> HIDE DEF n
<1>11. bank' \in [Accounts -> Nat] /\ SumFunctionOnSet(bank', Accounts) = SumFunctionOnSet(bank, Accounts) + n
  <2>1. Moved(bank, bank', Accounts, o, n)
    BY <1>2, <1>7, <1>8, <1>9, <1>10, Zenon DEF Moved
  <2> QED BY ONLY <2>1, BalanceChange, SMT
<1>12. SumFunctionOnSet(escrow', Deals) = SumFunctionOnSet(escrow, Deals) /\ escrow' \in [Deals -> Nat]
  BY <1>1, <1>7, Zenon
<1>13. module' = SumFunctionOnSet(escrow', Deals) + LockedFees'
  BY <1>1, <1>3, <1>4, <1>5, <1>6, <1>7, <1>8, <1>12
<1> HIDE DEF Start
<1>14. module + burned + SumFunctionOnSet(bank, Accounts) = Start
  BY <1>7, Zenon DEF Start
<1>15. module' + burned' + SumFunctionOnSet(bank', Accounts) = Start /\ burned' \in Nat
  BY <1>1, <1>3, <1>4, <1>7, <1>8, <1>11, <1>14 DEF n
<1> QED BY <1>11, <1>12, <1>13, <1>15, Zenon DEF MoneyOK, Start

\* A refund moves the unresolved fees back to where they came from.
LEMMA RefundMoney ==
    ASSUME V3IInv, NEW s \in V3, RefundRetrievalSessionV3(s)
    PROVE  MoneyOK'
<1> DEFINE r == row[s]
           n == FeeSum(r, Unresolved(r))
           d == DealOf(s)
           o == OwnerOf(s)
           Start == InitBank * Cardinality(Accounts) + InitEscrow * Cardinality(Deals)
<1>1. /\ burned' = burned
      /\ \/ escrow' = [escrow EXCEPT ![d] = escrow[d] + n] /\ UNCHANGED <<bank, module>>
         \/ bank' = [bank EXCEPT ![o] = bank[o] + n] /\ module' = module - n /\ escrow' = escrow
  BY Zenon DEF RefundRetrievalSessionV3
<1>2. s \in Sessions /\ d \in Deals /\ o \in Accounts
  BY V3Constants, SMT DEF DealOf, OwnerOf
<1>3. /\ s \in Stored /\ row'[s] = Refunded(r) /\ \A t \in Sessions \ {s} : row'[t] = row[t]
  BY RefundTouches, Zenon
<1>4. row'[s].locked = 0 /\ r.locked = n
  BY <1>3, RefundRow, Zenon
<1>5. n \in Nat
  BY <1>2, <1>4, Amounts, Zenon
<1>6. LockedFees' = LockedFees + (row'[s].locked - r.locked)
  BY <1>2, <1>3, <1>4, LockedChange
<1>7. /\ escrow \in [Deals -> Nat] /\ bank \in [Accounts -> Nat] /\ burned \in Nat
      /\ module = SumFunctionOnSet(escrow, Deals) + LockedFees
      /\ module + burned + SumFunctionOnSet(bank, Accounts) = Start
  BY Zenon DEF V3IInv, MoneyOK
<1>8. /\ IsFiniteSet(Deals) /\ IsFiniteSet(Accounts) /\ LockedFees \in Nat /\ module \in Nat
      /\ SumFunctionOnSet(escrow, Deals) \in Nat /\ SumFunctionOnSet(bank, Accounts) \in Nat
  BY Amounts, Zenon
<1> HIDE DEF Start, n, r, d, o
<1>9. n \in Int /\ escrow[d] + n \in Nat /\ bank[o] + n \in Nat
  BY <1>2, <1>5, <1>7
<1>10. CASE escrow' = [escrow EXCEPT ![d] = escrow[d] + n] /\ UNCHANGED <<bank, module>>
  <2>1. escrow' \in [Deals -> Nat] /\ SumFunctionOnSet(escrow', Deals) = SumFunctionOnSet(escrow, Deals) + n
    <3>1. Moved(escrow, escrow', Deals, d, n)
      BY <1>2, <1>7, <1>8, <1>9, <1>10, Zenon DEF Moved
    <3> QED BY ONLY <3>1, BalanceChange, SMT
  <2>2. bank' = bank /\ module' = module
    BY <1>10, Zenon
  <2>3. module' = SumFunctionOnSet(escrow', Deals) + LockedFees'
    BY <1>4, <1>5, <1>6, <1>7, <1>8, <2>1, <2>2
  <2> QED BY <1>1, <1>7, <2>1, <2>2, <2>3, Zenon DEF MoneyOK, Start
<1>11. CASE bank' = [bank EXCEPT ![o] = bank[o] + n] /\ module' = module - n /\ escrow' = escrow
  <2>1. bank' \in [Accounts -> Nat] /\ SumFunctionOnSet(bank', Accounts) = SumFunctionOnSet(bank, Accounts) + n
    <3>1. Moved(bank, bank', Accounts, o, n)
      BY <1>2, <1>7, <1>8, <1>9, <1>11, Zenon DEF Moved
    <3> QED BY ONLY <3>1, BalanceChange, SMT
  <2>2. escrow' = escrow /\ module' = module - n
    BY <1>11, Zenon
  <2>3. SumFunctionOnSet(escrow', Deals) = SumFunctionOnSet(escrow, Deals)
    BY <2>2, Zenon
  <2>4. module' = SumFunctionOnSet(escrow', Deals) + LockedFees'
    BY <1>4, <1>5, <1>6, <1>7, <1>8, <2>2, <2>3
  <2>5. module' + burned' + SumFunctionOnSet(bank', Accounts) = Start
    BY <1>1, <1>5, <1>7, <1>8, <2>1, <2>2
  <2> QED BY <1>1, <1>7, <2>1, <2>2, <2>4, <2>5, Zenon DEF MoneyOK, Start
<1> QED BY <1>1, <1>10, <1>11, Zenon

\* A set of open obligations, and what paying each moves.
OpenObligations(P) ==
    /\ P \in SUBSET (Stored \X Slots) /\ IsFiniteSet(P)
    /\ \A p \in P : p[2] \in Unresolved(row[p[1]])

FeeOf(P) == [p \in P |-> Fee(row[p[1]], p[2])]

BurnOf(P) == [p \in P |-> Burn(row[p[1]], p[2])]

NetOf(P) == [p \in P |-> FeeOf(P)[p] - BurnOf(P)[p]]

\* A response pays open obligations.
LEMMA RespondPaysOpen ==
    ASSUME V3IInv, NEW D, NEW upd, ResponseOK(D, upd), Respond(D, upd)
    PROVE  OpenObligations(PaidIn(D, upd))
<1> DEFINE P == PaidIn(D, upd)
<1>1. /\ P \in SUBSET (Stored \X Slots) /\ IsFiniteSet(P)
      /\ \A s \in Stored : Paid(s, PaidSlots(P, s), row'[s])
  BY RespondRows, Zenon
<1>2. ASSUME NEW p \in P PROVE p[2] \in Unresolved(row[p[1]])
  <2>1. p[1] \in Stored /\ p[2] \in Slots /\ <<p[1], p[2]>> = p
    BY <1>1, <1>2, SMT
  <2>2. p[2] \in PaidSlots(P, p[1])
    BY <1>2, <2>1, Zenon DEF PaidSlots
  <2> QED BY <1>1, <2>1, <2>2, Zenon DEF Paid
<1> QED BY <1>1, <1>2, Zenon DEF OpenObligations

\* Each payment splits the frozen fee into a burn and a net amount, for an account.
LEMMA PaymentSplit ==
    ASSUME V3IInv, NEW P, OpenObligations(P), NEW p \in P
    PROVE  /\ FeeOf(P)[p] \in Nat /\ BurnOf(P)[p] \in Nat /\ NetOf(P)[p] \in Nat
           /\ FeeOf(P)[p] = NetOf(P)[p] + BurnOf(P)[p]
           /\ Payee(p[1], p[2]) \in Accounts
           /\ p[1] \in Stored /\ p[2] \in Slots /\ p[2] \in Unresolved(row[p[1]]) /\ <<p[1], p[2]>> = p
<1> DEFINE s == p[1]
           i == p[2]
           r == row[s]
<1>1. s \in Stored /\ i \in Slots /\ <<s, i>> = p
  <2>1. p \in Stored \X Slots
    BY Zenon DEF OpenObligations
  <2> QED BY <2>1, SMT
<1>2. i \in Unresolved(r)
  BY Zenon DEF OpenObligations
<1>3. r \in Rows /\ r.plan \in Plans
  BY <1>1, StoredRow, Zenon
<1>4. Fee(r, i) \in Nat
  <2>1. Unresolved(r) \in SUBSET Represented(r)
    BY Zenon DEF Unresolved
  <2>2. \A j \in Unresolved(r) : Fee(r, j) \in Nat
    BY <1>3, <2>1, FeeParts, Zenon
  <2> QED BY <1>2, <2>2, Zenon
<1>5. r.burn \in 0..BasisPoints
  BY <1>3, RowFields, Zenon
<1>6. Burn(r, i) \in Nat /\ Burn(r, i) <= Fee(r, i)
  BY <1>4, <1>5, BurnWithinFee, Zenon DEF Burn
<1>7. FeeOf(P)[p] = Fee(r, i) /\ BurnOf(P)[p] = Burn(r, i) /\ NetOf(P)[p] = FeeOf(P)[p] - BurnOf(P)[p]
  BY Zenon DEF FeeOf, BurnOf, NetOf
<1>8. Payee(s, i) \in Accounts
  <2>1. session[s].key \in GenKeys
    BY <1>1, Running, Zenon DEF IInv, TypeOK, Contexts
  <2> QED BY <1>1, <2>1, V3Constants, Zenon DEF Payee
<1> HIDE DEF s, i, r
<1>9. FeeOf(P)[p] \in Nat /\ BurnOf(P)[p] \in Nat /\ NetOf(P)[p] \in Nat
      /\ FeeOf(P)[p] = NetOf(P)[p] + BurnOf(P)[p]
  BY <1>4, <1>6, <1>7
<1> QED BY <1>1, <1>2, <1>8, <1>9, Zenon DEF s, i, r

\* What a batch pays is the sum over its sessions.
LEMMA PaidBySession ==
    ASSUME V3IInv, NEW P, OpenObligations(P), NEW s \in Stored
    PROVE  /\ FeeSum(row[s], PaidSlots(P, s)) = SumFunctionOnSet(FeeOf(P), {p \in P : p[1] = s})
           /\ FeeSum(row[s], PaidSlots(P, s)) \in Nat
<1> DEFINE I == PaidSlots(P, s)
           h == [i \in I |-> <<s, i>>]
           f == FeeOf(P)
           g == [i \in I |-> Fee(row[s], i)]
           Of == {p \in P : p[1] = s}
<1>1. \A p \in P : f[p] \in Nat /\ p[2] \in Slots /\ <<p[1], p[2]>> = p /\ f[p] = Fee(row[p[1]], p[2])
  BY PaymentSplit, Zenon DEF FeeOf
<1>2. I \in SUBSET Slots /\ \A i \in I : h[i] \in P /\ h[i][1] = s /\ h[i][2] = i
  BY SMT DEF PaidSlots
<1>3. IsFiniteSet(I)
  BY <1>2, RetentionConstants, FS_Subset, Zenon
<1>4. {h[i] : i \in I} = Of
  <2>1. ASSUME NEW p \in Of PROVE p[2] \in I /\ h[p[2]] = p
    <3>1. p[2] \in Slots /\ <<s, p[2]>> = p /\ p \in P
      BY <1>1, <2>1, Zenon
    <3> QED BY <3>1, Zenon DEF PaidSlots
  <2>2. \A i \in I : h[i] \in Of
    BY <1>2, Zenon
  <2> HIDE DEF I, h, Of
  <2> QED BY <2>1, <2>2, Zenon
<1>5. \A i \in I : g[i] \in Int /\ f[h[i]] = g[i]
  <2> TAKE i \in I
  <2>1. h[i] \in P /\ h[i][1] = s /\ h[i][2] = i /\ g[i] = Fee(row[s], i)
    BY <1>2, Zenon
  <2>2. f[h[i]] \in Nat /\ f[h[i]] = g[i]
    BY <1>1, <2>1, Zenon
  <2> QED BY <2>2
<1>6. \A i, j \in I : h[i] = h[j] => i = j
  BY <1>2, Zenon
<1>7. FeeSum(row[s], I) = SumFunctionOnSet(g, I)
  BY Zenon DEF FeeSum
<1>8. \A i \in I : g[i] \in Nat
  BY <1>1, <1>2, <1>5, Zenon
<1> HIDE DEF I, h, f, g, Of
<1>9. Renames(f, h, g, I)
  BY <1>5, <1>6, Zenon DEF Renames
<1>10. SumFunctionOnSet(f, {h[i] : i \in I}) = SumFunctionOnSet(g, I)
  BY <1>3, <1>9, SumRenamed, Zenon
<1>11. SumFunctionOnSet(g, I) \in Nat
  BY <1>3, <1>8, SumType, Zenon
<1>12. FeeSum(row[s], I) = SumFunctionOnSet(f, Of) /\ FeeSum(row[s], I) \in Nat
  BY <1>4, <1>7, <1>10, <1>11, Zenon
<1> QED BY <1>12, Zenon DEF I, f, Of

\* The locked fees fall by what a response pays.
LEMMA LockedFalls ==
    ASSUME V3IInv, NEW D, NEW upd, ResponseOK(D, upd), Respond(D, upd), NEW P, P = PaidIn(D, upd)
    PROVE  LockedFees' \in Nat /\ LockedFees = LockedFees' + SumFunctionOnSet(FeeOf(P), P)
<1> DEFINE f == [s \in Sessions |-> row[s].locked]
           g == [s \in Sessions |-> row'[s].locked]
           part == [s \in Sessions |-> SumFunctionOnSet(FeeOf(P), {p \in P : p[1] = s})]
           key == [p \in P |-> p[1]]
<1>1. OpenObligations(P)
  BY RespondPaysOpen, Zenon
<1>2. /\ IsFiniteSet(P) /\ IsFiniteSet(Sessions) /\ row' \in [Sessions -> Rows]
      /\ Touched(D) \in SUBSET Stored
      /\ \A s \in Sessions \ Touched(D) : row'[s] = row[s] /\ PaidSlots(P, s) = {}
      /\ \A s \in Stored : Paid(s, PaidSlots(P, s), row'[s])
      /\ \A s \in Sessions : row[s].locked \in Nat
  BY RespondRows, Amounts, Zenon
<1>3. \A p \in P : FeeOf(P)[p] \in Nat /\ p[1] \in Sessions /\ p[1] \in Stored /\ p[2] \in Slots /\ <<p[1], p[2]>> = p
  BY <1>1, PaymentSplit, Running, Zenon
<1>4. \A s \in Sessions : row'[s].locked \in Nat
  BY <1>2, RowFields, Zenon
<1>5. ASSUME NEW s \in Sessions
      PROVE  part[s] \in Nat /\ f[s] = g[s] + part[s]
  <2>1. f[s] = row[s].locked /\ g[s] = row'[s].locked /\ part[s] = SumFunctionOnSet(FeeOf(P), {p \in P : p[1] = s})
    BY Zenon
  <2>2. CASE s \in Stored
    <3>1. part[s] = FeeSum(row[s], PaidSlots(P, s)) /\ part[s] \in Nat
      BY <1>1, <2>1, <2>2, PaidBySession, Zenon
    <3>2. row'[s].locked = row[s].locked - FeeSum(row[s], PaidSlots(P, s))
      BY <1>2, <2>2, Zenon DEF Paid
    <3> HIDE DEF f, g, part
    <3> QED BY <1>2, <1>4, <2>1, <3>1, <3>2
  <2>3. CASE s \notin Stored
    <3>1. {p \in P : p[1] = s} = {}
      BY <1>3, <2>3, Zenon
    <3>2. SumFunctionOnSet(FeeOf(P), {}) = 0
      BY <1>2, SumRec, Zenon
    <3>3. row'[s] = row[s]
      BY <1>2, <2>3, Zenon
    <3>4. part[s] = 0
      BY <2>1, <3>1, <3>2, Zenon
    <3> HIDE DEF f, g, part
    <3> QED BY <1>2, <2>1, <3>3, <3>4
  <2> QED BY <2>2, <2>3
<1>6. \A s \in Sessions : g[s] \in Nat
  BY <1>4, Zenon
<1>7. Grouped(FeeOf(P), key, part, P, Sessions)
  <2>1. \A p \in P : FeeOf(P)[p] \in Int /\ key[p] \in Sessions
    <3> HIDE DEF key
    <3>1. \A p \in P : key[p] = p[1]
      BY Zenon DEF key
    <3> QED BY <1>3, <3>1
  <2>2. \A s \in Sessions : part[s] = SumFunctionOnSet(FeeOf(P), {p \in P : key[p] = s})
    <3> TAKE s \in Sessions
    <3>1. {p \in P : key[p] = s} = {p \in P : p[1] = s}
      BY Zenon
    <3> QED BY <3>1, Zenon
  <2> QED BY <2>1, <2>2, Zenon DEF Grouped
<1>8. LockedFees = SumFunctionOnSet(f, Sessions) /\ LockedFees' = SumFunctionOnSet(g, Sessions)
  BY Zenon DEF LockedFees
<1> HIDE DEF f, g, part, key
<1>9. SumFunctionOnSet(part, Sessions) = SumFunctionOnSet(FeeOf(P), P)
  BY ONLY <1>2, <1>7, SumByKey
<1>10. AddsUp(g, part, f, Sessions)
  BY <1>5, <1>6 DEF AddsUp
<1>11. SumFunctionOnSet(f, Sessions) = SumFunctionOnSet(g, Sessions) + SumFunctionOnSet(part, Sessions)
  BY <1>2, <1>10, SumPlus, Zenon
<1>12. SumFunctionOnSet(g, Sessions) \in Nat
  BY <1>2, <1>6, SumType, Zenon
<1> QED BY <1>8, <1>9, <1>11, <1>12, Zenon

\* The accounts gain what is paid and not burned.
LEMMA BankGains ==
    ASSUME V3IInv, NEW P, OpenObligations(P),
           bank' = [a \in Accounts |->
                       bank[a] + SumFunctionOnSet(NetOf(P), {p \in P : Payee(p[1], p[2]) = a})]
    PROVE  /\ bank' \in [Accounts -> Nat]
           /\ SumFunctionOnSet(bank', Accounts) = SumFunctionOnSet(bank, Accounts) + SumFunctionOnSet(NetOf(P), P)
<1> DEFINE gain == [a \in Accounts |-> SumFunctionOnSet(NetOf(P), {p \in P : Payee(p[1], p[2]) = a})]
           key == [p \in P |-> Payee(p[1], p[2])]
           new == bank'
<1>1. IsFiniteSet(P) /\ IsFiniteSet(Accounts)
  BY Amounts, Zenon DEF OpenObligations
<1>2. \A p \in P : NetOf(P)[p] \in Nat /\ key[p] \in Accounts
  BY PaymentSplit, Zenon
<1>3. \A a \in Accounts : bank[a] \in Nat
  BY Zenon DEF V3IInv, MoneyOK
<1>4. \A a \in Accounts : gain[a] \in Nat
  <2> TAKE a \in Accounts
  <2> DEFINE Q == {p \in P : Payee(p[1], p[2]) = a}
  <2>1. IsFiniteSet(Q) /\ \A p \in Q : NetOf(P)[p] \in Nat
    BY <1>1, <1>2, FS_Subset, Zenon
  <2>2. gain[a] = SumFunctionOnSet(NetOf(P), Q)
    BY Zenon
  <2> HIDE DEF Q, gain
  <2>3. SumFunctionOnSet(NetOf(P), Q) \in Nat
    BY <2>1, SumType, Zenon
  <2> QED BY <2>2, <2>3, Zenon
<1>5. \A a \in Accounts : new[a] = bank[a] + gain[a]
  BY Zenon
<1>6. Grouped(NetOf(P), key, gain, P, Accounts)
  <2>1. \A p \in P : NetOf(P)[p] \in Int /\ key[p] \in Accounts
    <3> HIDE DEF key
    <3> QED BY <1>2
  <2>2. \A a \in Accounts : gain[a] = SumFunctionOnSet(NetOf(P), {p \in P : key[p] = a})
    <3> TAKE a \in Accounts
    <3>1. {p \in P : key[p] = a} = {p \in P : Payee(p[1], p[2]) = a}
      BY Zenon
    <3> QED BY <3>1, Zenon
  <2> QED BY <2>1, <2>2, Zenon DEF Grouped
<1>7. new = [a \in Accounts |-> new[a]]
  BY Zenon
<1> HIDE DEF gain, key, new
<1>8. SumFunctionOnSet(gain, Accounts) = SumFunctionOnSet(NetOf(P), P)
  BY ONLY <1>1, <1>6, SumByKey
<1>9. AddsUp(bank, gain, new, Accounts)
  BY <1>3, <1>4, <1>5 DEF AddsUp
<1>10. SumFunctionOnSet(new, Accounts) = SumFunctionOnSet(bank, Accounts) + SumFunctionOnSet(gain, Accounts)
  BY <1>1, <1>9, SumPlus, Zenon
<1>11. \A a \in Accounts : new[a] \in Nat
  BY <1>3, <1>4, <1>5
<1>12. new \in [Accounts -> Nat]
  BY <1>7, <1>11, Zenon
<1> QED BY <1>8, <1>10, <1>12, Zenon DEF new

\* Settlement: the fees paid leave the module account, in part burned, the rest to
\* the providers' accounts.
LEMMA RespondMoney ==
    ASSUME V3IInv, NEW D, NEW upd, ResponseOK(D, upd), Respond(D, upd)
    PROVE  MoneyOK'
<1> DEFINE P == PaidIn(D, upd)
           F == SumFunctionOnSet(FeeOf(P), P)
           B == SumFunctionOnSet(BurnOf(P), P)
           N == SumFunctionOnSet(NetOf(P), P)
           Start == InitBank * Cardinality(Accounts) + InitEscrow * Cardinality(Deals)
<1>1. OpenObligations(P)
  BY RespondPaysOpen, Zenon
<1>2. /\ burned' = burned + B /\ module' = module - F /\ escrow' = escrow
      /\ bank' = [a \in Accounts |->
                     bank[a] + SumFunctionOnSet(NetOf(P), {p \in P : Payee(p[1], p[2]) = a})]
  BY Zenon DEF Respond, PaidIn, FeeOf, BurnOf, NetOf
<1>3. LockedFees' \in Nat /\ LockedFees = LockedFees' + F
  BY LockedFalls, Zenon
<1>4. bank' \in [Accounts -> Nat] /\ SumFunctionOnSet(bank', Accounts) = SumFunctionOnSet(bank, Accounts) + N
  BY <1>1, <1>2, BankGains, Zenon
<1>5. F \in Nat /\ B \in Nat /\ N \in Nat /\ F = N + B
  <2> HIDE DEF P
  <2>1. IsFiniteSet(P)
    BY <1>1, Zenon DEF OpenObligations
  <2>2. \A p \in P : /\ FeeOf(P)[p] \in Nat /\ BurnOf(P)[p] \in Nat /\ NetOf(P)[p] \in Nat
                     /\ FeeOf(P)[p] = NetOf(P)[p] + BurnOf(P)[p]
    BY <1>1, PaymentSplit, Zenon
  <2> DEFINE f == FeeOf(P)
             b == BurnOf(P)
             n == NetOf(P)
  <2>3. \A p \in P : f[p] \in Nat /\ b[p] \in Nat /\ n[p] \in Nat /\ f[p] = n[p] + b[p]
    BY <2>2, Zenon
  <2> HIDE DEF f, b, n
  <2>4. AddsUp(n, b, f, P)
    BY <2>3 DEF AddsUp
  <2>5. SumFunctionOnSet(f, P) = SumFunctionOnSet(n, P) + SumFunctionOnSet(b, P)
    BY <2>1, <2>4, SumPlus, Zenon
  <2>6. SumFunctionOnSet(f, P) \in Nat /\ SumFunctionOnSet(b, P) \in Nat /\ SumFunctionOnSet(n, P) \in Nat
    BY <2>1, <2>3, SumType, Zenon
  <2> QED BY <2>5, <2>6, Zenon DEF f, b, n
<1>6. /\ escrow \in [Deals -> Nat] /\ burned \in Nat
      /\ module = SumFunctionOnSet(escrow, Deals) + LockedFees
      /\ module + burned + SumFunctionOnSet(bank, Accounts) = Start
  BY Zenon DEF V3IInv, MoneyOK
<1>7. /\ SumFunctionOnSet(escrow, Deals) \in Nat /\ SumFunctionOnSet(bank, Accounts) \in Nat
      /\ module \in Nat
  BY Amounts, Zenon
<1>8. SumFunctionOnSet(escrow', Deals) = SumFunctionOnSet(escrow, Deals) /\ escrow' \in [Deals -> Nat]
  BY <1>2, <1>6, Zenon
<1> HIDE DEF P, F, B, N, Start
<1>9. module' = SumFunctionOnSet(escrow', Deals) + LockedFees'
  BY <1>2, <1>3, <1>5, <1>6, <1>7, <1>8
<1>10. module' + burned' + SumFunctionOnSet(bank', Accounts) = Start /\ burned' \in Nat
  BY <1>2, <1>4, <1>5, <1>6, <1>7
<1> QED BY <1>4, <1>8, <1>9, <1>10, Zenon DEF MoneyOK, Start

\* A step that leaves the rows and the money alone keeps their account.
LEMMA MoneyAlone ==
    ASSUME V3IInv, UNCHANGED <<row, moneyVars>>
    PROVE  MoneyOK'
<1>1. row' = row /\ escrow' = escrow /\ bank' = bank /\ module' = module /\ burned' = burned
  BY Zenon DEF moneyVars
<1>2. LockedFees' = LockedFees
  BY <1>1, Zenon DEF LockedFees
<1> QED BY <1>1, <1>2, Zenon DEF V3IInv, MoneyOK

\* The fees locked by the rows of stored sessions are all there are.
LEMMA LockedByStored ==
    ASSUME V3IInv
    PROVE  SumFunctionOnSet([s \in Stored |-> row[s].locked], Stored) = LockedFees
<1> DEFINE f == [s \in Sessions |-> row[s].locked]
           g == [s \in Stored |-> row[s].locked]
           U == Sessions \ Stored
<1>1. IsFiniteSet(Sessions) /\ Stored \in SUBSET Sessions /\ IsFiniteSet(Stored) /\ IsFiniteSet(U)
  BY RetentionConstants, FS_Subset, Zenon DEF Stored
<1>2. \A s \in Sessions : f[s] \in Nat
  BY RowFields, Zenon DEF V3IInv, RowsOK
<1>3. \A s \in U : f[s] = 0
  BY NoRowFields, Zenon DEF V3IInv, RowsOK
<1>4. \A s \in Stored : f[s] = g[s]
  BY <1>1, Zenon
<1>5. LockedFees = SumFunctionOnSet(f, Sessions)
  BY Zenon DEF LockedFees
<1> HIDE DEF f, g
<1>6. /\ SumFunctionOnSet(f, Stored) \in Nat /\ SumFunctionOnSet(f, Sessions) \in Nat
      /\ SumFunctionOnSet(f, Sessions \ Stored) = SumFunctionOnSet(f, Sessions) - SumFunctionOnSet(f, Stored)
  BY <1>1, <1>2, SumPart
<1> HIDE DEF U
<1>7. SumFunctionOnSet(f, U) = 0 * Cardinality(U) /\ Cardinality(U) \in Nat
  BY <1>1, <1>3, SumConstant, FS_CardinalityType
<1>8. SumFunctionOnSet(f, Stored) = SumFunctionOnSet(g, Stored)
  BY <1>1, <1>4, SumSame
<1>9. SumFunctionOnSet(f, U) = SumFunctionOnSet(f, Sessions) - SumFunctionOnSet(f, Stored)
  BY <1>6, Zenon DEF U
<1>10. SumFunctionOnSet(g, Stored) = LockedFees
  BY <1>5, <1>6, <1>7, <1>8, <1>9
<1> QED BY <1>10, Zenon DEF g

(***************************************************************************)
(* Nonces, deals and vouchers.                                             *)
(***************************************************************************)
\* The sessions of a deal that only a voucher can have admitted, and the vouchers
\* of the deal used up.
Outsiders(d) == {s \in Stored : DealOf(s) = d /\ OwnerOf(s) \notin Allowed \cup {DealOwner[d]}}

Used(d) == {u \in usedVouchers : u[1] = d}

\* A step that opens no session keeps the voucher account.
LEMMA VouchersAlone ==
    ASSUME V3IInv, Stored' = Stored, usedVouchers' = usedVouchers
    PROVE  VouchersOK'
BY Zenon DEF V3IInv, VouchersOK, VoucherFundsOneSession

\* An open that needs no voucher leaves the outsiders as they are; vouchers are
\* never given back.
LEMMA InsiderOpens ==
    ASSUME V3IInv, NEW s, Stored' = Stored \cup {s}, OwnerOf(s) \in Allowed \cup {DealOwner[DealOf(s)]},
           usedVouchers \subseteq usedVouchers', IsFiniteSet(usedVouchers'),
           usedVouchers' \subseteq Deals \X {v.nonce : v \in Vouchers}
    PROVE  VouchersOK'
<1> SUFFICES ASSUME "public" \notin Policies, NEW d \in Deals
             PROVE  Cardinality(Outsiders(d)') <= Cardinality(Used(d)')
  BY Zenon DEF VouchersOK, VoucherFundsOneSession, Outsiders, Used
<1> DEFINE A == Outsiders(d)
           B == Used(d)
           C == {u \in usedVouchers' : u[1] = d}
<1>1. Outsiders(d)' = A /\ Used(d)' = C
  BY Zenon DEF Outsiders, Used
<1>2. Cardinality(A) <= Cardinality(B)
  BY Zenon DEF V3IInv, VouchersOK, VoucherFundsOneSession, Outsiders, Used
<1>3. IsFiniteSet(A)
  <2>1. IsFiniteSet(Stored) /\ A \subseteq Stored
    BY RetentionConstants, FS_Subset, Zenon DEF Stored, Outsiders
  <2> QED BY <2>1, FS_Subset, Zenon
<1>4. IsFiniteSet(C) /\ B \subseteq C
  BY FS_Subset, Zenon DEF Used
<1>5. IsFiniteSet(B)
  BY <1>4, FS_Subset, Zenon
<1> HIDE DEF A, B, C
<1>6. Cardinality(B) <= Cardinality(C)
  BY <1>4, FS_Subset, Zenon
<1>7. Cardinality(A) \in Nat /\ Cardinality(B) \in Nat /\ Cardinality(C) \in Nat
  BY <1>3, <1>4, <1>5, FS_CardinalityType, Zenon
<1> QED BY <1>1, <1>2, <1>6, <1>7

\* An outsider's open uses up a voucher nobody used.
LEMMA OutsiderOpens ==
    ASSUME V3IInv, NEW s \in Sessions, s \notin Stored, Stored' = Stored \cup {s}, NEW n, NEW e, e = DealOf(s),
           OwnerOf(s) \notin Allowed \cup {DealOwner[e]},
           <<e, n>> \notin usedVouchers, usedVouchers' = usedVouchers \cup {<<e, n>>},
           usedVouchers' \subseteq Deals \X {v.nonce : v \in Vouchers}
    PROVE  VouchersOK'
<1> DEFINE w == <<e, n>>
<1>0. w \notin usedVouchers /\ usedVouchers' = usedVouchers \cup {w} /\ w[1] = e
  BY SMT
<1> HIDE DEF w
<1>1. IsFiniteSet(usedVouchers) /\ IsFiniteSet(Stored)
  BY RetentionConstants, FS_Subset, Zenon DEF V3IInv, VouchersOK, Stored
<1>2. IsFiniteSet(usedVouchers')
  <2>1. IsFiniteSet(usedVouchers \cup {w})
    BY <1>1, FS_AddElement
  <2> QED BY <1>0, <2>1, Zenon
<1> SUFFICES ASSUME "public" \notin Policies, NEW d \in Deals
             PROVE  Cardinality(Outsiders(d)') <= Cardinality(Used(d)')
  BY <1>2, Zenon DEF VouchersOK, VoucherFundsOneSession, Outsiders, Used
<1> DEFINE A == Outsiders(d)
           B == Used(d)
<1>3. Cardinality(A) <= Cardinality(B)
  BY Zenon DEF V3IInv, VouchersOK, VoucherFundsOneSession, Outsiders, Used
<1>4. IsFiniteSet(A) /\ IsFiniteSet(B)
  <2>1. A \subseteq Stored /\ B \subseteq usedVouchers
    BY Zenon DEF Outsiders, Used
  <2> QED BY <1>1, <2>1, FS_Subset, Zenon
<1>5. Cardinality(A) \in Nat /\ Cardinality(B) \in Nat
  BY <1>4, FS_CardinalityType, Zenon
<1>6. CASE d = e
  <2>1. Outsiders(d)' = A \cup {s} /\ s \notin A
    BY <1>6, Zenon DEF Outsiders
  <2>2. Used(d)' = B \cup {w} /\ w \notin B
    BY <1>0, <1>6, Zenon DEF Used
  <2> HIDE DEF A, B
  <2>3. Cardinality(A \cup {s}) = Cardinality(A) + 1 /\ Cardinality(B \cup {w}) = Cardinality(B) + 1
    BY <1>4, <2>1, <2>2, FS_AddElement, Zenon
  <2> QED BY <1>3, <1>5, <2>1, <2>2, <2>3
<1>7. CASE d # e
  <2>1. Outsiders(d)' = A
    BY <1>7, Zenon DEF Outsiders
  <2>2. Used(d)' = B
    BY <1>0, <1>7, Zenon DEF Used
  <2> QED BY <1>3, <2>1, <2>2, Zenon
<1> QED BY <1>6, <1>7, Zenon

\* A sponsored open: the policy admits the sponsor, or a voucher does.
LEMMA SponsoredVouchers ==
    ASSUME V3IInv, NEW s \in V3, NEW plan \in Plans, NEW deadline \in Heights, NEW cap,
           NEW v \in Vouchers \cup {NoVoucher},
           OpenRetrievalSessionV3Sponsored(s, plan, deadline, cap, v)
    PROVE  VouchersOK'
<1> DEFINE o == OwnerOf(s)
           e == DealOf(s)
           w == <<e, v.nonce>>
           r == NewRow(plan, "requester")
<1>1. /\ Prepare(s, deadline) /\ Store(s, r, deadline) /\ Authorized(s, v)
      /\ v # NoVoucher => VoucherOK(v, s, plan, deadline)
      /\ usedVouchers' = IF v = NoVoucher THEN usedVouchers ELSE usedVouchers \cup {w}
  BY Zenon DEF OpenRetrievalSessionV3Sponsored
<1>2. s \notin Stored /\ Stored' = Stored \cup {s}
  BY <1>1, StoreRow, Zenon
<1>3. e \in Deals /\ s \in Sessions
  BY V3Constants, SMT DEF DealOf
<1>4. IsFiniteSet(usedVouchers) /\ usedVouchers \subseteq Deals \X {x.nonce : x \in Vouchers}
  BY Zenon DEF V3IInv, VouchersOK
<1>5. usedVouchers' \subseteq Deals \X {x.nonce : x \in Vouchers}
  <2>1. CASE v = NoVoucher
    BY <1>1, <1>4, <2>1, Zenon
  <2>2. CASE v # NoVoucher
    <3>1. v.nonce \in {x.nonce : x \in Vouchers}
      BY <2>2, Zenon
    <3>2. w \in Deals \X {x.nonce : x \in Vouchers}
      BY <1>3, <3>1, SMT
    <3> QED BY <1>1, <1>4, <2>2, <3>2, Zenon
  <2> QED BY <2>1, <2>2
<1>6. IsFiniteSet(usedVouchers') /\ usedVouchers \subseteq usedVouchers'
  BY <1>1, <1>4, FS_AddElement, Zenon
<1>7. CASE o \in Allowed \cup {DealOwner[e]}
  BY <1>2, <1>5, <1>6, <1>7, InsiderOpens, Zenon
<1>8. CASE o \notin Allowed \cup {DealOwner[e]} /\ v # NoVoucher
  <2>1. w \notin usedVouchers /\ usedVouchers' = usedVouchers \cup {w}
    BY <1>1, <1>8, Zenon DEF VoucherOK
  <2> QED BY <1>2, <1>3, <1>5, <1>8, <2>1, OutsiderOpens, Zenon
<1>9. CASE o \notin Allowed \cup {DealOwner[e]} /\ v = NoVoucher
  <2>1. policy[e] = "public"
    BY <1>1, <1>9, Zenon DEF Authorized
  <2>2. policy[e] \in Policies
    BY <1>3, Zenon DEF V3IInv, DealsOK
  <2>3. "public" \in Policies
    BY <2>1, <2>2, Zenon
  <2>4. VoucherFundsOneSession'
    BY <2>3, Zenon DEF VoucherFundsOneSession
  <2> QED BY <1>5, <1>6, <2>4, Zenon DEF VouchersOK
<1> QED BY <1>7, <1>8, <1>9, Zenon

\* An open raises the owner's last nonce and leaves prices, policies and content.
LEMMA StoreDeals ==
    ASSUME V3IInv, NEW s \in V3, NEW r, NEW deadline, Store(s, r, deadline), UNCHANGED dealVars
    PROVE  DealsOK'
<1>1. <<OwnerOf(s), DealOf(s)>> \in Accounts \X Deals /\ NonceOf(s) \in Nonces
  BY V3Constants, SMT DEF OwnerOf, DealOf, NonceOf
<1>2. lastNonce' = [lastNonce EXCEPT ![<<OwnerOf(s), DealOf(s)>>] = NonceOf(s)]
  BY Zenon DEF Store
<1>3. lastNonce \in [Accounts \X Deals -> Nonces \cup {0}]
  BY Zenon DEF V3IInv, DealsOK
<1>4. lastNonce' \in [Accounts \X Deals -> Nonces \cup {0}]
  BY <1>1, <1>2, <1>3, Zenon
<1>5. admitted' = admitted /\ policy' = policy /\ pricing' = pricing
  BY Zenon DEF dealVars
<1> QED BY <1>4, <1>5, Zenon DEF V3IInv, DealsOK

(***************************************************************************)
(* What the invariant says of the state.                                   *)
(***************************************************************************)
\* Every row is one the chain can load.
LEMMA RowsLoadable == V3IInv => RowsStayLoadable
<1> SUFFICES ASSUME V3IInv PROVE RowsStayLoadable
  BY Zenon
<1>1. TypeOK
  BY Zenon DEF V3IInv, IInv
<1>2. \A s \in Sessions : row[s].accepted \subseteq Tuples(row[s].plan)
  <2>1. NoRow.accepted = {}
    BY SMT DEF NoRow
  <2>2. \A s \in Sessions \ Stored : row[s] = NoRow
    BY Zenon DEF V3IInv, RowsOK
  <2> QED BY <2>1, <2>2, StoredRow, Zenon
<1>3. module \in Nat
  BY Amounts, Zenon
<1>4. V3TypeOK
  BY <1>1, <1>2, <1>3, Zenon DEF V3IInv, RowsOK, DealsOK, MoneyOK, VouchersOK, V3TypeOK
<1> QED BY <1>4, StoredRow, Zenon DEF RowsStayLoadable

\* The coins are accounted for.
LEMMA CoinsConserved == V3IInv => Conservation
BY LockedByStored, Zenon DEF V3IInv, MoneyOK, Conservation

\* A settled obligation has its evidence.
LEMMA SettledOnEvidence == V3IInv => PaidOnEvidence
<1> SUFFICES ASSUME V3IInv, NEW s \in Seeded
             PROVE  /\ row[s].samples \in {NoRow.samples, SampleCounts(s)}
                    /\ \A i \in row[s].settled : /\ i \in row[s].acked
                                                 /\ SlotChallenges(s, i) \subseteq row[s].accepted
  BY Zenon DEF PaidOnEvidence
<1>1. s \in Stored /\ ResponseSeed(s) # NoSeed
  BY Zenon DEF Seeded
<1> QED BY <1>1, KnownChallenges, StoredRow, Zenon DEF Masks

\* The website's reader accepts the row.
LEMMA RowReadable == V3IInv => ClientReadsEveryRow
<1> SUFFICES ASSUME V3IInv, NEW s \in Stored PROVE parseFrozenSessionV3(s)
  BY Zenon DEF ClientReadsEveryRow
<1> DEFINE r == row[s]
<1>1. /\ r \in Rows /\ r.plan \in Plans /\ Masks(r)
      /\ Cardinality(r.accepted) <= SampleCount(r.plan)
      /\ StoredSamples(r) \in {0, SampleCount(r.plan)}
      /\ StateMaterialized(r) => StoredSamples(r) # 0
  BY StoredRow, Zenon
<1>2. CanonicalHeights(s)
  <2>1. /\ session[s].opened \in 1..height /\ session[s].opened + 2 <= session[s].deadline
        /\ session[s].deadline <= DealEnd[DealOf(s)] /\ height \in Nat
    BY Running, Zenon DEF V3IInv, IInv, WindowsOK, RowsOK, RowOK
  <2>2. session[s].opened <= height
    BY <2>1
  <2> QED BY <2>1, <2>2, Zenon DEF CanonicalHeights, FirstResponse
<1>3. CanonicalPlan(r)
  <2>1. {i \in Represented(r) : i \notin r.settled \cup r.refunded} = Unresolved(r)
    BY Zenon DEF Unresolved
  <2>2. r.locked = Remaining(r)
    BY <1>1, <2>1, Zenon DEF Masks, Remaining
  <2> QED BY <1>1, <2>2, Zenon DEF Masks, CanonicalPlan
<1>4. PartitionMatchesAnchor(s)
  <2> SUFFICES ASSUME ResponseSeed(s) # NoSeed, StoredSamples(r) # 0, NEW i \in Represented(r)
               PROVE  r.samples[i] = Cardinality(SlotChallenges(s, i))
    BY Zenon DEF PartitionMatchesAnchor
  <2>1. Represented(r) \subseteq Slots /\ IsFiniteSet(Represented(r))
    BY <1>1, TuplesFinite, V3Constants, Zenon DEF Represented
  <2>2. r.samples \in {NoRow.samples, SampleCounts(s)}
    BY KnownChallenges, Zenon
  <2>3. r.samples # NoRow.samples
    <3> SUFFICES ASSUME r.samples = NoRow.samples PROVE FALSE
      BY Zenon
    <3> DEFINE f == r.samples
               I == Represented(r)
    <3>1. \A j \in I : f[j] = 0
      BY <2>1, NoRowFields, Zenon
    <3>2. IsFiniteSet(I) /\ SumFunctionOnSet(f, I) # 0
      BY <2>1, Zenon DEF StoredSamples
    <3> HIDE DEF f, I
    <3>3. SumFunctionOnSet(f, I) = 0 * Cardinality(I) /\ Cardinality(I) \in Nat
      BY <3>1, <3>2, SumConstant, FS_CardinalityType
    <3> QED BY <3>2, <3>3
  <2> QED BY <2>1, <2>2, <2>3, Zenon DEF SampleCounts
<1> QED BY <1>2, <1>3, <1>4, Zenon DEF parseFrozenSessionV3

(***************************************************************************)
(* Sessions implement the escrow of obligations.                           *)
(***************************************************************************)
\* What the refinement mapping makes of a state.
DueF == [p \in V3 \X Slots |-> IF p[2] \in Represented(row[p[1]]) THEN Fee(row[p[1]], p[2]) ELSE 0]

OpenO == {p \in V3 \X Slots : p[2] \in Unresolved(row[p[1]])}

PaidO == {p \in V3 \X Slots : p[2] \in row[p[1]].settled}

ReturnedO == {p \in V3 \X Slots : p[2] \in row[p[1]].refunded}

HeldO == module - SumFunctionOnSet(escrow, Deals)

\* The steps of ObligationEscrow, of what the mapping makes of two states.
FundO ==
    /\ OpenO' # OpenO /\ OpenO \subseteq OpenO'
    /\ OpenO' \ OpenO \subseteq (V3 \X Slots) \ (OpenO \cup PaidO \cup ReturnedO)
    /\ \A o \in V3 \X Slots : o \notin OpenO' \ OpenO => DueF'[o] = DueF[o]
    /\ HeldO' = HeldO + SumFunctionOnSet(DueF', OpenO' \ OpenO)
    /\ UNCHANGED <<PaidO, ReturnedO>>

PayO ==
    /\ PaidO' # PaidO /\ PaidO \subseteq PaidO'
    /\ PaidO' \ PaidO \subseteq OpenO
    /\ OpenO' = OpenO \ PaidO'
    /\ HeldO' = HeldO - SumFunctionOnSet(DueF, PaidO' \ PaidO)
    /\ UNCHANGED <<DueF, ReturnedO>>

ReturnO ==
    /\ ReturnedO' # ReturnedO /\ ReturnedO \subseteq ReturnedO'
    /\ ReturnedO' \ ReturnedO \subseteq OpenO
    /\ OpenO' = OpenO \ ReturnedO'
    /\ HeldO' = HeldO - SumFunctionOnSet(DueF, ReturnedO' \ ReturnedO)
    /\ UNCHANGED <<DueF, PaidO>>

EscrowStep == FundO \/ PayO \/ ReturnO \/ UNCHANGED <<DueF, OpenO, PaidO, ReturnedO, HeldO>>

\* The sum ObligationEscrow takes is the one used here.
LEMMA EscrowSum == ASSUME NEW f, NEW S PROVE Escrow!SumFunctionOnSet(f, S) = SumFunctionOnSet(f, S)
BY Zenon DEF Escrow!SumFunctionOnSet, Escrow!FoldFunctionOnSet, Escrow!MapThenFoldSet,
             SumFunctionOnSet, FoldFunctionOnSet, MapThenFoldSet

\* The steps above are those of ObligationEscrow under the mapping.
LEMMA EscrowSteps == EscrowStep => [Escrow!Next]_(Escrow!escrowVars)
<1>1. FundO => Escrow!Fund
  BY EscrowSum, Zenon DEF FundO, DueF, OpenO, PaidO, ReturnedO, HeldO, Escrow!Fund, Escrow!Untouched
<1>2. PayO => Escrow!Pay
  BY EscrowSum, Zenon DEF PayO, DueF, OpenO, PaidO, ReturnedO, HeldO, Escrow!Pay, Escrow!Due
<1>3. ReturnO => Escrow!Return
  BY EscrowSum, Zenon DEF ReturnO, DueF, OpenO, PaidO, ReturnedO, HeldO, Escrow!Return, Escrow!Due
<1>4. UNCHANGED <<DueF, OpenO, PaidO, ReturnedO, HeldO>> => UNCHANGED Escrow!escrowVars
  BY Zenon DEF DueF, OpenO, PaidO, ReturnedO, HeldO, Escrow!escrowVars
<1> QED BY <1>1, <1>2, <1>3, <1>4, Zenon DEF EscrowStep, Escrow!Next

\* An obligation is a pair of a session and a slot.
LEMMA Pairs == \A p \in V3 \X Slots : p[1] \in V3 /\ p[2] \in Slots /\ p = <<p[1], p[2]>>
BY SMT

\* The obligations of s for the slots I.
SlotsOf(s, I) == {<<s, i>> : i \in I}

\* They are pairs.
LEMMA SlotsOfPairs ==
    ASSUME NEW s \in V3, NEW I \in SUBSET Slots
    PROVE  /\ SlotsOf(s, I) \in SUBSET (V3 \X Slots) /\ (I # {} => SlotsOf(s, I) # {})
           /\ \A p \in V3 \X Slots : p \in SlotsOf(s, I) <=> (p[1] = s /\ p[2] \in I)
<1>1. SlotsOf(s, I) \in SUBSET (V3 \X Slots)
  BY SMT DEF SlotsOf
<1>2. I # {} => SlotsOf(s, I) # {}
  BY Zenon DEF SlotsOf
<1>3. ASSUME NEW p \in V3 \X Slots PROVE p \in SlotsOf(s, I) <=> (p[1] = s /\ p[2] \in I)
  <2>1. p = <<p[1], p[2]>>
    BY Pairs, Zenon
  <2>2. p[1] = s /\ p[2] \in I => p \in SlotsOf(s, I)
    BY <2>1, Zenon DEF SlotsOf
  <2>3. p \in SlotsOf(s, I) => p[1] = s /\ p[2] \in I
    BY SMT DEF SlotsOf
  <2> QED BY <2>2, <2>3, Zenon
<1> QED BY <1>1, <1>2, <1>3, Zenon

Priced(due, s, r, I) == \A i \in I : due[<<s, i>>] = Fee(r, i)

\* What is due for obligations of one session is the sum of their fees.
LEMMA SessionDue ==
    ASSUME NEW s, NEW r \in Rows, r.plan \in Plans, NEW I \in SUBSET Represented(r), NEW due,
           Priced(due, s, r, I)
    PROVE  SumFunctionOnSet(due, SlotsOf(s, I)) = FeeSum(r, I)
<1> DEFINE g == [i \in I |-> Fee(r, i)]
           h == [i \in I |-> <<s, i>>]
<1>1. IsFiniteSet(I)
  BY TuplesFinite, FS_Subset, Zenon DEF Represented
<1>2. \A i \in I : Fee(r, i) \in Int
  BY RowFields, V3Constants DEF Fee, Represented
<1>3. \A i \in I : g[i] \in Int /\ due[h[i]] = g[i]
  BY <1>2, Zenon DEF Priced
<1>4. \A i, j \in I : h[i] = h[j] => i = j
  BY SMT
<1>5. Renames(due, h, g, I)
  BY <1>3, <1>4, Zenon DEF Renames
<1>6. {h[i] : i \in I} = SlotsOf(s, I)
  BY SMT DEF SlotsOf
<1>7. FeeSum(r, I) = SumFunctionOnSet(g, I)
  BY Zenon DEF FeeSum
<1> HIDE DEF g, h
<1>8. SumFunctionOnSet(due, {h[i] : i \in I}) = SumFunctionOnSet(g, I)
  BY <1>1, <1>5, SumRenamed, Zenon
<1> QED BY <1>6, <1>7, <1>8, Zenon

\* What the module account holds beside the deal escrows is the locked fees.
LEMMA HeldIsLocked ==
    ASSUME V3IInv, MoneyOK', LockedFees' \in Nat
    PROVE  HeldO = LockedFees /\ HeldO' = LockedFees' /\ LockedFees \in Nat
<1>1. /\ SumFunctionOnSet(escrow, Deals) \in Nat /\ LockedFees \in Nat
      /\ module = SumFunctionOnSet(escrow, Deals) + LockedFees
  BY Amounts, Zenon DEF V3IInv, MoneyOK
<1>2. SumFunctionOnSet(escrow', Deals) \in Nat
  <2>1. IsFiniteSet(Deals) /\ \A d \in Deals : escrow'[d] \in Nat
    BY RetentionConstants, Zenon DEF MoneyOK
  <2> QED BY <2>1, SumType, Zenon
<1>3. module' = SumFunctionOnSet(escrow', Deals) + LockedFees'
  BY Zenon DEF MoneyOK
<1>4. HeldO = LockedFees
  BY <1>1 DEF HeldO
<1>5. HeldO' = LockedFees'
  BY <1>2, <1>3 DEF HeldO
<1> QED BY <1>1, <1>4, <1>5

\* An open funds the obligations of its session.
LEMMA OpenFunds ==
    ASSUME V3IInv, MoneyOK', NEW s \in V3, NEW plan \in Plans, NEW f \in {"escrow", "requester"},
           NEW r, r = NewRow(plan, f), row[s] = NoRow, row'[s] = r,
           \A t \in Sessions \ {s} : row'[t] = row[t]
    PROVE  FundO
<1> DEFINE I == DOMAIN plan
           N == SlotsOf(s, I)
<1>1. /\ r \in Rows /\ r.plan = plan /\ Represented(r) = I /\ Unresolved(r) = I
      /\ r.settled = {} /\ r.refunded = {} /\ r.locked = FeeSum(r, I)
  <2>1. /\ r \in Rows /\ r.plan = plan /\ Represented(r) = I /\ Unresolved(r) = I
        /\ r.settled = {} /\ r.refunded = {} /\ Masks(r)
    <3>1. V3IInv /\ plan \in Plans /\ f \in {"escrow", "requester"} /\ r = NewRow(plan, f)
      OBVIOUS
    <3> QED BY ONLY <3>1, NewRowOK, Zenon
  <2>2. r.locked = FeeSum(r, Unresolved(r))
    BY <2>1, Zenon DEF Masks
  <2> QED BY <2>1, <2>2, Zenon
<1>2. I \in SUBSET Slots /\ I # {} /\ Sessions = V3
  BY V3Constants, Zenon
<1>3. /\ NoRow.locked = 0 /\ NoRow.settled = {} /\ NoRow.refunded = {}
      /\ Represented(NoRow) = {} /\ Unresolved(NoRow) = {}
  BY NoRowFields, Zenon
<1>4. /\ N \in SUBSET (V3 \X Slots) /\ N # {}
      /\ \A p \in V3 \X Slots : p \in N <=> p[1] = s /\ p[2] \in I
  <2>1. s \in V3 /\ I \in SUBSET Slots /\ I # {}
    BY <1>2, Zenon
  <2> QED BY ONLY <2>1, SlotsOfPairs, Zenon
<1>5. \A p \in V3 \X Slots : p[1] # s => row'[p[1]] = row[p[1]]
  BY <1>2, Pairs, Zenon
<1> HIDE DEF N
<1>6. OpenO' = OpenO \cup N /\ N \cap (OpenO \cup PaidO \cup ReturnedO) = {}
  BY <1>1, <1>3, <1>4, <1>5, Zenon DEF OpenO, PaidO, ReturnedO
<1>7. PaidO' = PaidO /\ ReturnedO' = ReturnedO
  BY <1>1, <1>3, <1>5, Zenon DEF PaidO, ReturnedO
<1>8. \A o \in V3 \X Slots : o \notin N => DueF'[o] = DueF[o]
  <2> TAKE o \in V3 \X Slots
  <2> HAVE o \notin N
  <2>1. CASE o[1] # s
    BY <1>5, <2>1, Zenon DEF DueF
  <2>2. CASE o[1] = s
    <3>1. o[2] \notin I
      BY <1>4, <2>2, Zenon
    <3>2. o[2] \notin Represented(row'[o[1]]) /\ o[2] \notin Represented(row[o[1]])
      BY <1>1, <1>3, <2>2, <3>1, Zenon
    <3> QED BY <3>2, Zenon DEF DueF
  <2> QED BY <2>1, <2>2, Zenon
<1>9. SumFunctionOnSet(DueF', N) = r.locked
  <2> DEFINE due == DueF'
  <2>1. \A i \in I : due[<<s, i>>] = Fee(r, i)
    <3> TAKE i \in I
    <3> DEFINE p == <<s, i>>
    <3>1. p \in V3 \X Slots /\ p[1] = s /\ p[2] = i
      BY <1>2, SMT
    <3> HIDE DEF p
    <3>2. due[p] = Fee(r, i)
      BY <1>1, <3>1, Zenon DEF DueF
    <3> QED BY <3>2, Zenon DEF p
  <2>2. Priced(due, s, r, I) /\ I \in SUBSET Represented(r) /\ r \in Rows /\ r.plan \in Plans
    BY <1>1, <2>1, Zenon DEF Priced
  <2> HIDE DEF due, I
  <2>3. SumFunctionOnSet(due, SlotsOf(s, I)) = FeeSum(r, I)
    BY <2>2, SessionDue, Zenon
  <2> QED BY <1>1, <2>3, Zenon DEF N, due
<1>10. LockedFees' = LockedFees + (r.locked - 0) /\ r.locked \in Nat
  BY <1>1, <1>2, <1>3, RowFields, LockedChange, Zenon
<1>11. LockedFees \in Nat
  BY Amounts, Zenon
<1>12. LockedFees' \in Nat /\ LockedFees' = LockedFees + r.locked
  BY <1>10, <1>11
<1>13. HeldO' = HeldO + SumFunctionOnSet(DueF', N)
  BY <1>9, <1>12, HeldIsLocked, Zenon
<1>14. OpenO' \ OpenO = N
  BY <1>6, Zenon
<1>15. OpenO' # OpenO /\ OpenO \subseteq OpenO'
  BY <1>4, <1>6, Zenon
<1> QED BY <1>4, <1>6, <1>7, <1>8, <1>13, <1>14, <1>15, Zenon DEF FundO

\* A refund returns the unresolved obligations of its session.
LEMMA RefundReturns ==
    ASSUME V3IInv, MoneyOK', NEW s \in Stored, NEW I, I = Unresolved(row[s]), I # {},
           row'[s] = Refunded(row[s]), \A t \in Sessions \ {s} : row'[t] = row[t]
    PROVE  ReturnO
<1> DEFINE r == row[s]
           N == SlotsOf(s, I)
           x == row'[s]
<1>1. r \in Rows /\ r.plan \in Plans /\ Masks(r) /\ s \in V3 /\ s \in Sessions /\ Sessions = V3
  BY StoredRow, Running, Zenon
<1>2. I \in SUBSET Represented(r) /\ I \in SUBSET Slots /\ I \cap r.refunded = {} /\ I \cap r.settled = {}
  BY <1>1, V3Constants, Zenon DEF Unresolved, Represented
<1>3. /\ x.plan = r.plan /\ x.price = r.price /\ x.settled = r.settled
      /\ x.refunded = r.refunded \cup I /\ x.locked = r.locked - FeeSum(r, I)
  BY <1>1 DEF Refunded, Rows
<1>4. Unresolved(x) = {} /\ Represented(x) = Represented(r) /\ \A i : Fee(x, i) = Fee(r, i)
  BY <1>3, FeeSame, Zenon DEF Unresolved, Represented
<1>5. r.locked \in Nat /\ r.locked = FeeSum(r, I)
  BY <1>1, RowFields, Zenon DEF Masks
<1>6. x.locked = 0
  BY <1>3, <1>5
<1>7. /\ N \in SUBSET (V3 \X Slots) /\ N # {}
      /\ \A p \in V3 \X Slots : p \in N <=> p[1] = s /\ p[2] \in I
  <2>1. s \in V3 /\ I \in SUBSET Slots /\ I # {}
    BY <1>1, <1>2, Zenon
  <2> QED BY ONLY <2>1, SlotsOfPairs, Zenon
<1>8. \A p \in V3 \X Slots : p[1] # s => row'[p[1]] = row[p[1]]
  BY <1>1, Pairs, Zenon
<1> HIDE DEF N
<1>9. ReturnedO' = ReturnedO \cup N /\ N \cap ReturnedO = {} /\ N \subseteq OpenO
  BY <1>2, <1>3, <1>7, <1>8, Zenon DEF ReturnedO, OpenO
<1>10. OpenO' = OpenO \ ReturnedO'
  <2>1. OpenO \cap ReturnedO = {}
    BY Zenon DEF OpenO, ReturnedO, Unresolved
  <2>2. OpenO' = OpenO \ N
    BY <1>4, <1>7, <1>8, Zenon DEF OpenO
  <2> QED BY <1>9, <2>1, <2>2, Zenon
<1>11. PaidO' = PaidO
  BY <1>3, <1>8, Zenon DEF PaidO
<1>12. DueF' = DueF
  <2>1. \A p \in V3 \X Slots : DueF'[p] = DueF[p]
    BY <1>4, <1>8, Zenon DEF DueF
  <2> QED BY <2>1, Zenon DEF DueF
<1>13. SumFunctionOnSet(DueF, N) = FeeSum(r, I)
  <2>1. \A i \in I : DueF[<<s, i>>] = Fee(r, i)
    <3> TAKE i \in I
    <3> DEFINE p == <<s, i>>
    <3>1. p \in V3 \X Slots /\ p[1] = s /\ p[2] = i
      BY <1>1, <1>2, SMT
    <3> HIDE DEF p
    <3>2. DueF[p] = Fee(r, i)
      BY <1>2, <3>1, Zenon DEF DueF
    <3> QED BY <3>2, Zenon DEF p
  <2>2. Priced(DueF, s, r, I)
    BY <2>1, Zenon DEF Priced
  <2> HIDE DEF r
  <2>3. SumFunctionOnSet(DueF, SlotsOf(s, I)) = FeeSum(r, I)
    BY <1>1, <1>2, <2>2, SessionDue, Zenon
  <2> QED BY <2>3, Zenon DEF N
<1>14. LockedFees' = LockedFees + (x.locked - r.locked) /\ LockedFees \in Nat /\ LockedFees' \in Nat
  <2>1. x.locked \in Nat
    BY <1>6
  <2>2. LockedFees' = LockedFees + (x.locked - r.locked)
    BY <1>1, <2>1, LockedChange, Zenon
  <2>3. LockedFees \in Nat
    BY Amounts, Zenon
  <2>4. LockedFees' \in Nat
    <3>1. IsFiniteSet(Sessions) /\ \A t \in Sessions : row'[t].locked \in Nat
      BY <1>1, <2>1, RetentionConstants, RowFields, Zenon DEF V3IInv, RowsOK
    <3> DEFINE g == [t \in Sessions |-> row'[t].locked]
    <3>2. \A t \in Sessions : g[t] \in Nat
      BY <3>1, Zenon
    <3>3. LockedFees' = SumFunctionOnSet(g, Sessions)
      BY Zenon DEF LockedFees
    <3> HIDE DEF g
    <3> QED BY <3>1, <3>2, <3>3, SumType, Zenon
  <2> QED BY <2>2, <2>3, <2>4
<1>15. HeldO' = HeldO - SumFunctionOnSet(DueF, N)
  <2>1. HeldO = LockedFees /\ HeldO' = LockedFees'
    BY <1>14, HeldIsLocked, Zenon
  <2> HIDE DEF r, x
  <2> QED BY <1>5, <1>6, <1>13, <1>14, <2>1
<1>16. ReturnedO' \ ReturnedO = N /\ ReturnedO' # ReturnedO /\ ReturnedO \subseteq ReturnedO'
  BY <1>7, <1>9, Zenon
<1> QED BY <1>9, <1>10, <1>11, <1>12, <1>15, <1>16, Zenon DEF ReturnO

\* A response pays the obligations it settles, or none.
LEMMA RespondPays ==
    ASSUME V3IInv, MoneyOK', NEW D, NEW upd, ResponseOK(D, upd), Respond(D, upd)
    PROVE  EscrowStep
<1> DEFINE P == PaidIn(D, upd)
<1>1. /\ P \in SUBSET (Stored \X Slots) /\ IsFiniteSet(P)
      /\ Touched(D) \in SUBSET Stored
      /\ \A s \in Sessions \ Touched(D) : row'[s] = row[s] /\ PaidSlots(P, s) = {}
      /\ \A s \in Stored : Paid(s, PaidSlots(P, s), row'[s])
  BY RespondRows, Zenon
<1>2. OpenObligations(P)
  BY RespondPaysOpen, Zenon
<1>3. LockedFees' \in Nat /\ LockedFees = LockedFees' + SumFunctionOnSet(FeeOf(P), P)
  BY LockedFalls, Zenon
<1> HIDE DEF P
<1>4. Sessions = V3 /\ Stored \subseteq V3
  BY Running, Zenon
<1>5. \A p \in P : p \in V3 \X Slots /\ p[2] \in Unresolved(row[p[1]])
  BY <1>1, <1>2, <1>4, Zenon DEF OpenObligations
<1>6. ASSUME NEW p \in V3 \X Slots
      PROVE  /\ (p[2] \in row'[p[1]].settled) <=> (p[2] \in row[p[1]].settled \/ p \in P)
             /\ row'[p[1]].refunded = row[p[1]].refunded
             /\ (p[2] \in Unresolved(row'[p[1]])) <=> (p[2] \in Unresolved(row[p[1]]) /\ p \notin P)
             /\ DueF'[p] = DueF[p]
  <2> DEFINE s == p[1]
             i == p[2]
             r == row[s]
             x == row'[s]
  <2>1. s \in V3 /\ i \in Slots /\ p = <<s, i>>
    BY Pairs, Zenon
  <2>2. i \in PaidSlots(P, s) <=> p \in P
    BY <2>1, Zenon DEF PaidSlots
  <2>3. DueF[p] = (IF i \in Represented(r) THEN Fee(r, i) ELSE 0)
    BY Zenon DEF DueF
  <2>4. DueF'[p] = (IF i \in Represented(x) THEN Fee(x, i) ELSE 0)
    BY Zenon DEF DueF
  <2>5. CASE s \in Stored
    <3>1. /\ x.settled = r.settled \cup PaidSlots(P, s) /\ x.refunded = r.refunded
          /\ Unresolved(x) = Unresolved(r) \ PaidSlots(P, s)
          /\ x.plan = r.plan /\ x.price = r.price
      BY <1>1, <2>5, Zenon DEF Paid
    <3>2. Represented(x) = Represented(r) /\ Fee(x, i) = Fee(r, i)
      BY <3>1, FeeSame, Zenon
    <3>3. DueF'[p] = DueF[p]
      <4> HIDE DEF s, i, r, x
      <4> QED BY ONLY <2>3, <2>4, <3>2, SMT
    <3>4. (i \in x.settled) <=> (i \in r.settled \/ p \in P)
      BY <2>2, <3>1, Zenon
    <3>5. (i \in Unresolved(x)) <=> (i \in Unresolved(r) /\ p \notin P)
      BY <2>2, <3>1, Zenon
    <3> QED BY <3>1, <3>3, <3>4, <3>5, Zenon
  <2>6. CASE s \notin Stored
    <3>1. x = r /\ p \notin P
      BY <1>1, <1>4, <2>1, <2>2, <2>6, Zenon
    <3>2. DueF'[p] = DueF[p]
      <4> HIDE DEF s, i, r, x
      <4> QED BY ONLY <2>3, <2>4, <3>1, SMT
    <3> QED BY <3>1, <3>2, Zenon
  <2> QED BY <2>5, <2>6
<1>7. PaidO' = PaidO \cup P /\ P \cap PaidO = {} /\ P \subseteq OpenO
  BY <1>5, <1>6, Zenon DEF PaidO, OpenO, Unresolved
<1>8. OpenO' = OpenO \ P /\ OpenO \cap PaidO = {}
  BY <1>6, Zenon DEF PaidO, OpenO, Unresolved
<1>9. ReturnedO' = ReturnedO
  BY <1>6, Zenon DEF ReturnedO
<1>10. DueF' = DueF
  BY <1>6, Zenon DEF DueF
<1>11. SumFunctionOnSet(FeeOf(P), P) = SumFunctionOnSet(DueF, P) /\ SumFunctionOnSet(FeeOf(P), P) \in Nat
  <2>1. \A p \in P : FeeOf(P)[p] = DueF[p]
    BY <1>5, Zenon DEF FeeOf, DueF, Unresolved
  <2>2. \A p \in P : FeeOf(P)[p] \in Nat
    BY <1>2, PaymentSplit, Zenon
  <2> DEFINE f == FeeOf(P)
  <2> HIDE DEF f
  <2>3. SumFunctionOnSet(f, P) = SumFunctionOnSet(DueF, P)
    BY <1>1, <2>1, SumSame, Zenon DEF f
  <2>4. SumFunctionOnSet(f, P) \in Nat
    BY <1>1, <2>2, SumType, Zenon DEF f
  <2> QED BY <2>3, <2>4, Zenon DEF f
<1>12. HeldO = LockedFees /\ HeldO' = LockedFees' /\ LockedFees \in Nat
  BY <1>3, HeldIsLocked, Zenon
<1>13. HeldO' = HeldO - SumFunctionOnSet(DueF, P)
  BY <1>3, <1>11, <1>12
<1>14. CASE P = {}
  <2>1. SumFunctionOnSet(DueF, P) = 0
    BY <1>1, <1>14, SumRec, Zenon
  <2>2. HeldO' = HeldO
    BY <1>12, <1>13, <2>1
  <2>3. PaidO' = PaidO /\ OpenO' = OpenO
    BY <1>7, <1>8, <1>14, Zenon
  <2> QED BY <1>9, <1>10, <2>2, <2>3, Zenon DEF EscrowStep
<1>15. CASE P # {}
  <2>1. PaidO' \ PaidO = P /\ PaidO' # PaidO /\ PaidO \subseteq PaidO' /\ OpenO' = OpenO \ PaidO'
    BY <1>7, <1>8, <1>15, Zenon
  <2>2. PayO
    BY <1>7, <1>9, <1>10, <1>13, <2>1, Zenon DEF PayO
  <2> QED BY <2>2, Zenon DEF EscrowStep
<1> QED BY <1>14, <1>15

\* At genesis the escrow is empty.
LEMMA EscrowStart == V3Init => Escrow!Init
<1> SUFFICES ASSUME V3Init PROVE Escrow!Init
  BY Zenon
<1>1. \A p \in V3 \X Slots : row[p[1]] = NoRow
  BY V3Constants, Pairs, Zenon DEF V3Init
<1>2. /\ NoRow.settled = {} /\ NoRow.refunded = {} /\ NoRow.locked = 0
      /\ Represented(NoRow) = {} /\ Unresolved(NoRow) = {}
  BY NoRowFields, Zenon
<1>3. OpenO = {} /\ PaidO = {} /\ ReturnedO = {}
  BY <1>1, <1>2, Zenon DEF OpenO, PaidO, ReturnedO
<1>4. DueF = [o \in V3 \X Slots |-> 0]
  BY <1>1, <1>2, Zenon DEF DueF
<1>5. HeldO = 0
  <2>1. IsFiniteSet(Deals) /\ InitEscrow \in Int /\ InitEscrow \in Nat
    BY RetentionConstants, V3Constants
  <2>2. (\A d \in Deals : escrow[d] = InitEscrow) /\ module = InitEscrow * Cardinality(Deals)
    BY Zenon DEF V3Init
  <2>3. SumFunctionOnSet(escrow, Deals) = InitEscrow * Cardinality(Deals)
    BY ONLY <2>1, <2>2, SumConstant
  <2>4. Cardinality(Deals) \in Nat
    BY <2>1, FS_CardinalityType
  <2>5. InitEscrow * Cardinality(Deals) \in Nat
    BY <2>1, <2>4
  <2> DEFINE x == InitEscrow * Cardinality(Deals)
  <2>6. module = x /\ SumFunctionOnSet(escrow, Deals) = x /\ x \in Nat
    BY <2>2, <2>3, <2>5, Zenon
  <2> HIDE DEF x
  <2> QED BY <2>6 DEF HeldO
<1> QED BY <1>3, <1>4, <1>5, Zenon DEF Escrow!Init, DueF, OpenO, PaidO, ReturnedO, HeldO

==============================================================================
