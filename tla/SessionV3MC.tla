---------------------------- MODULE SessionV3MC ----------------------------
(* Small instances of RetrievalSessionV3 for TLC. *)
EXTENDS RetrievalSessionV3

CONSTANTS d1, alice, bob, carol, p0, p1, p2, seedA, seedB

accounts == {alice, bob, p0, p1, p2}
sponsors == {alice, bob, carol, p0, p1}
dealOwner == [d \in {d1} |-> alice]
dealEnd == [d \in {d1} |-> MaxHeight]

\* Slot 1 changes hands between the two generations.
slotProvider == [k \in GenKeys |->
                   [i \in Slots |-> IF i = 0 THEN p0 ELSE IF k[2] = 1 THEN p1 ELSE p2]]

\* One blob of slot 0; one of slot 0 and two of slot 1, of which two are sampled.
smallPlan == [i \in {0} |-> 1]
widePlan == [i \in {0, 1} |-> i + 1]

\* seedB samples nothing of slot 0 of the wide plan: it settles on the ACK alone.
sampleOf(seed, s, plan) ==
    IF Population(plan) <= MaxSamples THEN Tuples(plan)
    ELSE IF seed = seedA THEN {<<0, 1>>, <<1, 1>>}
    ELSE {<<1, 1>>, <<1, 2>>}

twoOwners == {<<alice, d1, 1>>, <<bob, d1, 1>>}
oneOwner == {<<alice, d1, 1>>}
sponsored == {<<bob, d1, 1>>, <<bob, d1, 2>>, <<carol, d1, 1>>}
pairPlans == {[i \in {0, 1} |-> 1]}
smallPlans == {smallPlan}
\* One blob, which a voucher may name, or two, both sampled.
sponsoredPlans == {smallPlan, [i \in {0} |-> 2]}

cheap == [price |-> 3, base |-> 1, burn |-> 5000]
dear == [price |-> 4, base |-> 1, burn |-> 0]
prices == {cheap}
twoPrices == {cheap, dear}

\* Two vouchers carry one nonce; the third may be redeemed by bob alone.
voucher(deadline, redeemer, nonce) ==
    [key |-> <<d1, 1>>, plan |-> smallPlan, deadline |-> deadline, redeemer |-> redeemer, nonce |-> nonce]
vouchers == {voucher(3, "anyone", 1), voucher(4, "anyone", 1), voucher(4, bob, 2)}
=============================================================================
