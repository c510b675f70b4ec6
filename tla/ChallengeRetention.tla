------------------------- MODULE ChallengeRetention -------------------------
(***************************************************************************)
(* The bookkeeping that keeps a retrieval session's challenge material on  *)
(* chain for exactly as long as the session can still be answered: the     *)
(* per-height challenge anchors (shared by sessions and storage audits),   *)
(* the pending captures, the expiry index with its bucket counts, the live *)
(* and per-block open counts, and the retained content generations.        *)
(*                                                                         *)
(* Source: x/polystorechain/keeper/retrieval_challenge.go,                 *)
(* retrieval_v3_completion.go and the freeze/prune half of                 *)
(* storage_audit.go.  A collection whose Get treats "not found" as zero is *)
(* a total function here, with 0 for an absent key.  An error returned by  *)
(* BeginBlock stops the chain: it sets halted.                             *)
(*                                                                         *)
(* A definition marked "Fault:" is a wrong variant of the one that follows *)
(* it; the properties below are known to notice it.                        *)
(***************************************************************************)
EXTENDS Integers, FiniteSets

CONSTANTS
    Sessions,               \* session ids, of both protocol versions
    V3,                     \* the ids of v3 sessions; the others are v2
    Deals, Generations,     \* deal ids and content generations
    Slots,                  \* Mode 2 slots of a deal
    Seeds, NoSeed,          \* 32-byte header hashes; the empty seed
    EpochLen,               \* params.EpochLenBlocks, frozen at activation
    MaxLive,                \* MaxLiveRetrievalSessionContexts
    MaxOpensPerBlock,       \* MaxRetrievalSessionOpensPerBlock
    MaxExpiryRefsPerBlock,  \* MaxRetrievalSessionExpiryRefsPerBlock
    MaxTTL,                 \* MaxRetrievalSessionTTL
    MaxGensPerDeal,         \* MaxRetrievalSessionGenerationsPerDeal
    MaxGens,                \* MaxRetrievalSessionGenerations
    MaxAudits,              \* MaxStorageAuditAssignments
    MaxHeight               \* bound: the last block of the model

ASSUME RetentionConstants ==
    /\ IsFiniteSet(Sessions) /\ V3 \subseteq Sessions
    /\ IsFiniteSet(Deals) /\ IsFiniteSet(Generations) /\ IsFiniteSet(Slots)
    /\ Deals # {} /\ Generations # {}
    /\ NoSeed \notin Seeds
    /\ EpochLen \in Nat \ {0, 1}
    /\ MaxLive \in Nat /\ MaxOpensPerBlock \in Nat
    /\ MaxExpiryRefsPerBlock \in Nat /\ MaxTTL \in Nat
    /\ MaxGensPerDeal \in Nat /\ MaxGens \in Nat
    /\ MaxAudits \in Nat /\ MaxHeight \in Nat

VARIABLES
    height,        \* the block being executed; 0 is genesis
    halted,        \* BeginBlock returned an error
    session,       \* the frozen context in each session row
    expired,       \* v3 rows whose Expired flag is set
    terminal,      \* RetrievalSessionV3TerminalAnchors: seed of a completed row
    anchor,        \* ChallengeAnchors
    pending,       \* ChallengePendingAnchors
    expiryRefs,    \* RetrievalSessionExpiryRefs
    expiryCount,   \* RetrievalSessionExpiryCounts
    liveCount,     \* RetrievalSessionLiveCount
    openCount,     \* RetrievalSessionOpenCounts
    genRefs,       \* RetrievalSessionGenerationRefs
    dealGens,      \* RetrievalSessionGenerationCounts
    gens,          \* RetrievalSessionGenerationCount
    auditEpochs,   \* keys of StorageAuditEpochs
    frozen,        \* StorageAudits of each retained epoch
    auditGenRefs   \* StorageAuditGenerationRefs

sessionVars == <<session, expired, terminal>>
indexVars == <<expiryRefs, expiryCount, liveCount, openCount>>
genVars == <<genRefs, dealGens, gens>>
auditVars == <<auditEpochs, frozen, auditGenRefs>>
retentionVars == <<height, halted, sessionVars, anchor, pending, indexVars,
                   genVars, auditVars>>

Heights == 0..MaxHeight
Epochs == 1..MaxHeight
GenKeys == Deals \X Generations
Audits == Deals \X Slots \X Generations

NoContext == [stored |-> FALSE, key |-> CHOOSE k \in GenKeys : TRUE,
              opened |-> 0, deadline |-> 0]
NoAnchor == [stored |-> FALSE, sess |-> 0, audit |-> 0, seed |-> NoSeed]

Stored == {s \in Sessions : session[s].stored}
AnchorHeight(s) == session[s].opened + 1
FirstResponse(s) == session[s].opened + 2
ExpiryRef(s) == <<session[s].deadline, s>>

(***************************************************************************)
(* References released together: by deadline expiry, or by the completion  *)
(* of the sessions of one message.                                         *)
(***************************************************************************)
Owners(E, h) == {s \in E : AnchorHeight(s) = h}
Users(E, k) == {s \in E : session[s].key = k}

\* The row with more references; Set creates it when it was absent.
Referenced(r, sess, audit) ==
    [stored |-> TRUE, sess |-> r.sess + sess, audit |-> r.audit + audit, seed |-> r.seed]

\* The generations whose last session reference is one of E's.
LastUsed(E) == {k \in GenKeys : Users(E, k) # {} /\ Cardinality(Users(E, k)) = genRefs[k]}
OfDeal(K, d) == {k \in K : k[1] = d}

\* No Get fails and no counter underflows while E's references are released.
CanRelease(A, E) ==
    /\ \A h \in Heights : Owners(E, h) # {} =>
         A[h].stored /\ Cardinality(Owners(E, h)) <= A[h].sess
    /\ \A k \in GenKeys : Cardinality(Users(E, k)) <= genRefs[k]
    /\ \A d \in Deals : Cardinality(OfDeal(LastUsed(E), d)) <= dealGens[d]
    /\ Cardinality(LastUsed(E)) <= gens

\* Fault: the row goes with its last session although audits still use it.
KeptForSessions(row) == IF row.sess = 0 THEN NoAnchor ELSE row

\* A row is removed when neither sessions nor audits reference it.
Kept(row) == IF row.sess = 0 /\ row.audit = 0 THEN NoAnchor ELSE row

\* Fault: the first release removes a shared row.
ReleasedAnchorsAtOnce(A, E) == [h \in Heights |-> IF Owners(E, h) = {} THEN A[h] ELSE NoAnchor]

ReleasedAnchors(A, E) ==
    [h \in Heights |->
        IF Owners(E, h) = {} THEN A[h]
        ELSE Kept([A[h] EXCEPT !.sess = @ - Cardinality(Owners(E, h))])]

ReleaseGenerations(E) ==
    /\ genRefs' = [k \in GenKeys |-> genRefs[k] - Cardinality(Users(E, k))]
    /\ dealGens' = [d \in Deals |-> dealGens[d] - Cardinality(OfDeal(LastUsed(E), d))]
    /\ gens' = gens - Cardinality(LastUsed(E))

(***************************************************************************)
(* Opening a session.                                                      *)
(***************************************************************************)
\* SessionWindow and the TTL; the horizon bounds the model, not the code.
ValidWindow(deadline) ==
    /\ height >= 1
    /\ deadline >= height + 2
    /\ deadline - height <= MaxTTL
    /\ deadline < MaxHeight

HasCapacity(k, deadline) ==
    /\ liveCount < MaxLive
    /\ openCount[height] < MaxOpensPerBlock
    /\ expiryCount[deadline] < MaxExpiryRefsPerBlock
    /\ genRefs[k] = 0 => dealGens[k[1]] < MaxGensPerDeal /\ gens < MaxGens

Retain(s, k, deadline) ==
    LET h == height + 1 IN
    /\ HasCapacity(k, deadline)
    /\ anchor[h].sess < MaxOpensPerBlock
    /\ session' = [session EXCEPT ![s] = [stored |-> TRUE, key |-> k,
                                          opened |-> height, deadline |-> deadline]]
    /\ anchor' = [anchor EXCEPT ![h] = Referenced(@, 1, 0)]
    /\ pending' = IF anchor[h].stored THEN pending ELSE pending \cup {h}
    /\ expiryRefs' = expiryRefs \cup {<<deadline, s>>}
    /\ liveCount' = liveCount + 1
    /\ openCount' = [openCount EXCEPT ![height] = @ + 1]
    /\ expiryCount' = [expiryCount EXCEPT ![deadline] = @ + 1]
    /\ genRefs' = [genRefs EXCEPT ![k] = @ + 1]
    /\ dealGens' = IF genRefs[k] = 0 THEN [dealGens EXCEPT ![k[1]] = @ + 1] ELSE dealGens
    /\ gens' = IF genRefs[k] = 0 THEN gens + 1 ELSE gens
    /\ UNCHANGED <<height, halted, expired, terminal, auditVars>>

Open(s, k, deadline) ==
    /\ ~halted
    /\ ~session[s].stored
    /\ ValidWindow(deadline)
    /\ Retain(s, k, deadline)

(***************************************************************************)
(* Completion of v3 sessions: the release happens in the transaction that  *)
(* settles the last obligation, and leaves the seed as its marker.         *)
(***************************************************************************)
\* The seed a response to s is checked against; NoSeed is "unavailable".
AnchorSeed(s) == IF terminal[s] # NoSeed THEN terminal[s] ELSE anchor[AnchorHeight(s)].seed

InWindow(s) == /\ FirstResponse(s) <= height
               /\ height <= session[s].deadline
               /\ s \notin expired

\* No check of the release fails for the sessions E.
TerminalOK(E) ==
    /\ \A s \in E : /\ terminal[s] = NoSeed
                    /\ anchor[AnchorHeight(s)].seed # NoSeed
                    /\ ExpiryRef(s) \in expiryRefs
    /\ \A h \in Heights : Cardinality({s \in E : session[s].deadline = h}) <= expiryCount[h]
    /\ Cardinality(E) <= liveCount
    /\ CanRelease(anchor, E)

\* Fault: the completed session stays in the expiry index.
DropFromIndexNotRef(E) ==
    /\ expiryCount' = [h \in Heights |->
                          expiryCount[h] - Cardinality({s \in E : session[s].deadline = h})]
    /\ liveCount' = liveCount - Cardinality(E)
    /\ UNCHANGED expiryRefs

\* Fault: the bucket count keeps counting the completed session.
DropFromIndexNotBucket(E) ==
    /\ expiryRefs' = expiryRefs \ {ExpiryRef(s) : s \in E}
    /\ liveCount' = liveCount - Cardinality(E)
    /\ UNCHANGED expiryCount

DropFromIndex(E) ==
    /\ expiryRefs' = expiryRefs \ {ExpiryRef(s) : s \in E}
    /\ expiryCount' = [h \in Heights |->
                          expiryCount[h] - Cardinality({s \in E : session[s].deadline = h})]
    /\ liveCount' = liveCount - Cardinality(E)

ReleaseTerminal(E) ==
    /\ TerminalOK(E)
    /\ anchor' = ReleasedAnchors(anchor, E)
    /\ ReleaseGenerations(E)
    /\ DropFromIndex(E)
    /\ terminal' = [s \in Sessions |->
                       IF s \in E THEN anchor[AnchorHeight(s)].seed ELSE terminal[s]]
    /\ UNCHANGED <<height, halted, session, expired, pending, openCount, auditVars>>

Complete(E) ==
    /\ ~halted
    /\ E # {} /\ E \subseteq (Stored \cap V3)
    /\ \A s \in E : InWindow(s)
    /\ ReleaseTerminal(E)

(***************************************************************************)
(* BeginBlock of height h: freeze and prune storage audits at an epoch     *)
(* start, capture the anchor of h, and expire the sessions of h - 1.       *)
(***************************************************************************)
EpochOf(h) == ((h - 1) \div EpochLen) + 1
IsEpochStart(h) == (h - 1) % EpochLen = 0
EpochAnchor(e) == (e - 1) * EpochLen + 1

AuditsOf(S, k) == {a \in S : <<a[1], a[3]>> = k}

\* The assignments an epoch start may freeze: one per slot, within the cap.
Inventories ==
    {inv \in SUBSET Audits :
        /\ Cardinality(inv) <= MaxAudits
        /\ \A a, b \in inv : a[1] = b[1] /\ a[2] = b[2] => a = b}

Prunable(h) == {e \in auditEpochs : IsEpochStart(h) /\ e = EpochOf(h) - 2}
PrunedAudits(h) == UNION {frozen[e] : e \in Prunable(h)}

PrunedAnchors(h) ==
    [x \in Heights |->
        IF \E e \in Prunable(h) : x = EpochAnchor(e) /\ frozen[e] # {}
        THEN Kept([anchor[x] EXCEPT !.audit = @ - Cardinality(PrunedAudits(h))])
        ELSE anchor[x]]

FrozenAnchors(A, h, inv) ==
    IF inv = {} THEN A
    ELSE [A EXCEPT ![h] = Referenced(@, 0, Cardinality(inv))]

PendingWith(h, inv) == IF inv = {} THEN pending ELSE pending \cup {h}

\* Fault: a seed that was unavailable is filled in from a later block.
CapturedAnchorsRetry(A, h, inv, hash) ==
    [x \in Heights |-> IF A[x].stored /\ x <= h /\ A[x].seed = NoSeed
                       THEN [A[x] EXCEPT !.seed = hash] ELSE A[x]]

\* An unavailable header hash leaves the seed empty for good.
CapturedAnchors(A, h, inv, hash) ==
    IF h \in PendingWith(h, inv) THEN [A EXCEPT ![h] = [@ EXCEPT !.seed = hash]] ELSE A

BlockAnchors(h, inv, hash) ==
    CapturedAnchors(FrozenAnchors(PrunedAnchors(h), h, inv), h, inv, hash)

\* Fault: the bucket of the current height is expired, one block early.
ExpiringEarly(h) == {s \in Sessions : <<h, s>> \in expiryRefs}

Expiring(h) == {s \in Sessions : <<h - 1, s>> \in expiryRefs}

AuditGenRefs(h, inv) ==
    [k \in GenKeys |-> auditGenRefs[k] - Cardinality(AuditsOf(PrunedAudits(h), k))
                                       + Cardinality(AuditsOf(inv, k))]

\* processStorageAudits returns no error.
AuditsOK(h, inv) ==
    /\ IsEpochStart(h) => EpochOf(h) \notin auditEpochs
    /\ \A e \in Prunable(h) : frozen[e] # {} =>
         /\ anchor[EpochAnchor(e)].stored
         /\ Cardinality(frozen[e]) <= anchor[EpochAnchor(e)].audit
         /\ \A k \in GenKeys : Cardinality(AuditsOf(frozen[e], k)) <= auditGenRefs[k]
    /\ inv # {} => PrunedAnchors(h)[h].audit + Cardinality(inv) <= MaxAudits
    /\ \A k \in GenKeys : AuditsOf(inv, k) # {} => AuditGenRefs(h, inv)[k] <= 2 * MaxAudits

\* The capture and the expiry loop return no error.
ExpiryOK(h, inv, hash) ==
    LET A == FrozenAnchors(PrunedAnchors(h), h, inv) IN
    /\ h \in PendingWith(h, inv) => A[h].stored /\ A[h].seed = NoSeed
    /\ expiryCount[h - 1] <= MaxExpiryRefsPerBlock
    /\ Cardinality(Expiring(h)) = expiryCount[h - 1]
    /\ \A s \in Expiring(h) : /\ session[s].stored /\ session[s].deadline = h - 1
                              /\ s \notin expired
    /\ CanRelease(BlockAnchors(h, inv, hash), Expiring(h))
    /\ expiryCount[h - 1] <= liveCount

BeginBlockOK(h, inv, hash) == AuditsOK(h, inv) /\ ExpiryOK(h, inv, hash)

ProcessRetrievalChallengeState(h, inv, hash) ==
    LET E == Expiring(h) IN
    /\ auditEpochs' = (auditEpochs \ Prunable(h)) \cup (IF IsEpochStart(h) THEN {EpochOf(h)} ELSE {})
    /\ frozen' = [e \in Epochs |->
                     IF e \in Prunable(h) THEN {}
                     ELSE IF IsEpochStart(h) /\ e = EpochOf(h) THEN inv ELSE frozen[e]]
    /\ auditGenRefs' = AuditGenRefs(h, inv)
    /\ anchor' = ReleasedAnchors(BlockAnchors(h, inv, hash), E)
    /\ pending' = PendingWith(h, inv) \ {h}
    /\ openCount' = [openCount EXCEPT ![h - 1] = 0]
    /\ expired' = expired \cup (E \cap V3)
    /\ ReleaseGenerations(E)
    /\ expiryRefs' = expiryRefs \ {<<h - 1, s>> : s \in E}
    /\ expiryCount' = [expiryCount EXCEPT ![h - 1] = 0]
    /\ liveCount' = liveCount - expiryCount[h - 1]
    /\ UNCHANGED <<session, terminal>>

\* The inventory and the header hash are inputs of the block.
BeginBlock(inv, hash) ==
    LET h == height + 1 IN
    /\ ~halted /\ height < MaxHeight
    /\ inv # {} => IsEpochStart(h)
    /\ IF BeginBlockOK(h, inv, hash)
       THEN /\ height' = h
            /\ ProcessRetrievalChallengeState(h, inv, hash)
            /\ UNCHANGED halted
       ELSE /\ halted' = TRUE
            /\ UNCHANGED <<height, sessionVars, anchor, pending, indexVars, genVars, auditVars>>

Init ==
    /\ height = 0 /\ halted = FALSE
    /\ session = [s \in Sessions |-> NoContext]
    /\ expired = {}
    /\ terminal = [s \in Sessions |-> NoSeed]
    /\ anchor = [h \in Heights |-> NoAnchor]
    /\ pending = {}
    /\ expiryRefs = {}
    /\ expiryCount = [h \in Heights |-> 0]
    /\ liveCount = 0
    /\ openCount = [h \in Heights |-> 0]
    /\ genRefs = [k \in GenKeys |-> 0]
    /\ dealGens = [d \in Deals |-> 0]
    /\ gens = 0
    /\ auditEpochs = {}
    /\ frozen = [e \in Epochs |-> {}]
    /\ auditGenRefs = [k \in GenKeys |-> 0]

Next ==
    \/ \E s \in Sessions, k \in GenKeys, deadline \in Heights : Open(s, k, deadline)
    \/ \E E \in SUBSET V3 : Complete(E)
    \/ \E inv \in Inventories, hash \in Seeds \cup {NoSeed} : BeginBlock(inv, hash)

Spec == Init /\ [][Next]_retentionVars

\* Consensus keeps producing blocks; nobody has to answer or complete a session.
FairSpec == Spec /\ WF_retentionVars(\E inv \in Inventories, hash \in Seeds \cup {NoSeed} :
                                         BeginBlock(inv, hash))

-----------------------------------------------------------------------------
Contexts == [stored : BOOLEAN, key : GenKeys, opened : Heights, deadline : Heights]
AnchorRows == [stored : BOOLEAN, sess : Nat, audit : Nat, seed : Seeds \cup {NoSeed}]

\* Every collection has the shape the keeper declares for it.
TypeOK ==
    /\ height \in Heights /\ halted \in BOOLEAN
    /\ session \in [Sessions -> Contexts]
    /\ expired \subseteq V3
    /\ terminal \in [Sessions -> Seeds \cup {NoSeed}]
    /\ anchor \in [Heights -> AnchorRows]
    /\ pending \subseteq Heights
    /\ expiryRefs \subseteq Heights \X Sessions
    /\ expiryCount \in [Heights -> Nat]
    /\ liveCount \in Nat
    /\ openCount \in [Heights -> Nat]
    /\ genRefs \in [GenKeys -> Nat]
    /\ dealGens \in [Deals -> Nat]
    /\ gens \in Nat
    /\ auditEpochs \subseteq Epochs
    /\ frozen \in [Epochs -> SUBSET Audits]
    /\ auditGenRefs \in [GenKeys -> Nat]

\* The sessions that still own challenge references.
Retained == {s \in Stored : ExpiryRef(s) \in expiryRefs}

\* BeginBlock's checks (index against count, index against context, missing or
\* captured anchors, reference underflow, audit bounds) never fail, whatever the
\* interleaving of opens, completions, expiries and epochs: an error there would
\* stop the chain.
BeginBlockNeverFails == ~halted

\* A session owns its references from its open until its deadline has passed or it
\* completes, and the expiry index holds nothing else.
HeldUntilReleased ==
    /\ expiryRefs = {ExpiryRef(s) : s \in Retained}
    /\ \A s \in Stored : s \in Retained <=> height <= session[s].deadline /\ terminal[s] = NoSeed

\* Every admission counter equals the number of sessions it stands for.
IndexCountsExact ==
    /\ liveCount = Cardinality(Retained)
    /\ \A h \in Heights :
         /\ expiryCount[h] = Cardinality({s \in Retained : session[s].deadline = h})
         /\ openCount[h] = Cardinality({s \in Stored : h = height /\ session[s].opened = h})

\* An anchor row counts exactly the retained sessions and audits that use it, and
\* exists while there is one: sharing neither leaks a row nor drops one in use.
AnchorRefsExact ==
    \A h \in Heights :
        /\ anchor[h].sess = Cardinality(Owners(Retained, h))
        /\ anchor[h].audit = Cardinality(UNION {frozen[e] : e \in {x \in auditEpochs : EpochAnchor(x) = h}})
        /\ anchor[h].stored <=> anchor[h].sess + anchor[h].audit > 0

\* The retained-generation counters equal the generations sessions still use.
GenerationRefsExact ==
    /\ \A k \in GenKeys : genRefs[k] = Cardinality(Users(Retained, k))
    /\ \A d \in Deals : dealGens[d] = Cardinality({k \in GenKeys : k[1] = d /\ Users(Retained, k) # {}})
    /\ gens = Cardinality({k \in GenKeys : Users(Retained, k) # {}})
    /\ \A k \in GenKeys : auditGenRefs[k] =
         Cardinality({ea \in auditEpochs \X Audits : ea[2] \in frozen[ea[1]] /\ <<ea[2][1], ea[2][3]>> = k})

\* Every counter that admission reads is the size of what it counts: live sessions,
\* expiry buckets, references to anchors and to generations.
CountsExact == IndexCountsExact /\ AnchorRefsExact /\ GenerationRefsExact

\* What admission reserved bounds what is really retained: the live sessions, the
\* releases one BeginBlock must do, and the content generations kept per deal and
\* overall.
RetentionBounded ==
    /\ Cardinality(Retained) <= MaxLive
    /\ \A h \in Heights : Cardinality({s \in Retained : session[s].deadline = h}) <= MaxExpiryRefsPerBlock
    /\ \A d \in Deals : Cardinality({k \in GenKeys : k[1] = d /\ Users(Retained, k) # {}}) <= MaxGensPerDeal
    /\ Cardinality({k \in GenKeys : Users(Retained, k) # {}}) <= MaxGens

\* A retained session's anchor is awaiting capture before its height and captured
\* (possibly as unavailable) from then on.
AnchorServesWindow ==
    \A s \in Retained : /\ anchor[AnchorHeight(s)].stored
                        /\ AnchorHeight(s) \in pending <=> height < AnchorHeight(s)

\* Through a session's window the seed its responses are checked against does not
\* change: not when it completes, nor when others release the shared anchor.
SeedStable ==
    [][\A s \in Stored :
         AnchorHeight(s) <= height /\ height' <= session[s].deadline
            => AnchorSeed(s)' = AnchorSeed(s)]_retentionVars

\* A session's references are released once: they never come back, and a completed
\* session is never marked expired by its old deadline.
ReleasedOnce ==
    [][\A s \in Stored :
         /\ s \notin Retained => s \notin Retained'
         /\ terminal[s] # NoSeed => s \notin expired']_retentionVars

\* The message that settles a session's last obligation is never refused by the
\* bookkeeping: within its window a session not yet completed can be released,
\* alone or together with others.
CompletionNeverRefused ==
    \A E \in SUBSET {s \in Stored \cap V3 : /\ InWindow(s) /\ terminal[s] = NoSeed
                                            /\ AnchorSeed(s) # NoSeed} : TerminalOK(E)

\* Every session's references are given back in the end, answered or not (its row is
\* never deleted).
EventuallyReleased == \A s \in Sessions : []<>(s \in Stored => s \notin Retained)

\* The comment on processRetrievalChallengeState: "It never scans sessions or
\* changes their economic/status records."
BeginBlockLeavesStatus == [][height' # height => expired' = expired]_retentionVars

(***************************************************************************)
(* The inductive invariant.                                                *)
(***************************************************************************)
\* Stored windows lie within the model's horizon.
WindowsOK ==
    \A s \in Stored : /\ session[s].opened \in 1..height
                      /\ session[s].opened + 2 <= session[s].deadline
                      /\ session[s].deadline < MaxHeight

\* Only v3 rows are completed or marked expired, and never both.
MarksOK ==
    /\ \A s \in Sessions : terminal[s] # NoSeed => s \in Stored \cap V3
    /\ expired = {s \in Stored \cap V3 : session[s].deadline < height /\ terminal[s] = NoSeed}

\* Only the next height can be awaiting capture, and it is when its row exists.
CaptureOK ==
    /\ pending = {h \in Heights : h = height + 1 /\ anchor[h].stored}
    /\ \A h \in Heights : h > height \/ ~anchor[h].stored => anchor[h].seed = NoSeed

\* The current and the previous epoch are the only ones with audits.
AuditsRetained ==
    /\ \A e \in auditEpochs : /\ e \in {EpochOf(height) - 1, EpochOf(height)}
                              /\ EpochAnchor(e) <= height
                              /\ Cardinality(frozen[e]) <= MaxAudits
    /\ \A e \in Epochs \ auditEpochs : frozen[e] = {}

\* The inductive invariant of the bookkeeping, the safety properties among its parts.
IInv ==
    /\ TypeOK /\ BeginBlockNeverFails
    /\ WindowsOK /\ MarksOK /\ HeldUntilReleased
    /\ IndexCountsExact /\ AnchorRefsExact /\ GenerationRefsExact /\ RetentionBounded
    /\ CaptureOK /\ AuditsRetained
=============================================================================
