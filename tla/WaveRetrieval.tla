---------------------------- MODULE WaveRetrieval ----------------------------
(***************************************************************************)
(* Downloading a file by paid waves (the version 2 retrieval): one wave of *)
(* sessions per MDU, verified bytes flushed before the owner acknowledges  *)
(* them, the provider's settlement requested after, and a checkpoint in    *)
(* the browser's storage that a later attempt resumes from.                *)
(*                                                                         *)
(* An attempt may end at any await: an error, a cancel or a reload.  A     *)
(* wallet transaction is one step here; that its journal sends it once is  *)
(* the subject of BrowserRetrievalV3.  A session is named by the journal   *)
(* key that opened it and its slot.                                        *)
(***************************************************************************)
EXTENDS Naturals, Integers, Sequences, FiniteSets, FiniteSetsExt, TLC

CONSTANTS
    NMdus,       \* MDUs of the file
    K, M,        \* data and parity slots
    MaxGens,     \* bound: generations of the deal
    MaxFaults,   \* bound: faults and interruptions
    Expiry,      \* whether sessions expire
    None

VARIABLES
    gen,      \* the deal's committed generation
    sess,     \* sessions on the chain: open, acked, done (settled) or expired
    journal,  \* the open journals: keys with a committed transaction
    ckpt,     \* the saved checkpoint of each generation, or None
    rows,     \* settlement rows: <<generation, MDU>> -> outcome of each session
    disk,     \* MDUs flushed to the output of each generation
    page,     \* the running attempt
    finished, \* generations whose download was handed over and settled
    faults

vars == <<gen, sess, journal, ckpt, rows, disk, page, finished, faults>>
kept == <<gen, sess, journal, ckpt, rows, disk, finished>>

Mdus == 0..(NMdus - 1)
Gens == 1..MaxGens
Slots == 0..(K + M - 1)
data == 0..(K - 1)

Sessions(key) == {<<key, s>> : s \in key.slots}
MduOf(x) == x[1].mdu
GenOf(x) == x[1].gen

Idle == [pc |-> "idle", gen |-> 0, mdu |-> 0, key |-> None, got |-> {}, tried |-> {},
         ack |-> {}, out |-> <<>>, left |-> 0]

Put(f, k, v) == (k :> v) @@ f
Drop(f, K1) == [k \in DOMAIN f \ K1 |-> f[k]]

c == ckpt[page.gen]

Fault == faults < MaxFaults /\ faults' = faults + 1

---------------------------------------------------------------------------
(* Starting an attempt *)

fetchFile ==
    /\ page.pc = "idle"
    /\ gen \notin finished
    /\ page' = [Idle EXCEPT !.pc = "open", !.gen = gen]
    /\ UNCHANGED <<kept, faults>>

(* The metadata is verified and the checkpoint opened or resumed *)
openRetrievalCheckpoint ==
    /\ page.pc = "open"
    /\ ckpt' = IF c # None THEN ckpt
               ELSE [ckpt EXCEPT ![page.gen] =
                        [through |-> -1, pending |-> None, cleanup |-> None,
                         from |-> None, unsettled |-> 0]]
    /\ page' = [page EXCEPT !.pc = "reconcile"]
    /\ UNCHANGED <<gen, sess, journal, rows, disk, finished, faults>>

(* The attempt ends: an error thrown at an await, a cancel, or a reload *)
Interrupt ==
    /\ page.pc # "idle"
    /\ Fault
    /\ page' = Idle
    /\ UNCHANGED kept

---------------------------------------------------------------------------
(* Settlement *)

(* requestProof for every session of S: the outcomes, and what is settled.  *)
(* Anything but settled and cleaned up is one fault.                        *)
Outcomes(S, out) ==
    /\ out \in [S -> {"committed", "pending", "failed", "unknown"}]
    /\ \A x \in S : out[x] = "failed" => sess[x] # "done"
    /\ IF \E x \in S : out[x] # "committed" THEN Fault ELSE UNCHANGED faults
    /\ sess' = [x \in DOMAIN sess |->
                   IF x \in S /\ out[x] = "committed" THEN "done" ELSE sess[x]]

Unsettled(out) == {x \in DOMAIN out : out[x] # "committed"}
Unknown(out) == \E x \in DOMAIN out : out[x] = "unknown"

SaveCkpt(next) == ckpt' = [ckpt EXCEPT ![page.gen] = next]

(* forget: drop the journals of settled sessions; after it, cleaned *)
forget ==
    /\ page.pc \in {"reconcile", "completed"}
    /\ c.cleanup # None
    /\ journal' = journal \ {x[1] : x \in c.cleanup.sessions}
    /\ page' = [page EXCEPT !.pc = IF @ = "reconcile" THEN "clean" ELSE "cleanWave"]
    /\ UNCHANGED <<gen, sess, ckpt, rows, disk, finished, faults>>

cleaned ==
    /\ page.pc \in {"clean", "cleanWave"}
    /\ rows' = Drop(rows, {<<page.gen, c.cleanup.mdu>>})
    /\ SaveCkpt([c EXCEPT !.cleanup = None])
    /\ page' = [page EXCEPT !.pc = IF @ = "clean" THEN "reconcile" ELSE "mdu",
                            !.mdu = IF page.pc = "clean" THEN @ ELSE @ + 1]
    /\ UNCHANGED <<gen, sess, journal, disk, finished, faults>>

(* reconcile: the rows from settlementFrom up, page.mdu the next *)
row == rows[<<page.gen, page.mdu>>]

reconcileStart ==
    /\ page.pc = "reconcile" /\ c.cleanup = None
    /\ page' = IF c.from = None
               THEN [page EXCEPT !.pc = "mdu", !.mdu = 0]
               ELSE [page EXCEPT !.pc = "rows", !.mdu = IF @ < c.from THEN c.from ELSE @]
    /\ UNCHANGED <<kept, faults>>

reconcileSkip ==
    /\ page.pc = "rows" /\ page.mdu <= c.through
    /\ <<page.gen, page.mdu>> \notin DOMAIN rows
    /\ page' = [page EXCEPT !.mdu = @ + 1]
    /\ UNCHANGED <<kept, faults>>

reconcileRow ==
    /\ page.pc = "rows" /\ page.mdu <= c.through
    /\ <<page.gen, page.mdu>> \in DOMAIN rows
    /\ \E out \in [Unsettled(row) -> {"committed", "pending", "failed", "unknown"}] :
          LET all == out @@ row
          IN  /\ Outcomes(Unsettled(row), out)
              /\ rows' = Put(rows, <<page.gen, page.mdu>>, all)
              /\ IF Unsettled(all) = {}
                 THEN /\ SaveCkpt([c EXCEPT !.cleanup = [sessions |-> DOMAIN all, mdu |-> page.mdu]])
                      /\ page' = [page EXCEPT !.pc = "reconcile"]
                 ELSE /\ UNCHANGED ckpt
                      /\ page' = IF Unknown(all) THEN Idle
                                 ELSE [page EXCEPT !.mdu = @ + 1, !.left = @ + Cardinality(Unsettled(all))]
    /\ UNCHANGED <<gen, journal, disk, finished>>

reconcileEnd ==
    /\ page.pc = "rows" /\ page.mdu > c.through
    /\ SaveCkpt([c EXCEPT !.unsettled = page.left, !.from = IF page.left > 0 THEN @ ELSE None])
    /\ page' = [page EXCEPT !.pc = "mdu", !.mdu = 0, !.left = 0]
    /\ UNCHANGED <<gen, sess, journal, rows, disk, finished, faults>>

---------------------------------------------------------------------------
(* One MDU: processMdu *)

\* Fault: the cursor's own MDU counts as still to do.
processMduAgain ==
    /\ page.pc = "mdu" /\ page.mdu \in Mdus
    /\ page' =
         IF page.mdu < c.through THEN [page EXCEPT !.mdu = @ + 1]
         ELSE [page EXCEPT !.pc = "pay", !.got = {}, !.tried = {},
                           !.key = [gen |-> page.gen, mdu |-> page.mdu, kind |-> "wave", slots |-> data]]
    /\ UNCHANGED <<kept, faults>>

processMdu ==
    /\ page.pc = "mdu" /\ page.mdu \in Mdus
    /\ page' =
         IF page.mdu <= c.through THEN [page EXCEPT !.mdu = @ + 1]
         ELSE IF c.pending # None
         THEN IF c.pending.mdu = page.mdu
              THEN [page EXCEPT !.pc = "ack", !.ack = c.pending.sessions] ELSE Idle
         ELSE [page EXCEPT !.pc = "pay", !.got = {}, !.tried = {},
                           !.key = [gen |-> page.gen, mdu |-> page.mdu, kind |-> "wave", slots |-> data]]
    /\ UNCHANGED <<kept, faults>>

(* payment.open: a journalled transaction is not sent again; the sessions   *)
(* it opened must still be live (waitForRetrievalChallenge)                 *)
open ==
    /\ page.pc = "pay"
    /\ IF gen # page.gen
       THEN page' = Idle /\ UNCHANGED <<sess, journal>>
       ELSE IF page.key \in journal
       THEN /\ page' = IF \E x \in Sessions(page.key) : sess[x] = "expired"
                       THEN Idle ELSE [page EXCEPT !.pc = "fetch"]
            /\ UNCHANGED <<sess, journal>>
       ELSE /\ journal' = journal \cup {page.key}
            /\ sess' = [x \in Sessions(page.key) |-> "open"] @@ sess
            /\ page' = [page EXCEPT !.pc = "fetch"]
    /\ UNCHANGED <<gen, ckpt, rows, disk, finished, faults>>

Rest == Sessions(page.key) \ page.got

(* fetchAndVerify of the next session; a wave also decodes and writes it *)
fetchAndVerify ==
    /\ page.pc = "fetch" /\ Rest # {}
    /\ page.key.slots \cap page.tried # page.key.slots
    /\ LET x == CHOOSE y \in Rest : y[2] = Min({z[2] : z \in Rest} \ page.tried)
       IN  page' = [page EXCEPT !.got = @ \cup {x}, !.tried = @ \cup {x[2]}]
    /\ UNCHANGED <<kept, faults>>

(* A failed fetch: a wave turns to recovery; a recovery skips the slot *)
fetchFails ==
    /\ page.pc = "fetch"
    /\ page.key.slots \cap page.tried # page.key.slots
    /\ Fault
    /\ page' = IF page.key.kind = "wave"
               THEN [page EXCEPT !.pc = "recover", !.got = {}, !.tried = {}]
               ELSE [page EXCEPT !.tried = @ \cup {Min(page.key.slots \ page.tried)}]
    /\ UNCHANGED kept

(* recoverRetrievalMdu: another batch of candidates, one for each shard missing *)
recoverRetrievalMdu ==
    /\ \/ page.pc = "recover"
       \/ page.pc = "fetch" /\ page.key.kind = "rec" /\ page.key.slots \subseteq page.tried
    /\ Cardinality(page.got) < K
    /\ LET next == Slots \ page.tried
           batch == {s \in next : Cardinality({t \in next : t < s}) < K - Cardinality(page.got)}
       IN  page' = IF next = {} THEN Idle
                   ELSE [page EXCEPT !.pc = "pay",
                            !.key = [gen |-> page.gen, mdu |-> page.mdu, kind |-> "rec", slots |-> batch]]
    /\ UNCHANGED <<kept, faults>>

(* Everything verified and written is flushed before the acknowledgement *)
flush ==
    /\ page.pc = "fetch" /\ Cardinality(page.got) = K
    /\ disk' = [disk EXCEPT ![page.gen] = @ \cup {page.mdu}]
    /\ page' = [page EXCEPT !.pc = "prepare", !.ack = page.got]
    /\ UNCHANGED <<gen, sess, journal, ckpt, rows, finished, faults>>

prepare ==
    /\ page.pc = "prepare"
    /\ IF c.cleanup # None \/ page.mdu <= c.through
       THEN page' = Idle /\ UNCHANGED ckpt
       ELSE /\ SaveCkpt([c EXCEPT !.pending = [mdu |-> page.mdu, sessions |-> page.ack]])
            /\ page' = [page EXCEPT !.pc = "ack"]
    /\ UNCHANGED <<gen, sess, journal, rows, disk, finished, faults>>

(* payment.confirm: the owner's acknowledgement, journalled as well *)
confirm ==
    /\ page.pc = "ack"
    /\ sess' = [x \in DOMAIN sess |-> IF x \in page.ack /\ sess[x] = "open" THEN "acked" ELSE sess[x]]
    /\ page' = [page EXCEPT !.pc = "proofs"]
    /\ UNCHANGED <<gen, journal, ckpt, rows, disk, finished, faults>>

confirmAndRequestRetrievalProofs ==
    /\ page.pc = "proofs"
    /\ \E out \in [page.ack -> {"committed", "pending", "failed", "unknown"}] :
          /\ Outcomes(page.ack, out)
          /\ page' = IF Unknown(out) THEN Idle ELSE [page EXCEPT !.pc = "row", !.out = out]
    /\ UNCHANGED <<gen, journal, ckpt, rows, disk, finished>>

(* complete: two writes, the row before the cursor *)
\* Fault: the cursor moves past an unsettled wave whose row is not written.
completeRowLater ==
    /\ page.pc = "row"
    /\ page' = [page EXCEPT !.pc = "complete"]
    /\ UNCHANGED <<kept, faults>>

completeRow ==
    /\ page.pc = "row"
    /\ rows' = IF Unsettled(page.out) = {} THEN rows
               ELSE Put(rows, <<page.gen, page.mdu>>, page.out)
    /\ page' = [page EXCEPT !.pc = "complete"]
    /\ UNCHANGED <<gen, sess, journal, ckpt, disk, finished, faults>>

complete ==
    /\ page.pc = "complete"
    /\ LET n == Cardinality(Unsettled(page.out))
       IN  /\ SaveCkpt([c EXCEPT !.through = page.mdu, !.pending = None,
                                 !.cleanup = IF n > 0 THEN None
                                             ELSE [sessions |-> page.ack, mdu |-> page.mdu],
                                 !.from = IF @ # None THEN @ ELSE IF n > 0 THEN page.mdu ELSE None,
                                 !.unsettled = @ + n])
           /\ page' = IF n = 0 THEN [page EXCEPT !.pc = "completed", !.out = <<>>]
                      ELSE [page EXCEPT !.pc = "mdu", !.mdu = @ + 1, !.out = <<>>]
    /\ UNCHANGED <<gen, sess, journal, rows, disk, finished, faults>>

(* handoff: the file is the user's; the checkpoint stays while payments do *)
handoff ==
    /\ page.pc = "mdu" /\ page.mdu \notin Mdus
    /\ IF c.unsettled > 0
       THEN UNCHANGED <<ckpt, disk, finished>>
       ELSE /\ ckpt' = [ckpt EXCEPT ![page.gen] = None]
            /\ disk' = [disk EXCEPT ![page.gen] = {}]
            /\ finished' = finished \cup {page.gen}
    /\ page' = Idle
    /\ UNCHANGED <<gen, sess, journal, rows, faults>>

---------------------------------------------------------------------------
(* The chain and the provider *)

(* The provider settles an acknowledged session by itself *)
ProviderSettles ==
    /\ \E x \in DOMAIN sess : sess[x] = "acked" /\ sess' = [sess EXCEPT ![x] = "done"]
    /\ UNCHANGED <<gen, journal, ckpt, rows, disk, page, finished, faults>>

SessionsExpire ==
    /\ Expiry
    /\ \E x \in DOMAIN sess : sess[x] = "open"
    /\ Fault
    /\ sess' = [x \in DOMAIN sess |-> IF sess[x] = "open" THEN "expired" ELSE sess[x]]
    /\ UNCHANGED <<gen, journal, ckpt, rows, disk, page, finished>>

NewGeneration ==
    /\ gen < MaxGens
    /\ gen' = gen + 1
    /\ UNCHANGED <<sess, journal, ckpt, rows, disk, page, finished, faults>>

---------------------------------------------------------------------------
Init ==
    /\ gen = 1
    /\ sess = <<>> /\ journal = {}
    /\ ckpt = [g \in Gens |-> None] /\ rows = <<>>
    /\ disk = [g \in Gens |-> {}]
    /\ page = Idle
    /\ finished = {}
    /\ faults = 0

Attempt ==
    \/ fetchFile \/ openRetrievalCheckpoint
    \/ forget \/ cleaned \/ reconcileStart \/ reconcileSkip \/ reconcileRow \/ reconcileEnd
    \/ processMdu \/ open \/ fetchAndVerify \/ recoverRetrievalMdu \/ flush \/ prepare
    \/ confirm \/ confirmAndRequestRetrievalProofs \/ completeRow \/ complete \/ handoff

Next == Attempt \/ Interrupt \/ fetchFails \/ ProviderSettles \/ SessionsExpire \/ NewGeneration

(* The user retries, and an attempt goes on while nothing interrupts it.   *)
Spec == Init /\ [][Next]_vars /\ WF_vars(Attempt)

---------------------------------------------------------------------------
TypeOK ==
    /\ gen \in Gens /\ finished \subseteq Gens
    /\ \A x \in DOMAIN sess : sess[x] \in {"open", "acked", "done", "expired"}
    /\ \A g \in Gens : disk[g] \subseteq Mdus /\ (ckpt[g] # None => ckpt[g].through \in -1..(NMdus - 1))
    /\ faults \in 0..MaxFaults

(* The saved work an attempt would take up: the pending wave, and the rows  *)
(* from settlementFrom up to the cursor.                                    *)
Remembered(g) ==
    LET s == ckpt[g]
    IN  IF s = None THEN {}
        ELSE (IF s.pending = None THEN {} ELSE s.pending.sessions)
             \cup UNION {DOMAIN rows[r] : r \in {q \in DOMAIN rows :
                            q[1] = g /\ s.from # None /\ q[2] \in s.from..s.through}}

(* "A pending wave is recorded BEFORE ACK" and "Verified progress is       *)
(* saved": a session the owner has acknowledged and the provider has not   *)
(* settled has its bytes flushed in the saved output, and is among the     *)
(* work the next attempt takes up, wherever the attempt was cut off        *)
(* (retrievalCheckpointCursor, executeRetrievalWindows).                   *)
AckedIsRemembered ==
    \A x \in DOMAIN sess :
        sess[x] = "acked" => /\ MduOf(x) \in disk[GenOf(x)]
                             /\ x \in Remembered(GenOf(x))

HandedOver == gen \in finished

(* A user who retries gets the file: once the deal's content and the        *)
(* network settle, the download of the current generation is handed over    *)
(* with every acknowledged session settled ("Retry the same file to resume  *)
(* and reconcile its existing sessions.", useFetch.ts:469).                 *)
RetriesFinish == []<>HandedOver
=============================================================================
