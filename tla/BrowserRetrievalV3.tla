------------------------- MODULE BrowserRetrievalV3 -------------------------
(***************************************************************************)
(* The paid v3 download of the website, as it survives reloads.            *)
(*                                                                         *)
(* A download pays for a session on the chain, fetches and verifies its    *)
(* chunks into a file of the origin's private storage, acknowledges each   *)
(* slot, asks for the provider's proof and hands the file to the user.     *)
(* Everything that costs money goes through a journal in localStorage      *)
(* (settleBrowserTransaction) and everything that was downloaded is        *)
(* described by a checkpoint there (openRetrievalV3Checkpoint), so that a  *)
(* page that is closed at any await can be resumed.                        *)
(*                                                                         *)
(* One owner and one deal: the open journal has one key for the pair.      *)
(* JavaScript runs to the next await without interruption, so one action   *)
(* is the code from one await to the next; Stop is a thrown error, an      *)
(* abort or a closed page, which all leave the storage as it is and give   *)
(* the Web locks back.                                                     *)
(***************************************************************************)
EXTENDS Integers, FiniteSets, Sequences, FiniteSetsExt, TLC

CONSTANTS Tabs, Files, Slots,
          Chunks,        \* chunks of each slot of a download
          MaxNonce,      \* bound: sessions of the owner and deal
          MaxTx,         \* bound: transactions the wallet sends
          MaxGen,        \* bound: generations of the deal
          MaxId,         \* bound: output files created
          None

ASSUME BrowserConstants == /\ Chunks \in Nat \ {0} /\ Slots \subseteq Nat /\ IsFiniteSet(Slots)
                           /\ None \notin Tabs \cup Files \cup Slots
                           /\ MaxNonce \in Nat \ {0} /\ MaxId \in Nat \ {0}
                           /\ MaxTx \in Nat /\ MaxGen \in Nat \ {0}

VARIABLES
    \* the chain, as the browser reads it
    latest,      \* last nonce of the owner and deal
    gen,         \* admitted generation of the deal
    sess,        \* session of each nonce
    \* the wallet
    asks,        \* prompts the user has not answered
    txs,         \* transactions sent; the index is the hash
    \* localStorage and the private file system
    journal,     \* transaction records by key
    ckpt,        \* checkpoint of each file
    cache,       \* the settled cache: one entry
    out,         \* chunks flushed to each output file
    ids,         \* output files created so far
    \* the pages
    tab,         \* what each tab is doing
    ckptLock, payLock, cacheLock

chainVars == <<latest, gen, sess>>
walletVars == <<asks, txs>>
storeVars == <<journal, ckpt, cache, out, ids>>
lockVars == <<ckptLock, payLock, cacheLock>>
browserVars == <<latest, gen, sess, asks, txs, journal, ckpt, cache, out, ids, tab, ckptLock, payLock, cacheLock>>

Nonces == 1..MaxNonce
Ids == 1..MaxId
OpenKey == <<"open", 0, None>>
AckKey(n, s) == <<"ack", n, s>>
RefundKey(n) == <<"refund", n, None>>
Keys == {OpenKey} \cup {AckKey(n, s) : n \in Nonces, s \in Slots} \cup {RefundKey(n) : n \in Nonces}

NoIntent == [n |-> 0, file |-> None, gen |-> 0]
NoEntry == [state |-> "none", hash |-> 0, intent |-> NoIntent]
NoCkpt == [id |-> 0, gen |-> 0, sn |-> 0, settled |-> FALSE, cursor |-> [s \in Slots |-> 0]]
NoSess == [mine |-> FALSE, file |-> None, gen |-> 0, acked |-> {}, proved |-> {}, refunded |-> {}, expired |-> FALSE]
NoCache == [file |-> None, id |-> 0]
Idle == [pc |-> "idle", file |-> None, gen |-> 0, saved |-> FALSE, op |-> None, slot |-> None, sn |-> 0, seen |-> NoSess, prev |-> NoCache]

(***************************************************************************)
(* The session a browser observes.                                         *)
(***************************************************************************)
Settled(x) == x.acked \cap x.proved
LockedFee(x) == Slots \ (Settled(x) \cup x.refunded)
OutputComplete(c) == \A s \in Slots : c.cursor[s] = Chunks

\* The key of the journal a tab is working on.
KeyOf(x) == CASE x.op = "open" -> OpenKey
              [] x.op = "ack" -> AckKey(x.sn, x.slot)
              [] x.op = "refund" -> RefundKey(x.sn)

(***************************************************************************)
(* The chain and the wallet.                                               *)
(***************************************************************************)
\* A transaction is included. An open is refused when its nonce is not the next or its
\* generation is no longer the admitted one, an acknowledgement when the slot has one or
\* the deadline has passed, a refund before the deadline or when nothing is left.
Accepted(x) ==
    CASE x.op = "open" -> x.intent.n = latest + 1 /\ x.intent.gen = gen
      [] x.op = "ack" -> x.slot \notin sess[x.intent.n].acked /\ ~sess[x.intent.n].expired
      [] x.op = "refund" -> sess[x.intent.n].expired /\ LockedFee(sess[x.intent.n]) # {}

Include(h) ==
    /\ txs[h].st = "pending"
    /\ LET x == txs[h] n == x.intent.n IN
       IF Accepted(x)
       THEN /\ txs' = [txs EXCEPT ![h].st = "success"]
            /\ sess' = CASE x.op = "open" -> [sess EXCEPT ![n] = [NoSess EXCEPT !.mine = TRUE, !.file = x.intent.file, !.gen = x.intent.gen]]
                         [] x.op = "ack" -> [sess EXCEPT ![n].acked = @ \cup {x.slot}]
                         [] x.op = "refund" -> [sess EXCEPT ![n].refunded = LockedFee(sess[n])]
            /\ latest' = IF x.op = "open" THEN n ELSE latest
       ELSE txs' = [txs EXCEPT ![h].st = "reverted"] /\ UNCHANGED <<sess, latest>>
    /\ UNCHANGED <<gen, asks, storeVars, tab, lockVars>>

\* A provider proves a slot, with or without the browser having asked for it.
Prove(n, s) ==
    /\ n <= latest /\ ~sess[n].expired /\ s \notin sess[n].proved
    /\ sess' = [sess EXCEPT ![n].proved = @ \cup {s}]
    /\ UNCHANGED <<latest, gen, walletVars, storeVars, tab, lockVars>>

Expire(n) ==
    /\ n <= latest /\ ~sess[n].expired
    /\ sess' = [sess EXCEPT ![n].expired = TRUE]
    /\ UNCHANGED <<latest, gen, walletVars, storeVars, tab, lockVars>>

NewGeneration ==
    /\ gen < MaxGen
    /\ gen' = gen + 1
    /\ UNCHANGED <<latest, sess, walletVars, storeVars, tab, lockVars>>

\* The same owner opens a session of the deal from another browser.
ForeignOpen ==
    /\ latest < MaxNonce
    /\ latest' = latest + 1
    /\ sess' = [sess EXCEPT ![latest + 1] = [NoSess EXCEPT !.gen = gen]]
    /\ UNCHANGED <<gen, walletVars, storeVars, tab, lockVars>>

(***************************************************************************)
(* Starting a download: the checkpoint, its lock and its output.           *)
(***************************************************************************)
Goto(t, pc) == tab' = [tab EXCEPT ![t].pc = pc]

\* The tab that stops gives its locks back; a prompt it opened stays in the wallet.
FreeLocks(t) ==
    /\ ckptLock' = [f \in Files |-> IF ckptLock[f] = t THEN None ELSE ckptLock[f]]
    /\ payLock' = IF payLock = t THEN None ELSE payLock
    /\ cacheLock' = IF cacheLock = t THEN None ELSE cacheLock

Leave(t) == tab' = [tab EXCEPT ![t] = Idle] /\ FreeLocks(t)

Stop(t) ==
    /\ tab[t].pc # "idle"
    /\ Leave(t)
    /\ asks' = {[a EXCEPT !.tab = IF @ = t THEN None ELSE @] : a \in asks}
    /\ UNCHANGED <<chainVars, txs, storeVars>>

\* fetchFile: a saved checkpoint is opened under its lock, otherwise the active generation
\* is read and the request planned from it.
Start(t, f) ==
    /\ tab[t].pc = "idle"
    /\ IF ckpt[f] = NoCkpt
       THEN /\ tab' = [tab EXCEPT ![t] = [Idle EXCEPT !.pc = "planned", !.file = f, !.gen = gen]]
            /\ UNCHANGED lockVars
       ELSE /\ ckptLock[f] = None
            /\ out[ckpt[f].id] # None
            /\ tab' = [tab EXCEPT ![t] = [Idle EXCEPT !.pc = "saved", !.file = f, !.saved = TRUE, !.gen = ckpt[f].gen, !.sn = ckpt[f].sn]]
            /\ ckptLock' = [ckptLock EXCEPT ![f] = t]
            /\ UNCHANGED <<payLock, cacheLock>>
    /\ UNCHANGED <<chainVars, walletVars, storeVars>>

\* openRetrievalV3Checkpoint after planning: another tab may have saved one in the meantime.
OpenCheckpoint(t) ==
    LET f == tab[t].file c == ckpt[f] IN
    /\ tab[t].pc = "planned" /\ ckptLock[f] = None
    /\ ckptLock' = [ckptLock EXCEPT ![f] = t]
    /\ \/ /\ c # NoCkpt /\ c.gen = tab[t].gen /\ out[c.id] # None
          /\ tab' = [tab EXCEPT ![t].pc = IF c.sn = 0 THEN "pay" ELSE "observe", ![t].sn = c.sn]
          /\ UNCHANGED <<ckpt, out, ids>>
       \/ /\ c = NoCkpt /\ ids < MaxId
          /\ ids' = ids + 1
          /\ out' = [out EXCEPT ![ids + 1] = [s \in Slots |-> 0]]
          /\ ckpt' = [ckpt EXCEPT ![f] = [NoCkpt EXCEPT !.id = ids + 1, !.gen = tab[t].gen]]
          /\ Goto(t, "pay")
    /\ UNCHANGED <<chainVars, walletVars, journal, cache, payLock, cacheLock>>

\* A saved checkpoint: a settled copy is handed out at once, a bound session is observed, an
\* unbound one is opened with the frozen request.
Resume(t) ==
    LET f == tab[t].file c == ckpt[f] IN
    /\ tab[t].pc = "saved"
    /\ \/ c.sn # 0 /\ cache.file = f /\ c.settled /\ OutputComplete(c) /\ Goto(t, "handoff")
       \/ c.sn # 0 /\ cache.file # f /\ Goto(t, "recover")
       \/ c.sn = 0 /\ Goto(t, "pay")
    /\ UNCHANGED <<chainVars, walletVars, storeVars, lockVars>>

(***************************************************************************)
(* settleBrowserTransaction.  The caller names the operation in op.        *)
(***************************************************************************)
\* openV3 takes the lock of the owner and deal; the locks of the other two keys are never
\* contended, since the holder of the checkpoint lock is the only one that uses them.
Pay(t) ==
    /\ tab[t].pc = "pay" /\ payLock = None
    /\ payLock' = t
    /\ tab' = [tab EXCEPT ![t].pc = "tx", ![t].op = "open"]
    /\ UNCHANGED <<chainVars, walletVars, storeVars, ckptLock, cacheLock>>

\* Fault: a broadcast without a hash is prepared again.
RetryableUnknown(j) == j.state \in {"none", "prepared", "reverted"} \/ (j.state = "broadcasting" /\ j.hash = 0)

Retryable(j) == j.state \in {"none", "prepared", "reverted"}

\* What prepare puts into the record: an open takes the nonce after the latest one and
\* refuses when the generation has changed.
Prepared(t) ==
    IF tab[t].op = "open"
    THEN [n |-> latest + 1, file |-> tab[t].file, gen |-> tab[t].gen]
    ELSE [NoIntent EXCEPT !.n = tab[t].sn]
MayPrepare(t) == tab[t].op = "open" => gen = tab[t].gen /\ latest < MaxNonce

BeginTx(t) ==
    LET j == journal[KeyOf(tab[t])] IN
    /\ tab[t].pc = "tx"
    /\ Goto(t, CASE Retryable(j) -> "preparing"
                 [] j.state = "committed" -> "paid"
                 [] j.state = "broadcasting" /\ j.hash # 0 -> "receipt"
                 [] OTHER -> "reconcile")
    /\ UNCHANGED <<chainVars, walletVars, storeVars, lockVars>>

\* The record says broadcasting before the wallet is asked.
Broadcast(t) ==
    LET k == KeyOf(tab[t]) IN
    /\ tab[t].pc = "preparing" /\ MayPrepare(t)
    /\ journal' = [journal EXCEPT ![k] = [state |-> "broadcasting", hash |-> 0, intent |-> Prepared(t)]]
    /\ asks' = asks \cup {[tab |-> t, op |-> tab[t].op, slot |-> tab[t].slot, intent |-> Prepared(t)]}
    /\ Goto(t, "asked")
    /\ UNCHANGED <<chainVars, txs, ckpt, cache, out, ids, lockVars>>

\* Aborted while preparing: the record is left prepared.
AbortPrepared(t) ==
    /\ tab[t].pc = "preparing" /\ MayPrepare(t)
    /\ journal' = [journal EXCEPT ![KeyOf(tab[t])] = [state |-> "prepared", hash |-> 0, intent |-> Prepared(t)]]
    /\ Leave(t)
    /\ UNCHANGED <<chainVars, walletVars, ckpt, cache, out, ids>>

\* The user approves; the hash reaches the tab that asked, if it is still there.
WalletSends(a) ==
    /\ a \in asks /\ Len(txs) < MaxTx
    /\ asks' = asks \ {a}
    /\ txs' = Append(txs, [op |-> a.op, slot |-> a.slot, intent |-> a.intent, st |-> "pending"])
    /\ IF a.tab = None
       THEN UNCHANGED <<journal, tab>>
       ELSE /\ journal' = [journal EXCEPT ![KeyOf(tab[a.tab])].hash = Len(txs) + 1]
            /\ Goto(a.tab, "receipt")
    /\ UNCHANGED <<chainVars, ckpt, cache, out, ids, lockVars>>

\* Code 4001: only this answer proves that nothing was sent.
WalletRejects(a) ==
    /\ a \in asks
    /\ asks' = asks \ {a}
    /\ IF a.tab = None
       THEN UNCHANGED <<journal, tab, lockVars>>
       ELSE /\ journal' = [journal EXCEPT ![KeyOf(tab[a.tab])].state = "prepared"]
            /\ Leave(a.tab)
    /\ UNCHANGED <<chainVars, txs, ckpt, cache, out, ids>>

\* waitForTransactionReceipt: success, reverted, or nothing in time.
Receipt(t) ==
    LET k == KeyOf(tab[t]) IN
    /\ tab[t].pc = "receipt"
    /\ \/ /\ txs[journal[k].hash].st = "success"
          /\ journal' = [journal EXCEPT ![k].state = "committed"]
          /\ Goto(t, "paid") /\ UNCHANGED lockVars
       \/ /\ txs[journal[k].hash].st = "reverted"
          /\ journal' = [journal EXCEPT ![k].state = "reverted"]
          /\ Leave(t)
       \/ Goto(t, "reconcile") /\ UNCHANGED <<journal, lockVars>>
    /\ UNCHANGED <<chainVars, walletVars, ckpt, cache, out, ids>>

\* What the chain must show for a transaction of unknown outcome to count as committed.
Reconciles(t) ==
    LET i == journal[KeyOf(tab[t])].intent IN
    CASE tab[t].op = "open" -> /\ i.n <= latest /\ sess[i.n].mine
                               /\ sess[i.n].file = i.file /\ sess[i.n].gen = i.gen
      [] tab[t].op = "ack" -> tab[t].slot \in sess[i.n].acked
      [] tab[t].op = "refund" -> sess[i.n].refunded # tab[t].seen.refunded

Reconcile(t) ==
    /\ tab[t].pc = "reconcile"
    /\ IF Reconciles(t)
       THEN /\ journal' = [journal EXCEPT ![KeyOf(tab[t])].state = "committed"]
            /\ Goto(t, "paid") /\ UNCHANGED lockVars
       ELSE Leave(t) /\ UNCHANGED journal
    /\ UNCHANGED <<chainVars, walletVars, ckpt, cache, out, ids>>

(***************************************************************************)
(* After the payment: bind, observe, recover.                              *)
(***************************************************************************)
\* openV3 returns: the committed record must be the request of this download; the session
\* is read and the checkpoint bound to it.
Bind(t) ==
    LET f == tab[t].file i == journal[OpenKey].intent IN
    /\ tab[t].pc = "paid" /\ tab[t].op = "open"
    /\ IF i.file = f /\ i.gen = tab[t].gen
       THEN /\ ckpt' = [ckpt EXCEPT ![f].sn = i.n, ![f].settled = LockedFee(sess[i.n]) = {}]
            /\ tab' = [tab EXCEPT ![t].pc = IF tab[t].saved THEN "recover" ELSE "observe", ![t].sn = i.n]
            /\ payLock' = None
            /\ UNCHANGED <<ckptLock, cacheLock>>
       ELSE Leave(t) /\ UNCHANGED ckpt
    /\ UNCHANGED <<chainVars, walletVars, journal, cache, out, ids>>

\* refresh: the checkpoint keeps what was last seen of the session.
Seen(t, pc) ==
    LET n == tab[t].sn IN
    /\ tab' = [tab EXCEPT ![t].seen = sess[n], ![t].pc = pc]
    /\ ckpt' = [ckpt EXCEPT ![tab[t].file].settled = LockedFee(sess[n]) = {}]

\* recoverRetrievalV3Checkpoint: an expired session is refunded first when a fee is locked.
Recover(t) ==
    /\ tab[t].pc = "recover"
    /\ LET x == sess[tab[t].sn] IN
       /\ ckpt' = [ckpt EXCEPT ![tab[t].file].settled = LockedFee(x) = {}]
       /\ tab' = [tab EXCEPT ![t].seen = x,
                             ![t].op = IF x.expired /\ LockedFee(x) # {} THEN "refund" ELSE @,
                             ![t].pc = IF ~x.expired THEN "observe"
                                       ELSE IF LockedFee(x) # {} THEN "tx" ELSE "expired"]
    /\ UNCHANGED <<chainVars, walletVars, journal, cache, out, ids, lockVars>>

\* The refund is committed; what is left is either a complete file or nothing of use.
RefundReturns(t) ==
    /\ tab[t].pc = "paid" /\ tab[t].op = "refund"
    /\ Seen(t, "expired")
    /\ UNCHANGED <<chainVars, walletVars, journal, cache, out, ids, lockVars>>

ExpiredRecovery(t) ==
    /\ tab[t].pc = "expired"
    /\ Goto(t, "forget")
    /\ UNCHANGED <<chainVars, walletVars, storeVars, lockVars>>

(***************************************************************************)
(* executeRetrievalV3: slots in order, chunks in order within a slot.      *)
(***************************************************************************)
Observe(t) ==
    /\ tab[t].pc = "observe"
    /\ tab' = [tab EXCEPT ![t].pc = "execute", ![t].seen = sess[tab[t].sn]]
    /\ UNCHANGED <<chainVars, walletVars, storeVars, lockVars>>

\* The next slot that is not acknowledged; a slot acknowledged before its output was
\* complete stops the download.
Sound(t) == \A s \in tab[t].seen.acked : ckpt[tab[t].file].cursor[s] = Chunks
NextSlot(t) == Min(Slots \ tab[t].seen.acked)

\* Fault: the cursor moves on without a flush.
WriteChunkUnflushed(t) ==
    /\ tab[t].pc = "execute" /\ Sound(t) /\ Slots # tab[t].seen.acked
    /\ ckpt[tab[t].file].cursor[NextSlot(t)] < Chunks
    /\ Goto(t, "flushed")
    /\ UNCHANGED <<chainVars, walletVars, storeVars, lockVars>>

\* A verified chunk is decoded, written and flushed.
WriteChunk(t) ==
    LET f == tab[t].file c == ckpt[f] s == NextSlot(t) IN
    /\ tab[t].pc = "execute" /\ Sound(t) /\ Slots # tab[t].seen.acked
    /\ c.cursor[s] < Chunks
    /\ out' = [out EXCEPT ![c.id][s] = c.cursor[s] + 1]
    /\ Goto(t, "flushed")
    /\ UNCHANGED <<chainVars, walletVars, journal, ckpt, cache, ids, lockVars>>

Advance(t) ==
    LET f == tab[t].file IN
    /\ tab[t].pc = "flushed"
    /\ ckpt' = [ckpt EXCEPT ![f].cursor[NextSlot(t)] = @ + 1]
    /\ Goto(t, "execute")
    /\ UNCHANGED <<chainVars, walletVars, journal, cache, out, ids, lockVars>>

Acknowledge(t) ==
    /\ tab[t].pc = "execute" /\ Sound(t) /\ Slots # tab[t].seen.acked
    /\ ckpt[tab[t].file].cursor[NextSlot(t)] = Chunks
    /\ tab' = [tab EXCEPT ![t].pc = "tx", ![t].op = "ack", ![t].slot = NextSlot(t)]
    /\ UNCHANGED <<chainVars, walletVars, storeVars, lockVars>>

AckReturns(t) ==
    /\ tab[t].pc = "paid" /\ tab[t].op = "ack"
    /\ Seen(t, "execute")
    /\ UNCHANGED <<chainVars, walletVars, journal, cache, out, ids, lockVars>>

\* Up to three rounds ask for the proof of an acknowledged slot and observe the session; what
\* the provider makes of the request is Prove.
ProofRound(t) ==
    /\ tab[t].pc = "execute" /\ Sound(t) /\ LockedFee(tab[t].seen) \cap tab[t].seen.acked # {}
    /\ Seen(t, "execute")
    /\ UNCHANGED <<chainVars, walletVars, journal, cache, out, ids, lockVars>>

\* Only a session without locked fee is forgotten.
Forgettable(x) == LockedFee(x) = {}

Finish(t) ==
    LET x == tab[t].seen IN
    /\ tab[t].pc = "execute" /\ Sound(t) /\ Slots = x.acked
    /\ ckpt' = [ckpt EXCEPT ![tab[t].file].settled = LockedFee(x) = {}]
    /\ Goto(t, IF Forgettable(x) THEN "forget" ELSE "handoff")
    /\ UNCHANGED <<chainVars, walletVars, journal, cache, out, ids, lockVars>>

(***************************************************************************)
(* forgetV3, handoff and the settled cache.                                *)
(***************************************************************************)
\* The open record goes only if it is still the record of this session.
ForgetOpen(t) ==
    LET n == tab[t].sn IN
    /\ tab[t].pc = "forget" /\ payLock = None
    /\ journal' = IF journal[OpenKey].intent.n = n THEN [journal EXCEPT ![OpenKey] = NoEntry] ELSE journal
    /\ Goto(t, "forgetRest")
    /\ UNCHANGED <<chainVars, walletVars, ckpt, cache, out, ids, lockVars>>

ForgetRest(t) ==
    LET n == tab[t].sn c == ckpt[tab[t].file] IN
    /\ tab[t].pc = "forgetRest"
    /\ journal' = [k \in Keys |-> IF k[2] = n THEN NoEntry ELSE journal[k]]
    /\ Goto(t, IF OutputComplete(c) THEN "handoff" ELSE "discard")
    /\ UNCHANGED <<chainVars, walletVars, ckpt, cache, out, ids, lockVars>>

\* discard: the checkpoint, then the output.
Discard(t) ==
    LET f == tab[t].file IN
    /\ tab[t].pc = "discard"
    /\ ckpt' = [ckpt EXCEPT ![f] = NoCkpt]
    /\ tab' = [tab EXCEPT ![t].pc = "cleanup", ![t].prev = [file |-> f, id |-> ckpt[f].id]]
    /\ UNCHANGED <<chainVars, walletVars, journal, cache, out, ids, lockVars>>

Cleanup(t) ==
    /\ tab[t].pc = "cleanup"
    /\ out' = [out EXCEPT ![tab[t].prev.id] = None]
    /\ Leave(t)
    /\ UNCHANGED <<chainVars, walletVars, journal, ckpt, cache, ids>>

Evictable(c) == c.sn # 0 /\ c.settled /\ OutputComplete(c)

\* handoff: what is not settled stays; the rest replaces the entry of the cache, whose old
\* output is removed under its own lock. When that is not possible the checkpoint goes and
\* the output lives until the user releases the download.
Handoff(t) ==
    LET f == tab[t].file c == ckpt[f] p == cache
        free == cacheLock = None
        drop == /\ ckpt' = [ckpt EXCEPT ![f] = NoCkpt]
                /\ tab' = [tab EXCEPT ![t].pc = "cleanup", ![t].prev = [file |-> f, id |-> c.id]]
                /\ UNCHANGED <<cache, lockVars>>
    IN
    /\ tab[t].pc = "handoff"
    /\ \/ ~Evictable(c) /\ Leave(t) /\ UNCHANGED <<ckpt, cache>>
       \/ /\ Evictable(c) /\ ~(free /\ (p = NoCache \/ p = [file |-> f, id |-> c.id]))
          /\ ~(free /\ p.file # f /\ p # NoCache /\ ckptLock[p.file] = None /\ Evictable(ckpt[p.file]) /\ ckpt[p.file].id = p.id)
          /\ drop
       \/ /\ Evictable(c) /\ free /\ (p = NoCache \/ p = [file |-> f, id |-> c.id])
          /\ cache' = [file |-> f, id |-> c.id]
          /\ Goto(t, "holding") /\ UNCHANGED <<ckpt, lockVars>>
       \/ /\ Evictable(c) /\ free /\ p # NoCache /\ p.file # f /\ ckptLock[p.file] = None
          /\ Evictable(ckpt[p.file]) /\ ckpt[p.file].id = p.id
          /\ cacheLock' = t /\ ckptLock' = [ckptLock EXCEPT ![p.file] = t]
          /\ tab' = [tab EXCEPT ![t].pc = "evict", ![t].prev = p]
          /\ UNCHANGED <<ckpt, cache, payLock>>
    /\ UNCHANGED <<chainVars, walletVars, journal, out, ids>>

\* removeSettledCacheEntry: the output, then the checkpoint, then the new entry.
EvictOutput(t) ==
    /\ tab[t].pc = "evict"
    /\ out' = [out EXCEPT ![tab[t].prev.id] = None]
    /\ Goto(t, "evicted")
    /\ UNCHANGED <<chainVars, walletVars, journal, ckpt, cache, ids, lockVars>>

EvictCheckpoint(t) ==
    LET p == tab[t].prev IN
    /\ tab[t].pc = "evicted"
    /\ ckpt' = [ckpt EXCEPT ![p.file] = NoCkpt]
    /\ ckptLock' = [ckptLock EXCEPT ![p.file] = None]
    /\ Goto(t, IF tab[t].op = "purge" THEN "purged" ELSE "entry")
    /\ UNCHANGED <<chainVars, walletVars, journal, cache, out, ids, payLock, cacheLock>>

PutEntry(t) ==
    LET f == tab[t].file IN
    /\ tab[t].pc = "entry"
    /\ cache' = [file |-> f, id |-> ckpt[f].id]
    /\ cacheLock' = None
    /\ Goto(t, "holding")
    /\ UNCHANGED <<chainVars, walletVars, journal, ckpt, out, ids, ckptLock, payLock>>

\* The user releases the download, which gives the lock of its checkpoint back.
Release(t) ==
    /\ tab[t].pc = "holding"
    /\ Leave(t)
    /\ UNCHANGED <<chainVars, walletVars, storeVars>>

\* purgeSettledRetrievalV3Cache and ...ForKey.
Purge(t) ==
    /\ tab[t].pc = "idle" /\ cache # NoCache /\ cacheLock = None
    /\ ckptLock[cache.file] = None
    /\ Evictable(ckpt[cache.file]) /\ ckpt[cache.file].id = cache.id
    /\ cacheLock' = t /\ ckptLock' = [ckptLock EXCEPT ![cache.file] = t]
    /\ tab' = [tab EXCEPT ![t] = [Idle EXCEPT !.pc = "evict", !.op = "purge", !.prev = cache]]
    /\ UNCHANGED <<chainVars, walletVars, storeVars, payLock>>

PurgeEntry(t) ==
    /\ tab[t].pc = "purged"
    /\ cache' = NoCache
    /\ Leave(t)
    /\ UNCHANGED <<chainVars, walletVars, journal, ckpt, out, ids>>

(***************************************************************************)
(* discardUnboundRetrievalV3Checkpoint.                                    *)
(***************************************************************************)
\* Fault: a broadcast whose hash was lost is taken for unpaid.
SafelyUnpaidNoHash(j) == j.state = "none" \/ (j.state \in {"prepared", "broadcasting"} /\ j.hash = 0) \/ j.state = "reverted"

SafelyUnpaid(j) == j.state = "none" \/ (j.state = "prepared" /\ j.hash = 0) \/ (j.state = "reverted" /\ j.hash # 0)

SameRequest(j, f) == j.intent.file = f /\ j.intent.gen = ckpt[f].gen

DiscardUnbound(t, f) ==
    /\ tab[t].pc = "idle" /\ ckpt[f] # NoCkpt
    /\ ckptLock[f] = None /\ payLock = None
    /\ ckpt[f].sn = 0 /\ SafelyUnpaid(journal[OpenKey])
    /\ ckptLock' = [ckptLock EXCEPT ![f] = t] /\ payLock' = t
    /\ out' = [out EXCEPT ![ckpt[f].id] = None]
    /\ tab' = [tab EXCEPT ![t] = [Idle EXCEPT !.pc = "unbound", !.file = f]]
    /\ UNCHANGED <<chainVars, walletVars, journal, ckpt, cache, ids, cacheLock>>

DiscardRecords(t) ==
    LET f == tab[t].file IN
    /\ tab[t].pc = "unbound"
    /\ journal' = IF SameRequest(journal[OpenKey], f) THEN [journal EXCEPT ![OpenKey] = NoEntry] ELSE journal
    /\ ckpt' = [ckpt EXCEPT ![f] = NoCkpt]
    /\ Leave(t)
    /\ UNCHANGED <<chainVars, walletVars, cache, out, ids>>

(***************************************************************************)
(* The specification.                                                      *)
(***************************************************************************)
\* An earlier session of the owner and deal, settled and past its deadline.
Earlier == [NoSess EXCEPT !.gen = 1, !.acked = Slots, !.proved = Slots, !.expired = TRUE]
Kept == [id |-> 1, gen |-> 1, sn |-> 1, settled |-> TRUE, cursor |-> [s \in Slots |-> Chunks]]

\* What a visit finds: the storage empty, or in the cache the copy of f that the earlier
\* session paid for (forgetV3 has removed its journal records).
Visit(f) ==
    /\ latest = 1 /\ gen = 1
    /\ sess = [n \in Nonces |-> IF n = 1 THEN [Earlier EXCEPT !.mine = f # None, !.file = f] ELSE NoSess]
    /\ ckpt = [g \in Files |-> IF g = f THEN Kept ELSE NoCkpt]
    /\ cache = IF f = None THEN NoCache ELSE [file |-> f, id |-> 1]
    /\ ids = IF f = None THEN 0 ELSE 1
    /\ out = [i \in Ids |-> IF i <= ids THEN Kept.cursor ELSE None]

BrowserInit ==
    /\ \E f \in Files \cup {None} : Visit(f)
    /\ asks = {} /\ txs = <<>>
    /\ journal = [k \in Keys |-> NoEntry]
    /\ tab = [t \in Tabs |-> Idle]
    /\ ckptLock = [f \in Files |-> None] /\ payLock = None /\ cacheLock = None

Chain == \/ \E h \in DOMAIN txs : Include(h)
         \/ \E n \in Nonces : Expire(n) \/ \E s \in Slots : Prove(n, s)
         \/ NewGeneration \/ ForeignOpen
Wallet == \E a \in asks : WalletSends(a) \/ WalletRejects(a)
Page(t) ==
    \/ Stop(t) \/ OpenCheckpoint(t) \/ Resume(t) \/ Pay(t) \/ BeginTx(t) \/ Broadcast(t) \/ AbortPrepared(t)
    \/ Receipt(t) \/ Reconcile(t) \/ Bind(t) \/ Recover(t) \/ RefundReturns(t) \/ ExpiredRecovery(t)
    \/ Observe(t) \/ WriteChunk(t) \/ Advance(t) \/ Acknowledge(t) \/ AckReturns(t) \/ ProofRound(t) \/ Finish(t)
    \/ ForgetOpen(t) \/ ForgetRest(t) \/ Discard(t) \/ Cleanup(t) \/ Handoff(t)
    \/ EvictOutput(t) \/ EvictCheckpoint(t) \/ PutEntry(t) \/ Release(t) \/ Purge(t) \/ PurgeEntry(t) \/ DiscardRecords(t)
    \/ \E f \in Files : Start(t, f) \/ DiscardUnbound(t, f)

BrowserNext == Chain \/ Wallet \/ \E t \in Tabs : Page(t)
BrowserSpec == BrowserInit /\ [][BrowserNext]_browserVars

(***************************************************************************)
(* Properties.                                                             *)
(***************************************************************************)
Paid(n) == sess[n].mine /\ LockedFee(sess[n]) # {}
Asked(op) == {a \in asks : a.op = op}
Sent(op) == {h \in DOMAIN txs : txs[h].op = op /\ txs[h].st = "pending"}

\* At any time at most one payment of the owner for the deal is at stake: prompts for an open,
\* opens in flight and sessions with a locked fee together are never two, whatever the tabs,
\* reloads and lost wallet answers (the journal of settleBrowserTransaction, forgetV3).
SinglePayment ==
    Cardinality(Asked("open")) + Cardinality(Sent("open")) + Cardinality({n \in Nonces : Paid(n)}) <= 1

\* A session with a locked fee can always be resumed: the checkpoint of its file is there with
\* the frozen generation and its output, and it is bound to the session or the journal names
\* it, so that fetchFile binds it without paying again.
PaidIsRecoverable ==
    \A n \in Nonces : Paid(n) =>
        LET f == sess[n].file c == ckpt[f] j == journal[OpenKey] IN
        /\ c # NoCkpt /\ c.gen = sess[n].gen /\ out[c.id] # None
        /\ \/ c.sn = n
           \/ c.sn = 0 /\ j.intent = [n |-> n, file |-> f, gen |-> c.gen] /\ j.state \in {"broadcasting", "committed"}

\* No slot is acknowledged before its bytes are safe: when an acknowledgement is asked for, in
\* flight or on the chain and a fee is still locked, the whole slot has been flushed to the
\* output and the checkpoint says so; a cursor is never ahead of the flushed output.
AckedIsDurable ==
    /\ \A f \in Files : ckpt[f] # NoCkpt /\ out[ckpt[f].id] # None =>
           \A s \in Slots : ckpt[f].cursor[s] <= out[ckpt[f].id][s]
    /\ \A n \in Nonces : Paid(n) =>
           \A s \in sess[n].acked \cup {a.slot : a \in {b \in Asked("ack") : b.intent.n = n}}
                                 \cup {txs[h].slot : h \in {i \in Sent("ack") : txs[i].intent.n = n}} :
               LET c == ckpt[sess[n].file] IN c.sn = n /\ c.cursor[s] = Chunks /\ out[c.id][s] = Chunks

\* "Unresolved payment recovery is never part of the evictable cache" (handoff in
\* retrievalV3Checkpoint.ts): the file the cache names has no checkpoint of an unresolved
\* payment, on which fetchFile would refuse to resume.
RecoveryNeverInCache ==
    cache # NoCache => LET c == ckpt[cache.file] IN c.sn = 0 \/ ~Paid(c.sn)

\* Tabs and files are interchangeable.
BrowserSymmetry == Permutations(Tabs) \cup Permutations(Files)
=============================================================================
