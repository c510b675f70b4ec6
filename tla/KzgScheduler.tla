---------------------------- MODULE KzgScheduler ----------------------------
(***************************************************************************)
(* From an expanded user MDU to its commitments: the page's scheduler      *)
(* (lib/upload/userMduKzgScheduler.ts) queues MDUs, batches the ready ones *)
(* at the head of the queue (userMduKzgBatch.ts), posts a batch to the one *)
(* worker that owns the commitment backend (gateway.worker.ts,             *)
(* userMduBrowserKzg.ts), splits a failed batch, and falls back to a WASM  *)
(* expansion of a kept copy (worker-client.ts).                            *)
(*                                                                         *)
(* Posting a message transfers its buffers: the page's view of them is     *)
(* detached, and posting them again throws.                                *)
(***************************************************************************)
EXTENDS Naturals, Sequences, SequencesExt, FiniteSets

CONSTANTS
  NumMdus,         \* user MDUs, in the order the file is cut
  Blobs,           \* blobs of an expanded MDU
  Shape,           \* RS profile and shard length of each MDU
  MaxBatchMdus,    \* batch constraint: MDUs
  MaxBatchBlobs,   \* batch constraint: blobs (bytes and memory follow it)
  AppleCap,        \* cap suggested for an Apple GPU
  MaxQueueDepth,   \* MDUs queued or active
  MaxCrashes       \* bound: error events of the owner worker

Mdus == 1..NumMdus
Idle == [st |-> "idle", batch |-> <<>>, work |-> <<>>, out |-> <<>>]

SchedulerAssumption ==
  /\ NumMdus \in Nat /\ Blobs \in Nat \ {0} /\ MaxQueueDepth \in Nat \ {0}
  /\ MaxBatchMdus \in Nat \ {0} /\ AppleCap \in Nat \ {0}

VARIABLES
  next,       \* next MDU to hand to the worker client
  expansion,  \* "none", "pending", "fulfilled" or "rejected", per MDU
  attached,   \* the page still holds the expanded shards
  spare,      \* the page still holds the copy kept for the fallback
  queue,      \* MDUs waiting in the scheduler
  run,        \* the scheduler's run: its batch, the parts to commit, the outcomes
  cap,        \* the adaptive batch cap
  owner,      \* the owner worker's commit: the parts to commit and its results
  reply,      \* what the page's pending message settles with
  result,     \* each MDU's promise
  crashes,
  timedOut    \* sizes of the batches whose WebGPU commit timed out in the owner

vars == <<next, expansion, attached, spare, queue, run, cap, owner, reply,
          result, crashes, timedOut>>

----------------------------------------------------------------------------
(* Batches *)

(* One blob buffer for the batch, and the commitments cut up again. *)
MduBlobs(i) == [b \in 1..Blobs |-> <<i, b>>]
concatenateUserMduKzgBatch(batch) == FlattenSeq([n \in DOMAIN batch |-> MduBlobs(batch[n])])

\* Fault: the groups overlap by one commitment.
DemuxOverlapping(witness, batch) ==
  [n \in DOMAIN batch |->
     SubSeq(witness, (n - 1) * Blobs + (IF n > 1 THEN 0 ELSE 1), n * Blobs - (IF n > 1 THEN 1 ELSE 0))]

demuxUserMduKzgCommitments(witness, batch) ==
  [n \in DOMAIN batch |-> SubSeq(witness, (n - 1) * Blobs + 1, n * Blobs)]

splitUserMduKzgBatch(batch) ==
  LET left == (Len(batch) + 1) \div 2 IN
  <<SubSeq(batch, 1, left), SubSeq(batch, left + 1, Len(batch))>>

planUserMduKzgBatch(batch) ==
  /\ \A n \in DOMAIN batch : Shape[batch[n]] = Shape[batch[1]]
  /\ Len(batch) <= cap
  /\ Len(batch) * Blobs <= MaxBatchBlobs

(* The first MDU with the ready ones behind it, as far as they fit a batch. *)
collectReadyBatch(first) ==
  LET ready(n) == \A m \in 1..n : expansion[queue[m]] = "fulfilled"
      fits(n)  == planUserMduKzgBatch(<<first>> \o SubSeq(queue, 1, n))
      n == CHOOSE n \in 0..Len(queue) :
             /\ n = 0 \/ (ready(n) /\ fits(n))
             /\ \A m \in (n + 1)..Len(queue) : ~(ready(m) /\ fits(m))
  IN <<first>> \o SubSeq(queue, 1, n)

(* The cap the platform and the adapter suggest when the worker is ready. *)
recommendedCap(apple) == IF apple /\ AppleCap < MaxBatchMdus THEN AppleCap ELSE MaxBatchMdus

----------------------------------------------------------------------------
Init ==
  /\ next = 1
  /\ expansion = [i \in Mdus |-> "none"]
  /\ attached = [i \in Mdus |-> TRUE] /\ spare = [i \in Mdus |-> TRUE]
  /\ queue = <<>> /\ run = Idle
  /\ cap \in {recommendedCap(apple) : apple \in BOOLEAN}
  /\ owner = Idle /\ reply = "none"
  /\ result = [i \in Mdus |-> "none"]
  /\ crashes = 0 /\ timedOut = {}

(* pump: with a concurrency of one, a run starts when none is active. *)
Pump(q) ==
  IF q = <<>> THEN run' = Idle /\ queue' = q
  ELSE run' = [Idle EXCEPT !.st = "await", !.batch = <<Head(q)>>] /\ queue' = Tail(q)

(* enqueue: a full scheduler refuses the MDU. *)
Active == IF run.st = "idle" THEN 0 ELSE 1
enqueue(i) ==
  IF Active + Len(queue) >= MaxQueueDepth
  THEN result' = [result EXCEPT ![i] = "rejected"] /\ UNCHANGED <<queue, run>>
  ELSE /\ UNCHANGED result
       /\ IF Active = 0 THEN Pump(Append(queue, i))
          ELSE queue' = Append(queue, i) /\ UNCHANGED run

(* expandStripeWithScheduledKzg: number the MDU, keep a copy, send it to be
   expanded, and enqueue it. *)
ExpandStripe ==
  /\ next <= NumMdus
  /\ next' = next + 1
  /\ expansion' = [expansion EXCEPT ![next] = "pending"]
  /\ enqueue(next)
  /\ UNCHANGED <<attached, spare, cap, owner, reply, crashes, timedOut>>

(* The expansion worker answers, or crashes. *)
ExpansionSettles(i) ==
  /\ expansion[i] = "pending"
  /\ \E st \in {"fulfilled", "rejected"} : expansion' = [expansion EXCEPT ![i] = st]
  /\ UNCHANGED <<next, attached, spare, queue, run, cap, owner, reply, result,
                 crashes, timedOut>>

(* The catch of run: every MDU of the batch is rejected. *)
\* Fault: the run ends without starting the next one.
RejectRunNoPump ==
  /\ result' = [i \in Mdus |-> IF i \in Range(run.batch) THEN "rejected" ELSE result[i]]
  /\ run' = [Idle EXCEPT !.st = "stopped"] /\ UNCHANGED queue

RejectRun ==
  /\ result' = [i \in Mdus |-> IF i \in Range(run.batch) THEN "rejected" ELSE result[i]]
  /\ Pump(queue)

(* run: await the first expansion, then collect the batch behind it. *)
RunBatch ==
  /\ run.st = "await"
  /\ expansion[run.batch[1]] # "pending"
  /\ IF expansion[run.batch[1]] = "rejected" THEN RejectRun
     ELSE LET batch == collectReadyBatch(run.batch[1]) IN
          /\ run' = [st |-> "post", batch |-> batch, work |-> <<batch>>, out |-> <<>>]
          /\ queue' = SubSeq(queue, Len(batch), Len(queue))
          /\ UNCHANGED result
  /\ UNCHANGED <<next, expansion, attached, spare, cap, owner, reply, crashes, timedOut>>

(* commitBatchItems and commitSingle: post the next part, transferring its
   shards; a part with detached shards cannot be posted. *)
PostPart ==
  /\ run.st = "post" /\ run.work # <<>>
  /\ run' = [run EXCEPT !.st = "reply"]
  /\ LET part == Head(run.work) IN
     IF \E n \in DOMAIN part : ~attached[part[n]]
     THEN reply' = "error" /\ UNCHANGED <<owner, attached>>
     ELSE /\ attached' = [i \in Mdus |-> attached[i] /\ i \notin Range(part)]
          /\ owner' = [st |-> "busy", batch |-> part, work |-> <<part>>, out |-> <<>>]
          /\ reply' = "pending"
  /\ UNCHANGED <<next, expansion, spare, queue, cap, result, crashes, timedOut>>

----------------------------------------------------------------------------
(* The owner worker *)

(* commitExpandedUserMdu: an MDU posted alone. *)
CommitUserMdu ==
  /\ owner.st = "busy" /\ owner.work # <<>> /\ Len(owner.batch) = 1
  /\ owner' = [owner EXCEPT !.work = <<>>, !.out = <<MduBlobs(owner.batch[1])>>]
  /\ UNCHANGED <<next, expansion, attached, spare, queue, run, cap, reply, result,
                 crashes, timedOut>>

(* commitUserMduBatchUncommittedWithBrowserKzg: one commit for a part of the
   batch, its commitments given back to its MDUs. *)
CommitUserMduBatch ==
  /\ owner.st = "busy" /\ owner.work # <<>> /\ Len(owner.batch) > 1
  /\ LET part == Head(owner.work)
         groups == demuxUserMduKzgCommitments(concatenateUserMduKzgBatch(part), part)
     IN owner' = [owner EXCEPT !.work = Tail(@), !.out = @ \o groups]
  /\ UNCHANGED <<next, expansion, attached, spare, queue, run, cap, reply, result,
                 crashes, timedOut>>

(* commitUserMduBatchWithSplitting: a part of several MDUs whose commit times
   out or fails is committed by halves; the failure of one MDU is the reply. *)
OwnerFails ==
  /\ owner.st = "busy" /\ owner.work # <<>>
  /\ LET part == Head(owner.work) IN
     IF Len(part) > 1
     THEN /\ owner' = [owner EXCEPT !.work = splitUserMduKzgBatch(part) \o Tail(@)]
          /\ \E timeout \in BOOLEAN :
               timedOut' = IF timeout THEN timedOut \cup {Len(part)} ELSE timedOut
          /\ UNCHANGED reply
     ELSE owner' = Idle /\ reply' = "error" /\ UNCHANGED timedOut
  /\ UNCHANGED <<next, expansion, attached, spare, queue, run, cap, result, crashes>>

(* The worker posts its results. *)
OwnerReplies ==
  /\ owner.st = "busy" /\ owner.work = <<>>
  /\ reply' = "result"
  /\ owner' = [owner EXCEPT !.st = "sent"]
  /\ UNCHANGED <<next, expansion, attached, spare, queue, run, cap, result,
                 crashes, timedOut>>

(* worker.onerror: every pending message is rejected, its shards are gone. *)
OwnerCrashes ==
  /\ reply = "pending" /\ crashes < MaxCrashes
  /\ crashes' = crashes + 1
  /\ reply' = "error" /\ owner' = Idle
  /\ UNCHANGED <<next, expansion, attached, spare, queue, run, cap, result, timedOut>>

----------------------------------------------------------------------------
(* The scheduler's continuations *)

(* A result of the owner; an error that crossed the worker boundary is a
   plain Error, so it is not a typed timeout and the cap stays. *)
isWebGpuKzgCommitTimeoutError(error) == error = "timeout"

reduceAdaptiveBatchCapAfterTimeout(error, parts) ==
  IF isWebGpuKzgCommitTimeoutError(error)
  THEN cap' = IF Len(parts[1]) < cap THEN Len(parts[1]) ELSE cap
  ELSE UNCHANGED cap

PartCommitted ==
  /\ run.st = "reply" /\ reply = "result"
  /\ run' = [run EXCEPT !.st = "post", !.work = Tail(@), !.out = @ \o owner.out]
  /\ reply' = "none" /\ owner' = Idle
  /\ UNCHANGED <<next, expansion, attached, spare, queue, cap, result, crashes, timedOut>>

PartFailed ==
  /\ run.st = "reply" /\ reply = "error"
  /\ reply' = "none"
  /\ LET part == Head(run.work)  parts == splitUserMduKzgBatch(part) IN
     IF Len(part) > 1
     THEN /\ run' = [run EXCEPT !.st = "post", !.work = parts \o Tail(@)]
          /\ reduceAdaptiveBatchCapAfterTimeout(reply, parts)
     ELSE run' = [run EXCEPT !.st = "fallback"] /\ UNCHANGED cap
  /\ UNCHANGED <<next, expansion, attached, spare, queue, owner, result, crashes, timedOut>>

(* The fallback posts the kept copy to be expanded and committed by WASM. *)
Fallback ==
  /\ run.st = "fallback"
  /\ LET i == Head(run.work)[1] IN
     /\ spare[i] /\ spare' = [spare EXCEPT ![i] = FALSE]
     /\ run' = [run EXCEPT !.st = "post", !.work = Tail(@), !.out = Append(@, MduBlobs(i))]
  /\ UNCHANGED <<next, expansion, attached, queue, cap, owner, reply, result, crashes,
                 timedOut>>

FallbackFails ==
  /\ run.st = "fallback"
  /\ spare' = [spare EXCEPT ![Head(run.work)[1]] = FALSE]
  /\ RejectRun
  /\ UNCHANGED <<next, expansion, attached, cap, owner, reply, crashes, timedOut>>

(* Every part is committed: the promises resolve in the order of the batch. *)
ResolveBatch ==
  /\ run.st = "post" /\ run.work = <<>>
  /\ result' = [i \in Mdus |->
       IF \E n \in DOMAIN run.batch : run.batch[n] = i
       THEN LET n == CHOOSE n \in DOMAIN run.batch : run.batch[n] = i IN
            IF run.out[n] = MduBlobs(i) THEN "own" ELSE "foreign"
       ELSE result[i]]
  /\ Pump(queue)
  /\ UNCHANGED <<next, expansion, attached, spare, cap, owner, reply, crashes, timedOut>>

Next ==
  \/ ExpandStripe \/ RunBatch \/ PostPart
  \/ \E i \in Mdus : ExpansionSettles(i)
  \/ CommitUserMdu \/ CommitUserMduBatch \/ OwnerFails \/ OwnerReplies \/ OwnerCrashes
  \/ PartCommitted \/ PartFailed \/ Fallback \/ FallbackFails
  \/ ResolveBatch

(* Handlers that are ready run; expansions and worker commits end.  The
   caller owes no further MDU and the owner worker need not crash. *)
Handlers == \/ RunBatch \/ PostPart \/ CommitUserMdu \/ CommitUserMduBatch
            \/ OwnerFails \/ OwnerReplies \/ PartCommitted \/ PartFailed
            \/ Fallback \/ FallbackFails \/ ResolveBatch

Spec == Init /\ [][Next]_vars /\ WF_vars(Handlers)
        /\ \A i \in Mdus : WF_vars(ExpansionSettles(i))

----------------------------------------------------------------------------
TypeOK ==
  /\ next \in 1..(NumMdus + 1) /\ cap \in 1..MaxBatchMdus
  /\ Range(queue) \subseteq Mdus /\ Range(run.batch) \subseteq Mdus
  /\ \A i \in Mdus : result[i] \in {"none", "own", "foreign", "rejected"}

(* Whatever was split, retried after a crash or done by the fallback, an MDU
   is resolved with the commitments of its own blobs, and a run has one
   outcome for each MDU of its batch. *)
OwnCommitments ==
  /\ \A i \in Mdus : result[i] # "foreign"
  /\ (run.st = "post" /\ run.work = <<>>) => Len(run.out) = Len(run.batch)

(* Every MDU handed to the client is resolved or rejected. *)
EveryMduSettles == \A i \in Mdus : (expansion[i] # "none") ~> (result[i] # "none")

(* After a batch of n MDUs timed out on the GPU the scheduler plans smaller
   batches. *)
TimeoutShrinksBatches == run.st = "idle" => \A n \in timedOut : cap < n
=============================================================================
