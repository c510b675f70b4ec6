---------------------------- MODULE UploadEngine ----------------------------
(***************************************************************************)
(* The website's upload engine (lib/upload/engine.ts) over its HTTP        *)
(* transport (httpTransport.ts, sparseTransport.ts): one call of           *)
(* uploadDirect, uploadStriped, uploadStripedSlot or                       *)
(* uploadPipelinedGeneration, from its first request to its result.        *)
(*                                                                         *)
(* JavaScript runs one callback at a time, so an action is the code        *)
(* between two awaits: a response arrives, its callbacks run, the next     *)
(* requests are launched and the promise is settled.  Target s is the      *)
(* provider of slot s; labels are taken to be distinct.                    *)
(***************************************************************************)
EXTENDS Integers, FiniteSets, Sequences, SequencesExt

CONSTANTS Slots,          \* number of slots, each with one upload target
          Mdus,           \* number of metadata MDUs
          ShardSets,      \* number of shard sets (user MDUs)
          MetaLimit,      \* concurrency of metadata uploads
          ShardLimit,     \* concurrency of shard uploads
          DirectLimit     \* concurrency of direct and pipelined uploads

EngineAssumption ==
    /\ {Slots, MetaLimit, ShardLimit, DirectLimit} \subseteq Nat \ {0}
    /\ {Mdus, ShardSets} \subseteq Nat

VARIABLES input,      \* the call: entry point, transport, what the caller passed
          items,      \* the queue of runUploadTasks / runUploadTaskBundles
          nextIndex,  \* how many items were launched
          active,     \* launched items that have not ended
          steps,      \* status of each progress step
          firstError, \* whether an error was recorded
          events,     \* the "end" task events: which artifact, and ok or not
          stored,     \* artifacts the providers hold
          queue,      \* artifacts the pipelined producer queued
          produced,   \* how many artifacts the producer took from its input
          producer,   \* "off", "running" or "done"
          workers,    \* the pipelined workers
          result      \* "none", "ok", "error" or "threw"

vars == <<input, items, nextIndex, active, steps, firstError, events, stored,
          queue, produced, producer, workers, result>>
pipeVars == <<queue, produced, producer, workers>>

Targets == 0 .. Slots - 1

(* An artifact on its way to a target; also the key of its progress step.  *)
stepKey(kind, t, i, s) == [kind |-> kind, target |-> t, index |-> i, slot |-> s]
Mdu(t, i) == stepKey("mdu", t, i, -1)
Manifest(t) == stepKey("manifest", t, -1, -1)
Shard(i, s) == stepKey("shard", s, i, s)

Concat(n, part(_)) == FlattenSeq([i \in 1 .. n |-> part(i - 1)])

DirectTasks == Concat(Mdus, LAMBDA i : <<Mdu(0, i)>>) \o <<Manifest(0)>>

SlotTasks(s) == Concat(Mdus, LAMBDA i : <<Mdu(s, i)>>) \o <<Manifest(s)>>
                \o Concat(ShardSets, LAMBDA i : <<Shard(i, s)>>)

(* uploadStriped interleaves, round by round, one metadata MDU (the        *)
(* manifest in the last metadata round) for every target and one shard     *)
(* set.                                                                    *)
Round(i) ==
    (IF i < Mdus THEN Concat(Slots, LAMBDA t : <<Mdu(t, i)>>)
     ELSE IF i = Mdus THEN Concat(Slots, LAMBDA t : <<Manifest(t)>>) ELSE <<>>)
    \o (IF i < ShardSets THEN Concat(Slots, LAMBDA s : <<Shard(i, s)>>) ELSE <<>>)
StripedTasks == Concat(IF Mdus + 1 > ShardSets THEN Mdus + 1 ELSE ShardSets, Round)

PipelinedTasks == SelectSeq(StripedTasks, LAMBDA t : t.kind # "manifest")

Tasks(in) == CASE in.entry = "direct" -> DirectTasks
               [] in.entry = "slot" -> SlotTasks(in.slot)
               [] in.entry = "striped" -> StripedTasks
               [] in.entry = "pipelined" -> PipelinedTasks

groupUploadTasksByTarget(ts) ==
    LET at(l) == SelectSeq(ts, LAMBDA t : t.target = l)
        first(l) == CHOOSE i \in DOMAIN ts :
                      ts[i].target = l /\ \A j \in 1 .. i - 1 : ts[j].target # l
        labels == SetToSortSeq({ts[i].target : i \in DOMAIN ts},
                               LAMBDA a, b : first(a) < first(b))
    IN [i \in DOMAIN labels |-> at(labels[i])]

\* Fault: an error stops every entry point.
stopOnError(in) == FALSE

(* Only uploadStriped goes on after an error.                              *)
continueOnError(in) == in.entry = "striped"

Least(a, b) == IF a < b THEN a ELSE b

concurrency(in, its) ==
    CASE in.entry = "pipelined" -> DirectLimit
      [] in.entry = "direct" -> IF in.bundles THEN 1 ELSE DirectLimit
      [] in.entry = "slot" -> IF in.bundles THEN 1 ELSE Least(Len(its), MetaLimit + ShardLimit)
      [] in.entry = "striped" ->
           Least(Len(its), IF ShardSets > 0 THEN MetaLimit + ShardLimit ELSE MetaLimit)

-----------------------------------------------------------------------------
(* What became of one artifact: the answer the client saw, and whether the *)
(* provider wrote it; a request may be written and its answer lost.  (A    *)
(* sparse body answered with 400 or 411 is posted again in full: the       *)
(* answer is that of the last post.)                                       *)
sendArtifact == {[ok |-> TRUE, wrote |-> TRUE], [ok |-> FALSE, wrote |-> FALSE],
                 [ok |-> FALSE, wrote |-> TRUE]}

(* The same for a bundle: "unsupported" is a target without a bundle URL,  *)
(* a compatibility answer, or a fetch that failed, written or not.         *)
sendBundle == {[answer |-> "ok", wrote |-> TRUE], [answer |-> "unsupported", wrote |-> FALSE],
               [answer |-> "unsupported", wrote |-> TRUE], [answer |-> "error", wrote |-> FALSE]}

Wrote(p, ts) == stored' = IF p.wrote THEN stored \cup ts ELSE stored

-----------------------------------------------------------------------------
(* The pool.  An item is the sequence of artifacts of one request; it is   *)
(* sent as a bundle (stage 0) or artifact by artifact (the stage is the    *)
(* number of the artifact on its way).                                     *)
updateStep(st, ts, status) == [k \in DOMAIN st |-> IF k \in ts THEN status ELSE st[k]]

LaunchCount(its, next, act, err, in) ==
    IF err /\ ~continueOnError(in) THEN 0
    ELSE Least(concurrency(in, its) - Cardinality(act), Len(its) - next)

settleIfDone(its, next, act, err, in) ==
    IF act # {} \/ (next < Len(its) /\ (~err \/ continueOnError(in))) THEN "none"
    ELSE IF err THEN "error" ELSE "ok"

(* launchNext with the settleIfDone that ends it: fill the free places     *)
(* with the next items, mark their steps, resolve when nothing is left.    *)
launchNext(its, next, act, err, st, in) ==
    LET n == LaunchCount(its, next, act, err, in)
        new == (next + 1) .. (next + n)
        stage == IF in.bundles THEN 0 ELSE 1
        act2 == act \cup {[item |-> i, stage |-> stage] : i \in new}
    IN /\ items' = its
       /\ nextIndex' = next + n
       /\ active' = act2
       /\ firstError' = err
       /\ steps' = updateStep(st, UNION {Range(its[i]) : i \in new}, "uploading")
       /\ result' = settleIfDone(its, next + n, act2, err, in)
       /\ input' = in

(* One artifact of an unbundled item was answered.                         *)
ArtifactEnds(a) ==
    /\ a.stage = 1 /\ ~input.bundles
    /\ LET t == items[a.item][1]
       IN \E p \in sendArtifact :
            /\ Wrote(p, {t})
            /\ events' = events \cup {[task |-> t, ok |-> p.ok]}
            /\ launchNext(items, nextIndex, active \ {a}, firstError \/ ~p.ok,
                          updateStep(steps, {t}, IF p.ok THEN "complete" ELSE "error"), input)
    /\ UNCHANGED pipeVars

(* A bundle was accepted or refused: one event per artifact.               *)
BundleEnds(a) ==
    /\ a.stage = 0
    /\ LET ts == Range(items[a.item])
       IN \E p \in sendBundle :
            /\ p.answer # "unsupported"
            /\ Wrote(p, ts)
            /\ events' = events \cup {[task |-> t, ok |-> p.answer = "ok"] : t \in ts}
            /\ launchNext(items, nextIndex, active \ {a}, firstError \/ p.answer = "error",
                          updateStep(steps, ts, IF p.answer = "ok" THEN "complete" ELSE "error"),
                          input)
    /\ UNCHANGED pipeVars

(* A bundle the target does not take is sent again artifact by artifact.   *)
BundleUnsupported(a) ==
    /\ a.stage = 0
    /\ \E p \in sendBundle : p.answer = "unsupported" /\ Wrote(p, Range(items[a.item]))
    /\ active' = (active \ {a}) \cup {[a EXCEPT !.stage = 1]}
    /\ UNCHANGED <<input, items, nextIndex, steps, firstError, events, result, pipeVars>>

(* fallbackToArtifacts: the artifacts of the bundle in order; an error     *)
(* ends the item unless the call goes on after errors.                     *)
FallbackArtifact(a) ==
    /\ a.stage > 0 /\ input.bundles
    /\ LET ts == items[a.item]
           t == ts[a.stage]
       IN \E p \in sendArtifact :
            LET st == updateStep(steps, {t}, IF p.ok THEN "complete" ELSE "error")
                err == firstError \/ ~p.ok
            IN /\ Wrote(p, {t})
               /\ events' = events \cup {[task |-> t, ok |-> p.ok]}
               /\ IF a.stage < Len(ts) /\ (p.ok \/ continueOnError(input))
                  THEN /\ active' = (active \ {a}) \cup {[a EXCEPT !.stage = @ + 1]}
                       /\ steps' = st
                       /\ firstError' = err
                       /\ UNCHANGED <<input, items, nextIndex, result>>
                  ELSE launchNext(items, nextIndex, active \ {a}, err, st, input)
    /\ UNCHANGED pipeVars

-----------------------------------------------------------------------------
(* The pipelined producer and its workers.                                 *)
\* Fault: a new item or the end of the input wakes one waiting worker only.
wakeOneWorker(ws) ==
    LET waiting == {w \in DOMAIN ws : ws[w].at = "waiting"}
    IN IF waiting = {} THEN ws ELSE [ws EXCEPT ![CHOOSE w \in waiting : TRUE].at = "woken"]

wakeWorkers(ws) == [w \in DOMAIN ws |->
                      IF ws[w].at = "waiting" THEN [ws[w] EXCEPT !.at = "woken"] ELSE ws[w]]

(* for await: the next artifact is queued, unless an upload failed.        *)
ProduceItem ==
    /\ producer = "running"
    /\ produced < Len(PipelinedTasks)
    /\ produced' = produced + 1
    /\ IF firstError
       THEN producer' = "done" /\ UNCHANGED queue
       ELSE queue' = Append(queue, PipelinedTasks[produced + 1]) /\ UNCHANGED producer
    /\ workers' = wakeWorkers(workers)
    /\ UNCHANGED <<input, items, nextIndex, active, steps, firstError, events, stored, result>>

(* The input ends, or preparing the next artifact throws.                  *)
ProduceEnds ==
    /\ producer = "running"
    /\ \E fails \in BOOLEAN :
         /\ fails \/ produced = Len(PipelinedTasks)
         /\ firstError' = (firstError \/ fails)
    /\ producer' = "done"
    /\ workers' = wakeWorkers(workers)
    /\ UNCHANGED <<input, items, nextIndex, active, steps, events, stored, queue, produced, result>>

(* A worker after waitForWork: stop, take an item, or wait again.          *)
WorkerStep(w) ==
    /\ workers[w].at = "woken"
    /\ \/ /\ firstError \/ (producer = "done" /\ queue = <<>>)
          /\ workers' = [workers EXCEPT ![w].at = "done"]
          /\ UNCHANGED queue
       \/ /\ ~firstError /\ queue # <<>>
          /\ workers' = [workers EXCEPT ![w] = [at |-> "sending", task |-> <<Head(queue)>>]]
          /\ queue' = Tail(queue)
       \/ /\ ~firstError /\ queue = <<>> /\ producer # "done"
          /\ workers' = [workers EXCEPT ![w].at = "waiting"]
          /\ UNCHANGED queue
    /\ UNCHANGED <<input, items, nextIndex, active, steps, firstError, events, stored,
                   produced, producer, result>>

(* uploadOne was answered; an error wakes the other workers and ends this  *)
(* one.                                                                    *)
WorkerSent(w) ==
    /\ workers[w].at = "sending"
    /\ LET t == workers[w].task[1]
       IN \E p \in sendArtifact :
            /\ Wrote(p, {t})
            /\ events' = events \cup {[task |-> t, ok |-> p.ok]}
            /\ firstError' = (firstError \/ ~p.ok)
            /\ IF p.ok
               THEN workers' = [workers EXCEPT ![w] =
                      [at |-> IF queue # <<>> \/ producer = "done" \/ firstError
                              THEN "woken" ELSE "waiting", task |-> <<>>]]
               ELSE workers' = wakeWorkers([workers EXCEPT ![w] = [at |-> "done", task |-> <<>>]])
    /\ UNCHANGED <<input, items, nextIndex, active, steps, queue, produced, producer, result>>

AllEnded == producer = "done" /\ \A w \in DOMAIN workers : workers[w].at = "done"

(* Promise.all resolved with an error: the manifest is not sent.           *)
PipelineFails ==
    /\ AllEnded /\ items = <<>> /\ result = "none" /\ firstError
    /\ result' = "error"
    /\ UNCHANGED <<input, items, nextIndex, active, steps, firstError, events, stored, pipeVars>>

(* Every artifact is up: await the manifest, which may be rejected, and    *)
(* send it to every target.                                                *)
SendManifests ==
    /\ AllEnded /\ items = <<>> /\ result = "none" /\ ~firstError
    /\ \/ /\ result' = "threw"
          /\ UNCHANGED <<input, items, nextIndex, active, steps, firstError>>
       \/ launchNext([i \in 1 .. Slots |-> <<Manifest(i - 1)>>], 0, {}, FALSE, steps, input)
    /\ UNCHANGED <<events, stored, pipeVars>>

-----------------------------------------------------------------------------
(* The call.  A caller may have no manifest blob, or no target or shard    *)
(* for some slot: the call returns an error before any request is made.    *)
Inputs == [entry : {"direct", "striped", "slot"}, bundles : BOOLEAN, slot : Targets,
           manifest : BOOLEAN, missing : {{}, {Slots - 1}}]
          \cup [entry : {"pipelined"}, bundles : {FALSE}, slot : {0},
                manifest : {TRUE}, missing : {{}}]

Refused(in) == \/ ~in.manifest
               \/ in.entry = "striped" /\ ShardSets > 0 /\ in.missing # {}
               \/ in.entry = "slot" /\ ShardSets > 0 /\ in.slot \in in.missing

RefusedSteps(in) ==
    {k \in Range(Tasks(in)) : IF ~in.manifest THEN k.kind = "manifest"
                              ELSE k.kind = "shard" /\ k.index = 0 /\ k.slot \in in.missing}

Init == /\ input = [entry |-> "none"] /\ items = <<>> /\ nextIndex = 0 /\ active = {}
        /\ steps = <<>> /\ firstError = FALSE /\ events = {} /\ stored = {}
        /\ queue = <<>> /\ produced = 0 /\ producer = "off" /\ workers = <<>>
        /\ result = "none"

MduIndexes == 0 .. Mdus - 1
MetadataSteps(t) == {Mdu(t, i) : i \in MduIndexes} \cup {Manifest(t)}
buildDirectUploadSteps == MetadataSteps(0)
buildStripedUploadSteps ==
    UNION {MetadataSteps(t) : t \in Targets}
    \cup {Shard(i, s) : i \in 0 .. ShardSets - 1, s \in Targets}
buildStripedSlotUploadSteps(s) == MetadataSteps(s) \cup {Shard(i, s) : i \in 0 .. ShardSets - 1}
buildSteps(in) ==
    [k \in CASE in.entry = "direct" -> buildDirectUploadSteps
              [] in.entry = "striped" -> buildStripedUploadSteps
              [] in.entry = "slot" -> buildStripedSlotUploadSteps(in.slot) |-> "pending"]

Call(in) ==
    /\ input.entry = "none"
    /\ IF Refused(in)
       THEN /\ input' = in /\ result' = "error"
            /\ steps' = updateStep(buildSteps(in), RefusedSteps(in), "error")
            /\ UNCHANGED <<items, nextIndex, active, firstError>>
       ELSE LET its == IF in.bundles THEN groupUploadTasksByTarget(Tasks(in))
                       ELSE [i \in DOMAIN Tasks(in) |-> <<Tasks(in)[i]>>]
            IN launchNext(its, 0, {}, FALSE, buildSteps(in), in)
    /\ UNCHANGED <<events, stored, pipeVars>>

uploadDirect == \E in \in Inputs : in.entry = "direct" /\ Call(in)
uploadStriped == \E in \in Inputs : in.entry = "striped" /\ Call(in)
uploadStripedSlot == \E in \in Inputs : in.entry = "slot" /\ Call(in)

uploadPipelinedGeneration ==
    /\ input.entry = "none"
    /\ \E in \in Inputs : in.entry = "pipelined" /\ input' = in
    /\ producer' = "running"
    /\ workers' = [w \in 1 .. DirectLimit |-> [at |-> "waiting", task |-> <<>>]]
    /\ UNCHANGED <<items, nextIndex, active, steps, firstError, events, stored, queue,
                   produced, result>>

Next == \/ uploadDirect \/ uploadStriped \/ uploadStripedSlot \/ uploadPipelinedGeneration
        \/ \E a \in active : ArtifactEnds(a) \/ BundleEnds(a) \/ BundleUnsupported(a)
                             \/ FallbackArtifact(a)
        \/ ProduceItem \/ ProduceEnds \/ PipelineFails \/ SendManifests
        \/ \E w \in DOMAIN workers : WorkerStep(w) \/ WorkerSent(w)

(* Every request is answered or fails, the producer's input ends and every *)
(* runnable callback runs.                                                 *)
Progress == \/ \E a \in active : ArtifactEnds(a) \/ BundleEnds(a) \/ BundleUnsupported(a)
                                 \/ FallbackArtifact(a)
            \/ ProduceItem \/ ProduceEnds \/ PipelineFails \/ SendManifests
            \/ \E w \in DOMAIN workers : WorkerStep(w) \/ WorkerSent(w)
Spec == Init /\ [][Next]_vars /\ WF_vars(Progress)

-----------------------------------------------------------------------------
(* mode2Recovery.ts: the slots that failed, by the failed end events.      *)
collectMode2SlotFailures ==
    {IF e.task.slot >= 0 THEN e.task.slot ELSE e.task.target : e \in {x \in events : ~x.ok}}

InFlight == active # {} \/ \E w \in DOMAIN workers : workers[w].at = "sending"

(* The result of a call accounts for every artifact.  When the call has    *)
(* returned nothing is in flight any more; "ok" means every artifact is    *)
(* with its provider and every step is complete; and when uploadStriped    *)
(* failed, every slot that lacks an artifact is among the failures the     *)
(* slot recovery is given - through bundles, the fall-back to single       *)
(* artifacts, lost answers and errors of other slots.  A pipelined         *)
(* generation's manifests are sent only when all its artifacts are stored. *)
ResultAccounts ==
    /\ (input.entry = "pipelined" /\ items # <<>>) => Range(PipelinedTasks) \subseteq stored
    /\ result # "none" =>
         /\ ~InFlight
         /\ result = "ok" =>
              /\ Range(Tasks(input)) \subseteq stored
              /\ \A k \in DOMAIN steps : steps[k] = "complete"
         /\ (input.entry = "striped" /\ nextIndex > 0) =>
              \A t \in Range(StripedTasks) :
                t \notin stored => t.target \in collectMode2SlotFailures

Returned == input.entry # "none" => result # "none"

(* Every started call returns: no worker sleeps through the artifact or    *)
(* the error it should have been woken for, and the pool never stops with  *)
(* items left.                                                             *)
EventuallySettles == []<>Returned
=============================================================================
