--------------------------- MODULE UploadTransfer ---------------------------
(***************************************************************************)
(* The upload card's report of one run: the counters it keeps from the     *)
(* engine's task events, the status it publishes (lib/uploadStatus.ts),    *)
(* and the statistics the engine keeps by itself, beside the engine's own  *)
(* steps. One run: the file is prepared, uploaded by one call of the       *)
(* engine and committed. Every artifact has one byte; an event names its   *)
(* bundle by the item's number, 0 for none.                                *)
(***************************************************************************)
EXTENDS UploadEngine

VARIABLES
  run,        \* "idle", "preparing", "prepared", "uploading", "uploaded", "failed", "committing", "committed"
  counters,   \* uploadTransportCountersRef
  stats,      \* the engine's transportStats
  status,     \* uploadStatusRef
  rendered    \* the status effect has run since the upload was marked complete

tvars == <<run, counters, stats, status, rendered>>

Bigger(a, b) == IF a > b THEN a ELSE b

createUploadTransportStats ==
    [artifactCount |-> 0, perArtifactCount |-> 0, bundledArtifactCount |-> 0, bundleCount |-> 0,
     requestCount |-> 0, bytesSent |-> 0, fallbackCount |-> 0]
createUploadTransportCounters ==
    createUploadTransportStats @@
    [queued |-> 0, uploaded |-> 0, activeUploads |-> 0, startedBundles |-> {}, finishedBundles |-> {}]

(* mergeUploadTransportStats: the parts of a pipelined call are added up.  *)
mergeUploadTransportStats(a, b) == [f \in DOMAIN a |-> a[f] + b[f]]

createUploadPipelineStatus ==
    [phase |-> "idle", tone |-> "idle", stage |-> "none", error |-> FALSE,
     queued |-> 0, uploaded |-> 0, requests |-> 0]
patchUploadPipelineStatus(current, patch) == patch @@ current

uploadToneForPhase(phase) ==
    CASE phase = "done" -> "success" [] phase = "error" -> "error" [] phase = "idle" -> "idle" [] OTHER -> "active"

(* The phases of the run and of the shards, as phases of the status.       *)
browserPerfPhaseToUploadPhase(phase) ==
    CASE phase \in {"read_file", "gateway_ingest", "append_bootstrap", "plan_upload"} -> phase
      [] phase = "persist_local" -> "opfs_staging"
      [] phase = "upload" -> "upload_transport"
      [] phase = "commit" -> "chain_handoff"
      [] OTHER -> "prepare"
uploadStatusPhaseFromShardPhase(phase) ==
    CASE phase = "reading" -> "read_file"
      [] phase \in {"gateway_receiving", "gateway_encoding", "gateway_uploading"} -> "gateway_ingest"
      [] phase = "planning" -> "plan_upload"
      [] phase = "shard_user" -> "expand_user"
      [] phase = "shard_witness" -> "expand_witness"
      [] phase = "finalize_mdu0" -> "mdu0_builder"
      [] phase = "compute_manifest" -> "manifest"
      [] phase \in {"done", "error"} -> phase
      [] OTHER -> "idle"

publishUploadStatus(next) == status' = next

-----------------------------------------------------------------------------
(* The engine's events.                                                    *)
Event(phase, kind, bundle, size, ok, fell) ==
    [phase |-> phase, kind |-> kind, bundle |-> bundle, size |-> size, ok |-> ok, fell |-> fell]

StartEvents(item, its, bundled) ==
    [i \in DOMAIN its[item] |->
       IF bundled THEN Event("start", "bundle", item, Len(its[item]), TRUE, FALSE)
       ELSE Event("start", "artifact", 0, 1, TRUE, FALSE)]

OneRequest(c) == [c EXCEPT !.requestCount = @ + 1, !.activeUploads = @ + 1]
OneLess(n) == Bigger(0, n - 1)

\* Fault: every artifact of a bundle that ends takes one off the active uploads.
EndEveryArtifact(c, e) ==
    LET d == [c EXCEPT !.uploaded = @ + (IF e.ok THEN 1 ELSE 0)]
    IN IF e.fell THEN d ELSE [d EXCEPT !.activeUploads = OneLess(@)]

(* The branches of browserPerfUploadTaskEvent.                             *)
EventStarts(c, e) ==
    LET d == [c EXCEPT !.queued = @ + 1, !.artifactCount = @ + 1]
    IN IF e.kind = "bundle"
       THEN IF e.bundle \in c.startedBundles THEN d
            ELSE [OneRequest(d) EXCEPT !.startedBundles = @ \cup {e.bundle}, !.bundleCount = @ + 1,
                                       !.bundledArtifactCount = @ + e.size, !.bytesSent = @ + e.size]
       ELSE [OneRequest(d) EXCEPT !.perArtifactCount = @ + 1, !.bytesSent = @ + 1]
EventFallsBack(c, e) ==
    LET d == [c EXCEPT !.fallbackCount = @ + 1, !.perArtifactCount = @ + e.size,
                       !.requestCount = @ + e.size, !.bytesSent = @ + e.size]
    IN IF e.bundle \in c.finishedBundles THEN d
       ELSE [d EXCEPT !.finishedBundles = @ \cup {e.bundle}, !.activeUploads = OneLess(@)]
EventEnds(c, e) ==
    LET d == [c EXCEPT !.uploaded = @ + (IF e.ok THEN 1 ELSE 0)]
    IN IF e.kind = "bundle"
       THEN IF e.bundle \in c.finishedBundles THEN d
            ELSE [d EXCEPT !.finishedBundles = @ \cup {e.bundle}, !.activeUploads = OneLess(@)]
       ELSE IF e.fell THEN d ELSE [d EXCEPT !.activeUploads = OneLess(@)]
browserPerfUploadTaskEvent(c, e) ==
    CASE e.phase = "start" -> EventStarts(c, e)
      [] e.phase = "fallback" -> EventFallsBack(c, e)
      [] e.phase = "end" -> EventEnds(c, e)

(* The patch each event publishes.                                         *)
TaskStatus(s, c, e) ==
    patchUploadPipelineStatus(s,
      [phase |-> "upload_transport",
       tone |-> IF ~e.ok THEN "error" ELSE IF e.phase = "fallback" THEN "warning" ELSE "active",
       stage |-> IF e.phase = "end" /\ e.ok THEN "provider" ELSE "upload_queue",
       error |-> ~e.ok, queued |-> c.queued, uploaded |-> c.uploaded, requests |-> c.requestCount])

(* The events of one step of the engine: what ended, then what the step    *)
(* launched.                                                               *)
Emit(ended) ==
    LET starts == FlattenSeq([i \in 1 .. nextIndex' - nextIndex |-> StartEvents(nextIndex + i, items', input'.bundles)])
        es == ended \o starts
        c == FoldLeft(browserPerfUploadTaskEvent, counters, es)
    IN /\ counters' = c
       /\ status' = IF es = <<>> THEN status ELSE TaskStatus(status, c, Last(es))

(* What the engine itself counts for the requests of the step.             *)
Artifacts(n) == [createUploadTransportStats EXCEPT !.perArtifactCount = n, !.requestCount = n, !.bytesSent = n]
Launches ==
    LET its == [i \in 1 .. nextIndex' - nextIndex |-> items'[nextIndex + i]]
        n == FoldLeft(LAMBDA s, ts : s + Len(ts), 0, its)
    IN IF input'.bundles
       THEN [createUploadTransportStats EXCEPT !.bundleCount = Len(its), !.bundledArtifactCount = n,
                                               !.requestCount = Len(its), !.bytesSent = n]
       ELSE Artifacts(Len(its))
Count(more) == stats' = mergeUploadTransportStats(mergeUploadTransportStats(stats, Launches), more)

EndEvent(t, kind, item, size, fell) == Event("end", kind, item, size, [task |-> t, ok |-> TRUE] \in events', fell)

-----------------------------------------------------------------------------
(* The run around the engine's call.                                       *)
TInit ==
    /\ Init
    /\ run = "idle" /\ counters = createUploadTransportCounters /\ stats = createUploadTransportStats
    /\ status = createUploadPipelineStatus /\ rendered = FALSE

browserPerfStartRun ==
    /\ run = "idle"
    /\ run' = "preparing"
    /\ publishUploadStatus(patchUploadPipelineStatus(createUploadPipelineStatus,
                   [phase |-> "read_file", tone |-> uploadToneForPhase("read_file"), stage |-> "browser_memory"]))
    /\ UNCHANGED <<vars, counters, stats, rendered>>

(* Preparing ends: its artifacts are queued, or it failed.                 *)
PrepareEnds ==
    /\ run = "preparing"
    /\ \/ /\ run' = "prepared"
          /\ publishUploadStatus(patchUploadPipelineStatus(status, [phase |-> "done", tone |-> "success", stage |-> "upload_queue"]))
       \/ /\ run' = "failed"
          /\ status' = patchUploadPipelineStatus(status, [phase |-> "error", tone |-> "error", error |-> TRUE])
    /\ UNCHANGED <<vars, counters, stats, rendered>>

browserPerfStartPhase(phase) ==
    LET p == browserPerfPhaseToUploadPhase(phase)
    IN publishUploadStatus(patchUploadPipelineStatus(status, [phase |-> p, tone |-> uploadToneForPhase(p)]))

startUpload ==
    /\ run = "prepared"
    /\ run' = "uploading"
    /\ counters' = createUploadTransportCounters
    /\ browserPerfStartPhase("upload")
    /\ UNCHANGED <<vars, stats, rendered>>

(* The engine's call, with the events of each of its steps.                *)
CallStarts ==
    /\ run = "uploading"
    /\ uploadDirect \/ uploadStriped \/ uploadStripedSlot
    /\ Emit(<<>>)
    /\ Count([createUploadTransportStats EXCEPT !.artifactCount = IF nextIndex' = 0 THEN 0 ELSE Len(Tasks(input'))])
PipelineStarts ==
    /\ run = "uploading" /\ uploadPipelinedGeneration
    /\ UNCHANGED <<counters, stats, status>>
RequestEnds(a) ==
    LET ts == items[a.item]
        kept == createUploadTransportStats
    IN \/ ArtifactEnds(a) /\ Emit(<<EndEvent(ts[1], "artifact", 0, 1, FALSE)>>) /\ Count(kept)
       \/ /\ BundleEnds(a)
          /\ Emit([i \in DOMAIN ts |-> EndEvent(ts[i], "bundle", a.item, Len(ts), FALSE)])
          /\ Count(kept)
       \/ /\ BundleUnsupported(a)
          /\ Emit(<<Event("fallback", "artifact", a.item, Len(ts), TRUE, TRUE)>>)
          /\ Count([Artifacts(1) EXCEPT !.fallbackCount = 1])
       \/ /\ FallbackArtifact(a)
          /\ Emit(<<EndEvent(ts[a.stage], "artifact", a.item, Len(ts), TRUE)>>)
          /\ Count(IF [a EXCEPT !.stage = @ + 1] \in active' THEN Artifacts(1) ELSE kept)
PipelineStep ==
    \/ /\ ProduceItem \/ ProduceEnds \/ PipelineFails
       /\ UNCHANGED <<counters, stats, status>>
    \/ /\ SendManifests
       /\ Emit(<<>>)
       /\ Count([createUploadTransportStats EXCEPT !.artifactCount = Len(items')])
WorkerSteps(w) ==
    \/ /\ WorkerStep(w)
       /\ LET sends == workers'[w].at = "sending"
          IN /\ Emit(IF sends THEN <<Event("start", "artifact", 0, 1, TRUE, FALSE)>> ELSE <<>>)
             /\ Count(IF sends THEN [Artifacts(1) EXCEPT !.artifactCount = 1] ELSE createUploadTransportStats)
    \/ /\ WorkerSent(w)
       /\ Emit(<<EndEvent(workers[w].task[1], "artifact", 0, 1, FALSE)>>)
       /\ Count(createUploadTransportStats)
EngineSteps ==
    /\ CallStarts \/ PipelineStarts \/ PipelineStep
       \/ (\E a \in active : RequestEnds(a)) \/ (\E w \in DOMAIN workers : WorkerSteps(w))
    /\ UNCHANGED <<run, rendered>>

(* The call returned.                                                      *)
UploadReturns ==
    /\ run = "uploading" /\ result # "none"
    /\ IF result = "ok"
       THEN /\ run' = "uploaded"
            /\ status' = patchUploadPipelineStatus(status, [phase |-> "chain_handoff", tone |-> "active", stage |-> "provider"])
       ELSE run' = "failed" /\ UNCHANGED status
    /\ UNCHANGED <<vars, counters, stats, rendered>>

(* The status effect, run by the render that marks the upload complete,    *)
(* before or after the call's continuation: the shard phase is still       *)
(* "done". The same render offers the commit.                              *)
StatusEffect ==
    /\ run = "uploaded" \/ (run = "uploading" /\ result = "ok")
    /\ ~rendered
    /\ rendered' = TRUE
    /\ LET p == uploadStatusPhaseFromShardPhase("done")
       IN publishUploadStatus(patchUploadPipelineStatus(status, [phase |-> p, tone |-> uploadToneForPhase(p), stage |-> "provider"]))
    /\ UNCHANGED <<vars, run, counters, stats>>

startCommit ==
    /\ run = "uploaded" /\ rendered
    /\ run' = "committing"
    /\ browserPerfStartPhase("commit")
    /\ UNCHANGED <<vars, counters, stats, rendered>>
CommitEnds ==
    /\ run = "committing"
    /\ \/ /\ run' = "committed"
          /\ status' = patchUploadPipelineStatus(status, [phase |-> "done", tone |-> "success", stage |-> "chain"])
       \/ /\ run' = "failed"
          /\ status' = patchUploadPipelineStatus(status, [phase |-> "error", tone |-> "error", error |-> TRUE])
    /\ UNCHANGED <<vars, counters, stats, rendered>>

TNext ==
    \/ browserPerfStartRun \/ PrepareEnds \/ startUpload \/ EngineSteps
    \/ UploadReturns \/ StatusEffect \/ startCommit \/ CommitEnds
TSpec == TInit /\ [][TNext]_<<vars, tvars>>

-----------------------------------------------------------------------------
TTypeOK ==
    /\ counters.activeUploads \in Nat /\ counters.uploaded <= counters.artifactCount
    /\ status.tone \in {"idle", "active", "success", "warning", "error"}

(* The requests the card takes to be under way: bundles that fell back to  *)
(* single artifacts are counted no more.                                   *)
UnderWay == IF input.entry = "none" THEN 0
            ELSE Cardinality({a \in active : ~input.bundles \/ a.stage = 0})
                 + Cardinality({w \in DOMAIN workers : workers[w].at = "sending"})

(* The card counts from events what the engine counts at its requests:     *)
(* the uploads under way at every moment, and after a call that succeeded  *)
(* the same artifacts, bundles, requests, bytes and fall-backs, all of     *)
(* them uploaded, whatever bundles fell back and in whatever order the     *)
(* answers came. What it publishes claims no more than that: a run handed  *)
(* to the chain has every artifact with its provider and no error showing, *)
(* and "chain" is claimed only of a committed run.                         *)
TransferReported ==
    /\ counters.activeUploads = UnderWay
    /\ result = "ok" =>
         /\ \A f \in DOMAIN stats : counters[f] = stats[f]
         /\ counters.uploaded = counters.artifactCount
         /\ status.uploaded = counters.uploaded /\ status.requests = stats.requestCount
    /\ status.phase = "chain_handoff" => Range(Tasks(input)) \subseteq stored /\ ~status.error
    /\ status.stage = "chain" => run = "committed"
=============================================================================
