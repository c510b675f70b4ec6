----------------------------- MODULE KzgBackend -----------------------------
(***************************************************************************)
(* The browser's KZG commitment backend (lib/kzgCommitBackend.ts) over the *)
(* WebGPU multi-scalar-multiplication committer (lib/webgpuKzgMsm.ts): a   *)
(* commit call calibrates the adapter, probes it against the WASM result,  *)
(* commits on the GPU under a timeout, and falls back to WASM behind a     *)
(* circuit breaker.                                                        *)
(*                                                                         *)
(* A committer owns one set of scratch buffers.  What matters of them is   *)
(* whose window sums the last dispatch of the queue left there, whose the  *)
(* read-back buffer holds, and who has a map of it pending.  The GPU queue *)
(* executes in submission order, so both are known at submission; the      *)
(* promises of the device settle in the order of its timeline.             *)
(***************************************************************************)
EXTENDS Naturals, FiniteSets

CONSTANTS
  Calls,            \* commit calls made of the backend during a session
  Profiled,         \* those made through commitBlobsProfiled
  Blobs,            \* number of blobs of each call
  BatchMdus,        \* number of user MDUs in the batch of each call
  Dispatches,       \* GPU dispatches a call needs (its non-zero blobs)
  MinBlobs,         \* webGpuMinBlobs
  CalibrationMin,   \* webGpuCalibrationMinBlobs
  MaxConcurrent,    \* calls in progress at a time
  MaxCommitters,    \* bound: committers created; a later request is refused
  MaxLost,          \* bound: device losses
  Modes,            \* kernel variants (bucket width and reduction mode)
  DefaultMode,      \* the adapter's default variant
  Broken            \* variants whose results differ from WASM on this adapter

Absent == "none"
Jobs == Calls \cup {"probe"}
Ids  == 1..MaxCommitters

BackendAssumption ==
  /\ Profiled \subseteq Calls
  /\ Blobs \in [Calls -> Nat] /\ BatchMdus \in [Calls -> Nat \ {0}]
  /\ Dispatches \in [Calls -> Nat \ {0}]
  /\ DefaultMode \in Modes /\ Broken \subseteq Modes /\ Absent \notin Modes \cup Jobs

VARIABLES
  kind,         \* the backend createBrowserKzgCommitBackend chose
  circuit,      \* the session circuit breaker is open
  probeStatus,  \* "not-run", "running", "passed", "failed" or "timeout"
  cached,       \* the calibration kept for this adapter
  selected,     \* the calibration in use
  calibrating,  \* calibrationPromise is set
  probing,      \* probePromise: its stage, the variant being created, the committer
  committer,    \* the current committer, 0 if there is none
  coms,         \* every committer created: its variant and its scratch buffers
  retired,      \* timed-out committers to destroy when their promise settles
  job,          \* GPU work started by a call or by the probe
  call          \* where each call is, and its result

vars == <<kind, circuit, probeStatus, cached, selected, calibrating, probing,
          committer, coms, retired, job, call>>

NoCommitter == [mode |-> Absent, window |-> Absent, readback |-> Absent,
                mapping |-> Absent, gone |-> FALSE, lost |-> FALSE]
NoJob   == [com |-> 0, st |-> Absent, left |-> 0, own |-> TRUE, ahead |-> {}]
NoProbe == [st |-> Absent, mode |-> Absent, com |-> 0]

(* WebGpuKzgMsmCalibrationCache.get: what an earlier session may have kept
   for this adapter, which is nothing or a variant that passed calibration;
   and the calibration in use then, defaultWebGpuKzgMsmAdapterCalibration
   when nothing was kept. *)
Remembered   == {Absent} \cup (Modes \ Broken)
InUse(entry) == IF entry = Absent THEN DefaultMode ELSE entry

Init ==
  /\ kind = Absent
  /\ circuit = FALSE /\ probeStatus = "not-run" /\ calibrating = FALSE
  /\ cached \in Remembered
  /\ selected = InUse(cached)
  /\ probing = NoProbe /\ committer = 0 /\ retired = {}
  /\ coms = [i \in Ids |-> NoCommitter]
  /\ job  = [j \in Jobs |-> NoJob]
  /\ call = [c \in Calls |-> [pc |-> "idle", mode |-> Absent, res |-> Absent]]

----------------------------------------------------------------------------
(* Pieces of the handlers *)

At(c, pc)      == [call EXCEPT ![c].pc = pc]
Returned(c, r) == [call EXCEPT ![c].pc = "done", ![c].res = r]

(* Calls awaiting a shared promise resume with it: towards the GPU when it
   answered true, with the WASM result when it answered false. *)
ResumeAll(pc, ok, next) ==
  [c \in Calls |->
     IF call[c].pc # pc THEN call[c]
     ELSE IF ok THEN [call[c] EXCEPT !.pc = next]
                ELSE [call[c] EXCEPT !.pc = "done", !.res = "own"]]

Free    == {i \in Ids : coms[i].mode = Absent}
Created(i, mode) == [coms EXCEPT ![i] = [NoCommitter EXCEPT !.mode = mode]]
Destroyed(cs, i) == [k \in Ids |-> IF k = i THEN [cs[k] EXCEPT !.gone = TRUE] ELSE cs[k]]

(* Work of j begins on committer i: buckets, scratch writes, the submission
   that overwrites the window sums, and the error scope to be popped. *)
Pending(i) == {k \in Jobs : job[k].com = i /\ job[k].st = "scope"}
Started(j, i, n) ==
  [job EXCEPT ![j] = [com |-> i, st |-> "scope", left |-> n, own |-> TRUE,
                      ahead |-> Pending(i) \ {j}]]
Dispatched(cs, i, j) == [cs EXCEPT ![i].window = j]

(* openCircuit: the current committer and the cached calibration go. *)
OpenCircuit(cs) ==
  /\ circuit' = TRUE
  /\ committer' = 0
  /\ cached' = Absent
  /\ coms' = Destroyed(cs, committer)

(* updateSelectedCalibration: another variant needs another committer. *)
Select(mode) ==
  /\ selected' = mode
  /\ IF mode # selected
     THEN committer' = 0 /\ coms' = Destroyed(coms, committer)
     ELSE UNCHANGED <<committer, coms>>

----------------------------------------------------------------------------
(* A call, from entry to the GPU *)

(* Without the preference or with WebGPU off there is only WASM; a missing
   GPU, a trusted setup that fails its checks or a refused adapter leave the
   lifecycle backend, which also commits by WASM. *)
CreateBackend ==
  /\ kind = Absent
  /\ \E preferWebGpu, usable \in BOOLEAN :
       kind' = IF ~preferWebGpu THEN "wasm-blst"
               ELSE IF usable THEN "webgpu-scheduler" ELSE "webgpu-wasm-fallback"
  /\ UNCHANGED <<circuit, probeStatus, cached, selected, calibrating, probing,
                 committer, coms, retired, job, call>>

WasmOnly == kind \in {"wasm-blst", "webgpu-wasm-fallback"}

(* Entry of a commit: the threshold, the circuit, and ensureCalibration. *)
BeginCommit(c) ==
  /\ kind # Absent /\ call[c].pc = "idle"
  /\ Cardinality({d \in Calls : call[d].pc \notin {"idle", "done"}}) < MaxConcurrent
  /\ UNCHANGED <<kind, circuit, probeStatus, cached, probing, retired, job>>
  /\ \/ /\ WasmOnly \/ Blobs[c] < MinBlobs \/ circuit
        /\ call' = Returned(c, "own")
        /\ UNCHANGED <<selected, calibrating, committer, coms>>
     \/ /\ ~WasmOnly /\ Blobs[c] >= MinBlobs /\ ~circuit
        /\ IF cached # Absent
           THEN Select(cached) /\ call' = At(c, "probe") /\ UNCHANGED calibrating
           ELSE /\ UNCHANGED <<selected, committer, coms>>
                /\ IF Blobs[c] < CalibrationMin
                   THEN call' = At(c, "probe") /\ UNCHANGED calibrating
                   ELSE call' = At(c, "calibrating") /\ calibrating' = TRUE

CommitBlobs(c)         == c \notin Profiled /\ BeginCommit(c)
CommitBlobsProfiled(c) == c \in Profiled /\ BeginCommit(c)

(* calibrateWebGpuKzgMsmAdapter runs every candidate on a committer of its
   own and keeps the fastest whose commitments equal the oracle's. *)
Calibrated == Modes \ Broken

RunCalibration ==
  /\ calibrating
  /\ calibrating' = FALSE
  /\ UNCHANGED <<kind, probeStatus, probing, retired, job>>
  /\ \/ \E mode \in Calibrated :
          /\ cached' = mode
          /\ Select(mode)
          /\ call' = ResumeAll("calibrating", TRUE, "probe")
          /\ UNCHANGED circuit
     \/ /\ OpenCircuit(coms)
        /\ call' = ResumeAll("calibrating", FALSE, "probe")
        /\ UNCHANGED selected

(* probe: a passed probe stands; otherwise join the probe or start one. *)
Probe(c) ==
  /\ call[c].pc = "probe"
  /\ UNCHANGED <<kind, circuit, cached, selected, calibrating, committer, retired>>
  /\ \/ /\ probeStatus = "passed"
        /\ call' = IF committer # 0 THEN At(c, "commit")
                   ELSE [At(c, "creating") EXCEPT ![c].mode = selected]
        /\ UNCHANGED <<probeStatus, probing, coms, job>>
     \/ /\ probeStatus # "passed" /\ probing # NoProbe
        /\ call' = At(c, "probing")
        /\ UNCHANGED <<probeStatus, probing, coms, job>>
     \/ /\ probeStatus # "passed" /\ probing = NoProbe
        /\ call' = At(c, "probing")
        /\ probeStatus' = "running"
        /\ IF committer # 0
           THEN /\ probing' = [st |-> "gpu", mode |-> Absent, com |-> committer]
                /\ job' = Started("probe", committer, 1)
                /\ coms' = Dispatched(coms, committer, "probe")
           ELSE /\ probing' = [st |-> "create", mode |-> selected, com |-> 0]
                /\ UNCHANGED <<job, coms>>

(* initCommitter for a call whose probe passed but whose committer is gone. *)
Reinitialise(c) ==
  /\ call[c].pc = "creating"
  /\ UNCHANGED <<kind, selected, calibrating, probing, retired, job>>
  /\ \/ \E i \in Free :
          /\ \A k \in Free : i <= k
          /\ coms' = Created(i, call[c].mode) /\ committer' = i
          /\ call' = At(c, "commit")
          /\ UNCHANGED <<circuit, probeStatus, cached>>
     \/ /\ OpenCircuit(coms)
        /\ probeStatus' = "failed"
        /\ call' = Returned(c, "own")

(* The call takes the committer there is now, or WASM when there is none. *)
StartGpu(c) ==
  /\ call[c].pc = "commit"
  /\ UNCHANGED <<kind, circuit, probeStatus, cached, selected, calibrating, probing,
                 committer, retired>>
  /\ IF committer = 0
     THEN call' = Returned(c, "own") /\ UNCHANGED <<job, coms>>
     ELSE /\ call' = At(c, "gpu")
          /\ job' = Started(c, committer, Dispatches[c])
          /\ coms' = Dispatched(coms, committer, c)

----------------------------------------------------------------------------
(* The probe *)

(* initCommitter of the probe, then the probe blob on the GPU. *)
ProbeCreate ==
  /\ probing.st = "create"
  /\ UNCHANGED <<kind, selected, calibrating, retired>>
  /\ \/ \E i \in Free :
          /\ \A k \in Free : i <= k
          /\ coms' = Dispatched(Created(i, probing.mode), i, "probe")
          /\ committer' = i
          /\ probing' = [st |-> "gpu", mode |-> Absent, com |-> i]
          /\ job' = Started("probe", i, 1)
          /\ UNCHANGED <<circuit, probeStatus, cached, call>>
     \/ /\ OpenCircuit(coms)
        /\ probing' = NoProbe /\ probeStatus' = "failed"
        /\ call' = ResumeAll("probing", FALSE, "commit")
        /\ UNCHANGED job

(* The probe's commitment must equal the WASM one, and be no slower. *)
Parity == job["probe"].own /\ coms[probing.com].mode \notin Broken

RunProbe ==
  /\ probing.st = "gpu" /\ job["probe"].st \in {"ok", "failed"}
  /\ probing' = NoProbe
  /\ UNCHANGED <<kind, selected, calibrating, retired, job>>
  /\ \/ /\ job["probe"].st = "failed" \/ ~Parity
        /\ OpenCircuit(coms)
        /\ probeStatus' = "failed"
        /\ call' = ResumeAll("probing", FALSE, "commit")
     \/ /\ job["probe"].st = "ok" /\ Parity
        /\ UNCHANGED <<circuit, cached, committer, coms>>
        /\ \E slower \in BOOLEAN :
             /\ probeStatus' = IF slower THEN "failed" ELSE "passed"
             /\ call' = ResumeAll("probing", ~slower, "commit")

\* Fault: the probe waits for the GPU without a deadline.
NoProbeTimeout == FALSE /\ UNCHANGED vars

ProbeTimeout ==
  /\ probing.st = "gpu" /\ job["probe"].st \notin {"ok", "failed"}
  /\ OpenCircuit(coms)
  /\ probing' = NoProbe /\ probeStatus' = "timeout"
  /\ retired' = retired \cup {probing.com}
  /\ call' = ResumeAll("probing", FALSE, "commit")
  /\ UNCHANGED <<kind, selected, calibrating, job>>

----------------------------------------------------------------------------
(* The GPU's side of committer.commitBlobs *)

Settled(j, st) == [k \in Jobs |->
  IF k = j THEN [job[k] EXCEPT !.st = st, !.ahead = {}]
  ELSE [job[k] EXCEPT !.ahead = @ \ {j}]]

(* popErrorScope resolves: the copy of the window sums is submitted and the
   read-back buffer mapped, unless a map of it is pending already. *)
CopyBack(j) ==
  LET i == job[j].com IN
  /\ job[j].st = "scope" /\ job[j].ahead = {}
  /\ ~coms[i].gone
  /\ IF coms[i].mapping # Absent
     THEN job' = Settled(j, "rejecting") /\ UNCHANGED coms
     ELSE /\ coms' = [coms EXCEPT ![i].readback = coms[i].window, ![i].mapping = j]
          /\ job' = [Settled(j, "mapping") EXCEPT ![j].ahead = Pending(i) \ {j}]
  /\ UNCHANGED <<kind, circuit, probeStatus, cached, selected, calibrating, probing,
                 committer, retired, call>>

(* mapAsync resolves: the window sums are folded; next blob, or the result. *)
Mapped(j) ==
  LET i == job[j].com  own == job[j].own /\ coms[i].readback = j IN
  /\ job[j].st = "mapping" /\ job[j].ahead = {} /\ ~coms[i].gone
  /\ IF job[j].left = 1
     THEN /\ job' = [Settled(j, "ok") EXCEPT ![j].own = own]
          /\ coms' = [coms EXCEPT ![i].mapping = Absent]
     ELSE /\ job' = [job EXCEPT ![j] = [com |-> i, st |-> "scope", left |-> @.left - 1,
                                        own |-> own, ahead |-> Pending(i) \ {j}]]
          /\ coms' = [coms EXCEPT ![i].mapping = Absent, ![i].window = j]
  /\ UNCHANGED <<kind, circuit, probeStatus, cached, selected, calibrating, probing,
                 committer, retired, call>>

(* The promise rejects: a second map, or buffers destroyed under the work. *)
GpuRejects(j) ==
  /\ \/ job[j].st = "rejecting"
     \/ job[j].st \in {"scope", "mapping"} /\ coms[job[j].com].gone
  /\ job' = Settled(j, "failed")
  /\ coms' = [coms EXCEPT ![job[j].com].mapping = IF @ = j THEN Absent ELSE @]
  /\ UNCHANGED <<kind, circuit, probeStatus, cached, selected, calibrating, probing,
                 committer, retired, call>>

(* device.lost of some committer: its work fails and the circuit opens. *)
DeviceLost(i) ==
  /\ coms[i].mode # Absent /\ ~coms[i].gone
  /\ Cardinality({k \in Ids : coms[k].lost}) < MaxLost
  /\ OpenCircuit([coms EXCEPT ![i].gone = TRUE, ![i].lost = TRUE])
  /\ UNCHANGED <<kind, probeStatus, selected, calibrating, probing, retired, job, call>>

----------------------------------------------------------------------------
(* The end of a call *)

Value(c) == IF ~job[c].own THEN "foreign"
            ELSE IF coms[job[c].com].mode \in Broken THEN "broken" ELSE "own"

CommitSettles(c) ==
  /\ call[c].pc = "gpu" /\ job[c].st \in {"ok", "failed"}
  /\ UNCHANGED <<kind, probeStatus, selected, calibrating, probing, retired, job>>
  /\ IF job[c].st = "ok"
     THEN call' = Returned(c, Value(c)) /\ UNCHANGED <<circuit, cached, committer, coms>>
     ELSE OpenCircuit(coms) /\ call' = Returned(c, "own")

CommitBlobsSettles(c)         == c \notin Profiled /\ CommitSettles(c)
CommitBlobsProfiledSettles(c) == c \in Profiled /\ CommitSettles(c)

\* Fault: the timed-out committer stays the current one.
KeepTimedOut(i) == committer

(* retireTimedOutCommitter: the next call must make a new committer. *)
RetireTimedOut(i) == IF committer = i THEN 0 ELSE committer

(* A batch of several MDUs may be retried smaller and throws; a single one
   opens the circuit and is committed by WASM. *)
CommitTimeout(c) ==
  /\ call[c].pc = "gpu" /\ job[c].st \notin {"ok", "failed"}
  /\ retired' = retired \cup {job[c].com}
  /\ UNCHANGED <<kind, probeStatus, selected, calibrating, probing, job>>
  /\ IF BatchMdus[c] > 1
     THEN /\ committer' = RetireTimedOut(job[c].com)
          /\ call' = Returned(c, "timeout")
          /\ UNCHANGED <<circuit, cached, coms>>
     ELSE /\ circuit' = TRUE /\ committer' = 0 /\ cached' = Absent
          /\ coms' = Destroyed(coms, RetireTimedOut(job[c].com))
          /\ call' = Returned(c, "own")

(* The finally of a retired promise destroys its committer. *)
DestroyRetired(i) ==
  /\ i \in retired
  /\ \A j \in Jobs : job[j].com = i => job[j].st \in {"ok", "failed"}
  /\ retired' = retired \ {i}
  /\ coms' = Destroyed(coms, i)
  /\ UNCHANGED <<kind, circuit, probeStatus, cached, selected, calibrating, probing,
                 committer, job, call>>

----------------------------------------------------------------------------
Host(c) == \/ CommitBlobs(c) \/ CommitBlobsProfiled(c)
           \/ Probe(c) \/ Reinitialise(c) \/ StartGpu(c)
           \/ CommitBlobsSettles(c) \/ CommitBlobsProfiledSettles(c)
           \/ CommitTimeout(c)
Shared  == RunCalibration \/ ProbeCreate \/ RunProbe \/ ProbeTimeout
Gpu     == \/ \E j \in Jobs : CopyBack(j) \/ Mapped(j) \/ GpuRejects(j)
           \/ \E i \in Ids : DeviceLost(i) \/ DestroyRetired(i)

Next == CreateBackend \/ (\E c \in Calls : Host(c)) \/ Shared \/ Gpu

(* The event loop runs what is ready and its timers fire; adapter, device
   and calibration requests settle.  The GPU itself may hang. *)
Spec == Init /\ [][Next]_vars
        /\ (\A c \in Calls : WF_vars(Host(c))) /\ WF_vars(Shared)

----------------------------------------------------------------------------
TypeOK ==
  /\ kind \in {Absent, "wasm-blst", "webgpu-scheduler", "webgpu-wasm-fallback"}
  /\ circuit \in BOOLEAN /\ calibrating \in BOOLEAN
  /\ probeStatus \in {"not-run", "running", "passed", "failed", "timeout"}
  /\ cached \in {Absent} \cup Modes /\ selected \in Modes
  /\ committer \in {0} \cup Ids /\ retired \subseteq Ids
  /\ \A j \in Jobs : job[j].com \in {0} \cup Ids
  /\ \A c \in Calls : call[c].res \in {Absent, "own", "foreign", "broken", "timeout"}

(* A commitment the backend hands out is the one WASM would have computed
   for the caller's own blobs: never another job's window sums left in the
   scratch buffers by a timed-out commit that is still running, never the
   output of a kernel variant that fails the oracle comparison. *)
ParityPreserved == \A c \in Calls : call[c].res \notin {"foreign", "broken"}

(* Every commit call gets an answer, a commitment or a retryable timeout,
   even when the GPU never finishes the work of the probe or of the call. *)
EveryCommitAnswers == \A c \in Calls : (call[c].pc # "idle") ~> (call[c].pc = "done")
=============================================================================
