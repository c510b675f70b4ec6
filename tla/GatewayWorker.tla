--------------------------- MODULE GatewayWorker ---------------------------
(***************************************************************************)
(* The worker that prepares generations (workers/gateway.worker.ts), the   *)
(* pool of commit workers it owns, and the page's client of it with its    *)
(* pool of expansion workers (lib/worker-client.ts).                       *)
(*                                                                         *)
(* One MDU 0 builder serves every preparation of the page.  A message      *)
(* handler may await, and other messages are handled meanwhile; mdu0Busy   *)
(* keeps two metadata operations apart.                                    *)
(***************************************************************************)
EXTENDS Naturals, FiniteSets

CONSTANTS
  Clients,      \* concurrent callers in the page
  Kinds,        \* operations they call
  Commit,       \* commit workers the worker may spawn
  Expand,       \* expansion workers the page may spawn
  Batches,      \* blob batches of an MDU
  MaxCalls,     \* bound: calls in all
  MaxCrashes,   \* bound: workers that die
  InitCrashes   \* may a worker die before its pool is ready

Mdu0Kinds == {"initMdu0Builder", "loadMdu0Builder", "appendFileToMdu0", "setMdu0RootsBatch",
              "prepareMdu0Bytes", "prepareAndCommitMdu0", "getMdu0Bytes"}
Workers == Commit \cup Expand
Pools == {"commit", "expand"}
PoolOf(w) == IF w \in Commit THEN "commit" ELSE "expand"
NoBuilder == [made |-> FALSE, roots |-> {}, files |-> {}]
Empty == [made |-> TRUE, roots |-> {}, files |-> {}]

GatewayWorkerAssumption ==
  /\ Kinds \subseteq Mdu0Kinds \cup {"initRetrievalWasm", "initPolyStoreWasm",
                                     "shardFileProgressive", "expandMduRs"}
  /\ Batches \in Nat /\ MaxCalls \in Nat /\ Commit \cap Expand = {}

VARIABLES
  wasm,       \* "loading", "ready" or "error": the module's initialisation
  instance,   \* PolyStoreWasm exists
  backend,    \* the commitment backend exists
  builder,    \* the MDU 0 builder: its roots and file records, by the call that set them
  busy,       \* mdu0Busy
  pool,       \* "none", "pending", "ready" or "failed", per pool
  worker,     \* "none", "init", "up" or "dead", per pool worker
  members,    \* workers each pool uses
  call,       \* per client: the operation, where it stands, its staged builder and its parts
  answered,   \* the builder that the answered operations amount to
  calls, crashes

vars == <<wasm, instance, backend, builder, busy, pool, worker, members, call,
          answered, calls, crashes>>

NoCall == [kind |-> "none", pc |-> "idle", tag |-> 0, staged |-> NoBuilder,
           next |-> 1, width |-> 1, at |-> {}]

Init ==
  /\ wasm = "loading" /\ instance = FALSE /\ backend = FALSE
  /\ builder = NoBuilder /\ busy = FALSE /\ answered = NoBuilder
  /\ pool = [p \in Pools |-> "none"] /\ worker = [w \in Workers |-> "none"]
  /\ members = [p \in Pools |-> {}]
  /\ call = [c \in Clients |-> NoCall]
  /\ calls = 0 /\ crashes = 0

----------------------------------------------------------------------------
(* What an operation does to the builder *)

setRoots(b, tag) == [b EXCEPT !.roots = @ \cup {tag}]
append_file(b, tag) == [b EXCEPT !.files = @ \cup {tag}]
Apply(b, kind, tag) ==
  CASE kind = "initMdu0Builder"   -> Empty
    [] kind = "loadMdu0Builder"   -> [made |-> TRUE, roots |-> {0}, files |-> {0}]
    [] kind = "appendFileToMdu0"  -> append_file(b, tag)
    [] kind = "setMdu0RootsBatch" -> setRoots(b, tag)
    [] kind \in {"prepareMdu0Bytes", "prepareAndCommitMdu0"} -> append_file(setRoots(b, tag), tag)
    [] OTHER -> b

----------------------------------------------------------------------------
(* Messages *)

Goto(c, pc) == [call EXCEPT ![c].pc = pc]
Ended(c) == [call EXCEPT ![c] = NoCall]

(* sendMessageToWorker *)
Post(c, kind) ==
  /\ call[c].pc = "idle" /\ calls < MaxCalls
  /\ calls' = calls + 1
  /\ call' = [call EXCEPT ![c] = [NoCall EXCEPT !.kind = kind, !.pc = "posted", !.tag = calls + 1]]
  /\ UNCHANGED <<wasm, instance, backend, builder, busy, pool, worker, members,
                 answered, crashes>>

(* initializeWasm: one attempt, its failure is kept. *)
WasmLoads ==
  /\ wasm = "loading"
  /\ wasm' \in {"ready", "error"}
  /\ UNCHANGED <<instance, backend, builder, busy, pool, worker, members, call,
                 answered, calls, crashes>>

\* Fault: metadata operations do not exclude each other.
LockFreeAlways(kind) == TRUE

LockFree(kind) == kind \in Mdu0Kinds \cup {"initPolyStoreWasm"} => ~busy

At(c, kinds) == call[c].pc = "posted" /\ call[c].kind \in kinds
Entered(c, kinds) == At(c, kinds) /\ wasm = "ready" /\ LockFree(call[c].kind)

(* A handler that throws before its first await answers with the error. *)
Refused(c) ==
  /\ call[c].pc = "posted" /\ wasm # "loading"
  /\ \/ wasm = "error"
     \/ ~LockFree(call[c].kind)
     \/ call[c].kind \in {"initMdu0Builder", "loadMdu0Builder", "shardFileProgressive", "expandMduRs",
                          "prepareMdu0Bytes", "prepareAndCommitMdu0"} /\ ~instance
     \/ call[c].kind \in Mdu0Kinds \ {"initMdu0Builder", "loadMdu0Builder"} /\ builder = NoBuilder
     \/ call[c].kind \in {"initRetrievalWasm", "initPolyStoreWasm"} \* an invalid trusted setup
     \/ call[c].kind \in Mdu0Kinds                                  \* arguments the builder refuses
  /\ call' = Ended(c)
  /\ UNCHANGED <<wasm, instance, backend, builder, busy, pool, worker, members,
                 answered, calls, crashes>>

InitRetrievalWasm(c) ==
  /\ Entered(c, {"initRetrievalWasm"})
  /\ instance' = TRUE /\ call' = Ended(c)
  /\ UNCHANGED <<wasm, backend, builder, busy, pool, worker, members, answered,
                 calls, crashes>>

(* The metadata operations that do not await: the builder is replaced or
   changed in place, and the answer is posted. *)
ReplaceBuilder(c) ==
  /\ Entered(c, {"initMdu0Builder", "loadMdu0Builder"}) /\ instance
  /\ builder' = Apply(builder, call[c].kind, call[c].tag)
  /\ answered' = Apply(answered, call[c].kind, call[c].tag)
  /\ call' = Ended(c)
  /\ UNCHANGED <<wasm, instance, backend, busy, pool, worker, members, calls, crashes>>

EditBuilder(c) ==
  /\ Entered(c, {"appendFileToMdu0", "setMdu0RootsBatch", "getMdu0Bytes"}) /\ builder # NoBuilder
  /\ builder' = Apply(builder, call[c].kind, call[c].tag)
  /\ answered' = Apply(answered, call[c].kind, call[c].tag)
  /\ call' = Ended(c)
  /\ UNCHANGED <<wasm, instance, backend, busy, pool, worker, members, calls, crashes>>

(* prepareMdu0Bytes and prepareAndCommitMdu0 work on a staged copy. *)
PrepareMdu0(c) ==
  /\ Entered(c, {"prepareMdu0Bytes", "prepareAndCommitMdu0"})
  /\ builder # NoBuilder /\ instance
  /\ LET staged == Apply(builder, call[c].kind, call[c].tag) IN
     IF call[c].kind = "prepareMdu0Bytes"
     THEN /\ builder' = staged /\ call' = Ended(c)
          /\ answered' = Apply(answered, call[c].kind, call[c].tag)
          /\ UNCHANGED busy
     ELSE /\ IF backend
             THEN busy' = TRUE /\ call' = [call EXCEPT ![c].pc = "commit", ![c].staged = staged]
             ELSE call' = Ended(c) /\ UNCHANGED busy
          /\ UNCHANGED <<builder, answered>>
  /\ UNCHANGED <<wasm, instance, backend, pool, worker, members, calls, crashes>>

(* The commitment of the staged slab comes back, or fails. *)
Mdu0Committed(c) ==
  /\ call[c].pc = "commit"
  /\ builder' = call[c].staged /\ busy' = FALSE /\ call' = Ended(c)
  /\ answered' = Apply(answered, call[c].kind, call[c].tag)
  /\ UNCHANGED <<wasm, instance, backend, pool, worker, members, calls, crashes>>

Mdu0CommitFails(c) ==
  /\ call[c].pc = "commit"
  /\ busy' = FALSE /\ call' = Ended(c)
  /\ UNCHANGED <<wasm, instance, backend, builder, pool, worker, members, answered,
                 calls, crashes>>

----------------------------------------------------------------------------
(* initPolyStoreWasm, and the two worker pools *)

InitPolyStoreWasm(c) ==
  /\ Entered(c, {"initPolyStoreWasm"})
  /\ IF instance /\ backend THEN call' = Goto(c, "expansion") /\ UNCHANGED <<instance, busy>>
     ELSE instance' = TRUE /\ busy' = TRUE /\ call' = Goto(c, "backend")
  /\ UNCHANGED <<wasm, backend, builder, pool, worker, members, answered, calls, crashes>>

(* A pool is spawned once: with one core it has no workers, and a spawn that
   fails leaves it without. *)
Spawn(p, ws) ==
  IF pool[p] # "none" THEN UNCHANGED <<pool, worker>>
  ELSE \/ pool' = [pool EXCEPT ![p] = "ready"] /\ UNCHANGED worker
       \/ /\ pool' = [pool EXCEPT ![p] = "pending"]
          /\ worker' = [w \in Workers |-> IF w \in ws THEN "init" ELSE worker[w]]

(* initializeCommitPool *)
BackendCreated(c) ==
  /\ call[c].pc = "backend"
  /\ backend' = TRUE /\ call' = Goto(c, "commitPool")
  /\ Spawn("commit", Commit)
  /\ UNCHANGED <<wasm, instance, builder, busy, members, answered, calls, crashes>>

BackendFails(c) ==
  /\ call[c].pc = "backend"
  /\ busy' = FALSE /\ call' = Ended(c)
  /\ UNCHANGED <<wasm, instance, backend, builder, pool, worker, members, answered,
                 calls, crashes>>

(* The pool settles; its failure leaves a pool without workers. *)
CommitPoolSettles(c) ==
  /\ call[c].pc = "commitPool" /\ pool["commit"] \in {"ready", "failed"}
  /\ pool' = [pool EXCEPT !["commit"] = "ready"]
  /\ busy' = FALSE /\ call' = Goto(c, "expansion")
  /\ UNCHANGED <<wasm, instance, backend, builder, worker, members, answered,
                 calls, crashes>>

(* initializeExpansionPool, in the page: a failure is kept. *)
StartExpansionPool(c) ==
  /\ call[c].pc = "expansion"
  /\ call' = Goto(c, "expansionPool")
  /\ Spawn("expand", Expand)
  /\ UNCHANGED <<wasm, instance, backend, builder, busy, members, answered, calls, crashes>>

ExpansionPoolSettles(c) ==
  /\ call[c].pc = "expansionPool" /\ pool["expand"] \in {"ready", "failed"}
  /\ call' = Ended(c)
  /\ UNCHANGED <<wasm, instance, backend, builder, busy, pool, worker, members,
                 answered, calls, crashes>>

(* A pool worker answers its initialisation. *)
WorkerReady(w) ==
  /\ worker[w] = "init"
  /\ worker' = [worker EXCEPT ![w] = "up"]
  /\ LET p == PoolOf(w)  ws == IF p = "commit" THEN Commit ELSE Expand IN
     IF pool[p] = "pending" /\ \A v \in ws : worker'[v] = "up"
     THEN pool' = [pool EXCEPT ![p] = "ready"] /\ members' = [members EXCEPT ![p] = ws]
     ELSE UNCHANGED <<pool, members>>
  /\ UNCHANGED <<wasm, instance, backend, builder, busy, call, answered, calls, crashes>>

WorkerInitFails(w) ==
  /\ worker[w] = "init"
  /\ worker' = [worker EXCEPT ![w] = "up"]
  /\ pool' = [pool EXCEPT ![PoolOf(w)] = IF @ = "pending" THEN "failed" ELSE @]
  /\ UNCHANGED <<wasm, instance, backend, builder, busy, members, call, answered,
                 calls, crashes>>

\* Fault: the calls whose messages the dead worker held are not rejected.
CrashForgets(w) ==
  /\ worker[w] \in {"init", "up"} /\ crashes < MaxCrashes
  /\ InitCrashes \/ pool[PoolOf(w)] = "ready"
  /\ crashes' = crashes + 1
  /\ worker' = [worker EXCEPT ![w] = "dead"]
  /\ members' = [p \in Pools |-> members[p] \ {w}]
  /\ UNCHANGED call

(* onerror: the messages recorded for the worker are rejected and it leaves
   the pool.  The initialisation message is recorded for an expansion worker,
   and is not for a commit worker. *)
Crash(w) ==
  /\ worker[w] \in {"init", "up"} /\ crashes < MaxCrashes
  /\ InitCrashes \/ pool[PoolOf(w)] = "ready"
  /\ crashes' = crashes + 1
  /\ worker' = [worker EXCEPT ![w] = "dead"]
  /\ members' = [p \in Pools |-> members[p] \ {w}]
  /\ call' = [c \in Clients |-> IF \E b \in call[c].at : b[2] = w THEN NoCall ELSE call[c]]

CommitWorkerCrash(w) ==
  /\ w \in Commit /\ Crash(w)
  /\ UNCHANGED <<wasm, instance, backend, builder, busy, pool, answered, calls>>

ExpansionWorkerCrash(w) ==
  /\ w \in Expand /\ Crash(w)
  /\ pool' = [pool EXCEPT !["expand"] = IF worker[w] = "init" /\ @ = "pending" THEN "failed" ELSE @]
  /\ UNCHANGED <<wasm, instance, backend, builder, busy, answered, calls>>

----------------------------------------------------------------------------
(* Work sent to the pools *)

(* The workers take turns, any of them being next; without workers the backend
   commits in place, at once. *)
InPlace == "local"
commitBlobsWithPool == IF members["commit"] = {} THEN {InPlace} ELSE members["commit"]

(* shardFileProgressive: batches are posted while fewer than width are in
   flight, and whenever one comes back. *)
Fill(c, at, next, width) ==
  LET free == width - Cardinality(at)
      last == IF next + free - 1 < Batches THEN next + free - 1 ELSE Batches
  IN \E to \in [next..last -> commitBlobsWithPool] :
       LET parts == at \cup {<<b, to[b]>> : b \in next..last} IN
       call' = IF parts = {} THEN Ended(c)
               ELSE [call EXCEPT ![c].pc = "shard", ![c].next = last + 1, ![c].width = width, ![c].at = parts]

ShardFileProgressive(c) ==
  /\ Entered(c, {"shardFileProgressive"}) /\ instance
  /\ IF members["commit"] = {} /\ ~backend THEN call' = Ended(c)
     ELSE Fill(c, {}, 1, IF members["commit"] = {} THEN 1 ELSE Cardinality(members["commit"]))
  /\ UNCHANGED <<wasm, instance, backend, builder, busy, pool, worker, members,
                 answered, calls, crashes>>

BatchCommitted(c, b) ==
  /\ call[c].pc = "shard" /\ b \in call[c].at
  /\ b[2] # InPlace => worker[b[2]] = "up"
  /\ Fill(c, call[c].at \ {b}, call[c].next, call[c].width)
  /\ UNCHANGED <<wasm, instance, backend, builder, busy, pool, worker, members,
                 answered, calls, crashes>>

BatchFails(c, b) ==
  /\ call[c].pc = "shard" /\ b \in call[c].at
  /\ b[2] # InPlace => worker[b[2]] = "up"
  /\ call' = Ended(c)
  /\ UNCHANGED <<wasm, instance, backend, builder, busy, pool, worker, members,
                 answered, calls, crashes>>

(* sendExpansionMessageToWorker: the least loaded expansion worker, or the
   gateway worker when there is none. *)
Load(w) == Cardinality({c \in Clients : \E b \in call[c].at : b[2] = w})
(* Without a pool the gateway worker expands the MDU itself. *)
ExpandInPlace(c) == wasm = "ready" /\ instance /\ call' = Ended(c)

SendExpansion(c) ==
  /\ At(c, {"expandMduRs"})
  /\ IF members["expand"] = {}
     THEN ExpandInPlace(c)
     ELSE \E w \in members["expand"] :
            /\ \A v \in members["expand"] : Load(w) <= Load(v)
            /\ call' = [call EXCEPT ![c].pc = "expand", ![c].at = {<<1, w>>}]
  /\ UNCHANGED <<wasm, instance, backend, builder, busy, pool, worker, members,
                 answered, calls, crashes>>

Expanded(c) ==
  /\ call[c].pc = "expand" /\ \A b \in call[c].at : worker[b[2]] = "up"
  /\ call' = Ended(c)
  /\ UNCHANGED <<wasm, instance, backend, builder, busy, pool, worker, members,
                 answered, calls, crashes>>

----------------------------------------------------------------------------
Handle(c) ==
  \/ Refused(c) \/ InitRetrievalWasm(c) \/ ReplaceBuilder(c) \/ EditBuilder(c)
  \/ PrepareMdu0(c) \/ Mdu0Committed(c) \/ Mdu0CommitFails(c)
  \/ InitPolyStoreWasm(c) \/ BackendCreated(c) \/ BackendFails(c)
  \/ CommitPoolSettles(c) \/ StartExpansionPool(c) \/ ExpansionPoolSettles(c)
  \/ ShardFileProgressive(c) \/ SendExpansion(c) \/ Expanded(c)
  \/ \E b \in call[c].at : BatchCommitted(c, b) \/ BatchFails(c, b)

Answers(w) == WorkerReady(w) \/ WorkerInitFails(w)

Next ==
  \/ \E c \in Clients : Handle(c) \/ \E kind \in Kinds : Post(c, kind)
  \/ WasmLoads
  \/ \E w \in Workers : Answers(w) \/ CommitWorkerCrash(w) \/ ExpansionWorkerCrash(w)

(* Handlers run when they can, and living workers answer. *)
Spec == /\ Init /\ [][Next]_vars /\ WF_vars(WasmLoads)
        /\ \A c \in Clients : WF_vars(Handle(c))
        /\ \A w \in Workers : WF_vars(Answers(w))

----------------------------------------------------------------------------
TypeOK ==
  /\ wasm \in {"loading", "ready", "error"} /\ busy \in BOOLEAN
  /\ \A p \in Pools : pool[p] \in {"none", "pending", "ready", "failed"}
  /\ \A w \in Workers : worker[w] \in {"none", "init", "up", "dead"}

(* The builder holds what the operations that were answered with a result
   put there, in their order, and nothing of one that failed: roots, record
   and commitment are atomic, whatever other calls come while a commitment
   is computed. *)
BuilderIsItsHistory == builder = answered

Answered(c) == call[c].pc = "idle"

(* Every call is answered, and so metadata operations are not locked out. *)
EveryCallAnswers == \A c \in Clients : []<>Answered(c)
=============================================================================
