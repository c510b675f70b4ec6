----------------------------- MODULE DealExplorer -----------------------------
(***************************************************************************)
(* The deal explorer of the website (components/DealDetail.tsx) on one     *)
(* deal, together with what else works on the deal's files in the browser: *)
(* uploads that save the generation they committed (FileSharder.tsx, one   *)
(* per tab), and downloads from the local copy (lib/cachedDownload.ts).    *)
(*                                                                         *)
(* The chain's roots of the deal are numbered in commit order.  The        *)
(* explorer learns the root from its property and from a request of its    *)
(* own, starts jobs that fill the view, and compares the local copy with   *)
(* the root each job was started for.  A step ends at an await.            *)
(***************************************************************************)
EXTENDS Naturals, FiniteSets

CONSTANTS
    MaxRoot,         \* roots the deal gets, 1..MaxRoot
    Tabs,            \* tabs with an upload panel on the deal
    FileJobs,        \* fetchFiles calls of the explorer that may be under way at once
    MaxInputs,       \* deal updates, clicks, cache checks and downloads
    MaxPolls,        \* polls of the bounded wait in fetchFiles
    MaxFaults,       \* transport failures, deadlines that expire, removals that fail
    GatewayUploads,  \* uploads may go through the gateway
    MayClose,        \* a tab may close while it saves
    Explorer         \* the explorer is open

VARIABLES
    head,      \* the root on the chain
    fs,        \* the deal's part of OPFS
    writer,    \* per tab: the persist step it is at
    saved,     \* per root: how its local save ended
    props,     \* the explorer's deal head and hydration state
    view,      \* the index requirement and the file list it shows
    jobs,      \* its asynchronous functions
    touched,   \* metadata writes of the freshness check still to come
    reader,    \* the cache check or download under way
    spent      \* bounds used up

vars == <<head, fs, writer, saved, props, view, jobs, touched, reader, spent>>
store == <<head, fs, writer, saved>>

(***************************************************************************)
(* The part of the origin's private file system that holds one deal        *)
(* (lib/storage/OpfsAdapter.ts): generation directories, the pointer to    *)
(* the active one, and the files directly in the deal's directory that     *)
(* older versions and gateway uploads use.  A file is the root of the      *)
(* generation its bytes belong to.  A generation directory is named after  *)
(* the commit that writes it.  One call of the adapter is one step.        *)
(***************************************************************************)
RootAssumption == MaxRoot \in Nat \ {0}

Roots == 1 .. MaxRoot
Absent == 0
DealDir == 0       \* the deal's own directory, as a location

NoFiles == [root |-> Absent, mdu |-> Absent, meta |-> Absent, marker |-> Absent]
EmptyStore ==
    [dir |-> FALSE, active |-> Absent, dirs |-> {}, deal |-> NoFiles,
     gens |-> [r \in Roots |-> NoFiles]]

FileType == [root : Roots \cup {Absent}, mdu : Roots \cup {Absent}, meta : Roots \cup {Absent}, marker : Roots \cup {Absent}]
StoreType ==
    [dir : BOOLEAN, active : Roots \cup {Absent}, dirs : SUBSET Roots, deal : FileType, gens : [Roots -> FileType]]

readBlobFromDirectory(f, name) == f[name]

generationLooksComplete(f) == f.marker # Absent /\ f.meta # Absent /\ f.mdu # Absent

(* Where a read or write by deal id goes: the active generation when it is
   complete, the deal's directory otherwise. *)
resolveActiveStorageDirectory(s) ==
    IF s.active \in s.dirs /\ generationLooksComplete(s.gens[s.active]) THEN s.active ELSE DealDir

(* Resolving creates the deal's directory and drops a pointer that leads nowhere. *)
Resolved(s) ==
    [s EXCEPT !.dir = TRUE, !.active = resolveActiveStorageDirectory(s)]

readBlob(s, name) ==
    LET at == resolveActiveStorageDirectory(s) IN
    IF at = DealDir THEN readBlobFromDirectory(s.deal, name) ELSE readBlobFromDirectory(s.gens[at], name)

writeBlob(s, name, r) ==
    LET at == resolveActiveStorageDirectory(s) IN
    IF at = DealDir THEN [Resolved(s) EXCEPT !.deal[name] = r] ELSE [Resolved(s) EXCEPT !.gens[at][name] = r]

deleteDealDirectory(s) == EmptyStore

(* The directory operations writeSlabGenerationAtomically is made of. *)
MakeGeneration(s, g) == [s EXCEPT !.dir = TRUE, !.dirs = @ \cup {g}, !.gens[g] = NoFiles]
writeBlobToDirectory(s, g, name) == [s EXCEPT !.gens[g][name] = g]
removeEntryIfExists(s, g) == [s EXCEPT !.dirs = @ \ {g}, !.gens[g] = NoFiles]
writeActiveGenerationName(s, g) == [s EXCEPT !.active = g]

-------------------------------------------------------------------------------

Null == MaxRoot + 1     \* no file list; Absent is an empty one
Jobs == FileJobs \cup {"slab", "manifest", "kzg", "sync"}
Idle == [cid |-> Absent, pc |-> "idle", p |-> Absent, m |-> Absent, st |-> "unknown", polls |-> 0, late |-> FALSE]
Busy(j) == jobs[j].pc # "idle"
NoRead == [pc |-> "idle", kind |-> "check", cid |-> Absent, gen |-> Absent, marker |-> Absent, got |-> Absent]

Init ==
    /\ head = 1
    /\ fs = [EmptyStore EXCEPT !.dir = TRUE, !.active = 1, !.dirs = {1},
                               !.gens[1] = [root |-> 1, mdu |-> 1, meta |-> 1, marker |-> 1]]
    /\ writer = [t \in Tabs |-> [pc |-> "idle", root |-> Absent]]
    /\ saved = [r \in Roots |-> IF r = 1 THEN "saved" ELSE "no"]
    /\ props = [root |-> 1, loaded |-> FALSE, asked |-> IF Explorer THEN {1} ELSE {},
                key |-> <<Absent, "files">>, tab |-> "files", dirty |-> TRUE]
    /\ view = [status |-> "ready", files |-> Null]
    /\ jobs = [j \in Jobs |-> Idle]
    /\ touched = {}
    /\ reader = NoRead
    /\ spent = [inputs |-> 0, faults |-> 0]

-------------------------------------------------------------------------------
(* Uploads.  The chain has accepted root head + 1; the panel of tab t then
   saves that generation, file by file, and swaps the pointer. *)

persists(t) == writer[t].pc # "idle"

Commit(t) ==
    /\ ~persists(t) /\ head < MaxRoot
    /\ head' = head + 1
    /\ writer' = [writer EXCEPT ![t] = [pc |-> "make", root |-> head + 1]]
    /\ UNCHANGED <<fs, saved, props, view, jobs, touched, reader, spent>>

(* An upload through the gateway leaves only an index in the browser. *)
GatewayCommit(t) ==
    /\ GatewayUploads /\ ~persists(t) /\ head < MaxRoot
    /\ head' = head + 1
    /\ writer' = [writer EXCEPT ![t] = [pc |-> "indexRoot", root |-> head + 1]]
    /\ UNCHANGED <<fs, saved, props, view, jobs, touched, reader, spent>>

IndexWritten(t) ==
    /\ writer[t].pc \in {"indexRoot", "indexMeta"}
    /\ fs' = writeBlob(fs, IF writer[t].pc = "indexRoot" THEN "root" ELSE "meta", writer[t].root)
    /\ writer' = [writer EXCEPT ![t].pc = IF @ = "indexRoot" THEN "indexMeta" ELSE "idle"]
    /\ UNCHANGED <<head, saved, props, view, jobs, touched, reader, spent>>

Make(t) ==
    /\ writer[t].pc = "make"
    /\ fs' = MakeGeneration(fs, writer[t].root)
    /\ writer' = [writer EXCEPT ![t].pc = "root"]
    /\ UNCHANGED <<head, saved, props, view, jobs, touched, reader, spent>>

(* Fault: the completion marker is written before the MDUs and the metadata. *)
WriteOrderEager == <<"root", "marker", "pointer", "mdu", "meta", "cleanup">>
WriteOrder == <<"root", "mdu", "meta", "marker", "pointer", "cleanup">>

NextWrite(pc) ==
    LET i == CHOOSE n \in 1 .. 5 : WriteOrder[n] = pc IN WriteOrder[i + 1]

(* A write into a directory that somebody removed throws. *)
WriteFile(t) ==
    LET w == writer[t] IN
    /\ w.pc \in {"root", "mdu", "meta", "marker"}
    /\ IF w.root \in fs.dirs
       THEN /\ fs' = writeBlobToDirectory(fs, w.root, w.pc)
            /\ writer' = [writer EXCEPT ![t].pc = NextWrite(w.pc)]
            /\ UNCHANGED saved
       ELSE /\ writer' = [writer EXCEPT ![t].pc = "idle"]
            /\ saved' = [saved EXCEPT ![w.root] = "failed"]
            /\ UNCHANGED fs
    /\ UNCHANGED <<head, props, view, jobs, touched, reader, spent>>

SwapPointer(t) ==
    LET w == writer[t] IN
    /\ w.pc = "pointer"
    /\ IF fs.dir
       THEN /\ fs' = writeActiveGenerationName(fs, w.root)
            /\ writer' = [writer EXCEPT ![t].pc = NextWrite("pointer")]
            /\ UNCHANGED saved
       ELSE /\ writer' = [writer EXCEPT ![t].pc = "idle"]
            /\ saved' = [saved EXCEPT ![w.root] = "failed"]
            /\ UNCHANGED fs
    /\ UNCHANGED <<head, props, view, jobs, touched, reader, spent>>

(* The other generations are removed one by one; an error there is only logged. *)
CleanupOne(t) ==
    /\ writer[t].pc = "cleanup"
    /\ \E g \in fs.dirs \ {writer[t].root} : fs' = removeEntryIfExists(fs, g)
    /\ UNCHANGED <<head, writer, saved, props, view, jobs, touched, reader, spent>>

CleanupEnds(t) ==
    /\ writer[t].pc = "cleanup"
    /\ writer' = [writer EXCEPT ![t].pc = "idle"]
    /\ saved' = [saved EXCEPT ![writer[t].root] = "saved"]
    /\ UNCHANGED <<head, fs, props, view, jobs, touched, reader, spent>>

CloseTab(t) ==
    /\ MayClose /\ persists(t)
    /\ writer' = [writer EXCEPT ![t].pc = "idle"]
    /\ UNCHANGED <<head, fs, saved, props, view, jobs, touched, reader, spent>>

-------------------------------------------------------------------------------
(* The deal head.  A new deal object resets the root to the property's and
   asks the LCD again; every answer, also one of an earlier request, is taken. *)

Input == Explorer /\ spent.inputs < MaxInputs /\ spent' = [spent EXCEPT !.inputs = @ + 1]

DealUpdate ==
    /\ Input
    /\ props' = [props EXCEPT !.root = head, !.loaded = FALSE,
                              !.asked = @ \cup {head}, !.dirty = TRUE]
    /\ UNCHANGED <<store, view, jobs, touched, reader>>

(* The LCD answers with a root it had between the request and the answer; a
   failed request falls back to the property the request was made with. *)
refreshAuthoritativeDealHead ==
    \E asked \in props.asked : \E r \in asked .. head :
        /\ props' = [props EXCEPT !.root = r, !.loaded = TRUE, !.asked = @ \ {asked}, !.dirty = TRUE]
        /\ UNCHANGED <<store, view, jobs, touched, reader, spent>>

SelectTab ==
    /\ props.tab = "files" /\ Input
    /\ props' = [props EXCEPT !.tab = "manifest", !.dirty = TRUE]
    /\ UNCHANGED <<store, view, jobs, touched, reader>>

(* The effect that fills the view, once per root and tab, and again while
   nothing has been resolved. *)
hydrationKey == <<props.root, props.tab>>
hydrationResolved ==
    view.files # Null \/ view.status \in {"needs_sync_missing", "needs_sync_stale", "sync_failed"}

Started(kind) == [Idle EXCEPT !.cid = props.root, !.pc = IF kind \in FileJobs THEN "rroot" ELSE "net"]

Hydrate ==
    /\ props.dirty /\ props.loaded
    /\ IF props.key = hydrationKey /\ hydrationResolved
       THEN props' = [props EXCEPT !.dirty = FALSE] /\ UNCHANGED jobs
       ELSE LET starts == {"slab"} \cup (IF props.tab = "manifest" THEN {"manifest"} ELSE {}) IN
            /\ \A k \in starts : ~Busy(k)
            /\ \E f \in FileJobs :
                 /\ ~Busy(f)
                 /\ jobs' = [j \in Jobs |-> IF j \in starts \cup {f} THEN Started(j) ELSE jobs[j]]
            /\ props' = [props EXCEPT !.dirty = FALSE, !.key = hydrationKey]
    /\ UNCHANGED <<store, view, touched, reader, spent>>

-------------------------------------------------------------------------------
(* The jobs.  Slab layout, manifest and commitment details, whose values are
   only displayed and left out, come from the transport; when it fails, and always for the file list, the local copy is used once
   reconcileLocalMduCache finds its root to be the job's. *)

MayFail == spent.faults < MaxFaults
Fault == spent' = [spent EXCEPT !.faults = @ + 1]

Show(v) ==
    /\ view' = v
    /\ props' = [props EXCEPT !.dirty = @ \/ v.files # view.files \/ v.status # view.status]
Done(j) == jobs' = [jobs EXCEPT ![j] = Idle]
Goto(j, pc) == jobs' = [jobs EXCEPT ![j].pc = pc]

LoadCommitments ==
    /\ props.tab = "manifest" /\ ~Busy("kzg") /\ Input
    /\ jobs' = [jobs EXCEPT !["kzg"] = Started("kzg")]
    /\ UNCHANGED <<store, props, view, touched, reader>>

NetOk(j) ==
    /\ jobs[j].pc = "net"
    /\ Done(j)
    /\ UNCHANGED <<store, props, view, touched, reader, spent>>

NetFails(j) ==
    /\ jobs[j].pc = "net" /\ MayFail /\ Fault
    /\ Goto(j, "rroot")
    /\ UNCHANGED <<store, props, view, touched, reader>>

evaluateCacheFreshness(local, chain) ==
    IF chain = Absent \/ local = Absent THEN "unknown" ELSE IF local = chain THEN "fresh" ELSE "stale"

(* What each function does once the local copy has been compared. *)
AfterReconcile(j, st) ==
    CASE j \in FileJobs -> "iroot"
      [] j \notin FileJobs /\ st = "fresh" -> "local"
      [] OTHER -> "gone"

ReconcileRoot(j) ==
    /\ jobs[j].pc = "rroot"
    /\ jobs' = [jobs EXCEPT ![j].pc = "rmeta", ![j].p = readBlob(fs, "root")]
    /\ fs' = Resolved(fs)
    /\ UNCHANGED <<head, writer, saved, props, view, touched, reader, spent>>

reconcileLocalMduCache(j) ==
    LET m == readBlob(fs, "meta")
        local == IF jobs[j].p # Absent THEN jobs[j].p ELSE m
        st == evaluateCacheFreshness(local, jobs[j].cid) IN
    /\ jobs[j].pc = "rmeta"
    /\ jobs' = [jobs EXCEPT ![j].st = st, ![j].p = Absent,
                            ![j].pc = IF st = "stale" THEN "rdel" ELSE AfterReconcile(j, st)]
    /\ touched' = touched \cup IF st = "fresh" /\ m # Absent THEN {m} ELSE {}
    /\ fs' = Resolved(fs)
    /\ UNCHANGED <<head, writer, saved, props, view, reader, spent>>

DeleteStale(j) ==
    /\ jobs[j].pc = "rdel"
    /\ \/ /\ fs' = deleteDealDirectory(fs)
          /\ Goto(j, AfterReconcile(j, "stale"))
          /\ UNCHANGED spent
       \/ /\ MayFail /\ Fault
          /\ jobs' = [jobs EXCEPT ![j].st = "unknown", ![j].pc = AfterReconcile(j, "unknown")]
          /\ UNCHANGED fs
    /\ UNCHANGED <<head, writer, saved, props, view, touched, reader>>

(* The freshness check rewrites the metadata it read, with a new time stamp,
   without anybody waiting for it. *)
TouchMetadata ==
    \E m \in touched :
        /\ fs' = writeBlob(fs, "meta", m)
        /\ touched' = touched \ {m}
        /\ UNCHANGED <<head, writer, saved, props, view, jobs, reader, spent>>

(* Nothing local to show. *)
NothingLocal(j) ==
    /\ jobs[j].pc = "gone"
    /\ Done(j)
    /\ UNCHANGED <<store, props, view, touched, reader, spent>>

(* What the three functions compute from local files once they are current. *)
Local(j) ==
    /\ jobs[j].pc = "local"
    /\ Done(j)
    /\ fs' = Resolved(fs)
    /\ UNCHANGED <<head, writer, saved, props, view, touched, reader, spent>>
LocalSlab == Local("slab")
LocalManifest == Local("manifest")
LocalCommitments == Local("kzg")

-------------------------------------------------------------------------------
(* fetchFiles: inspect, poll for a bounded time, then list. *)

InspectRead(j, from, field, to) ==
    /\ jobs[j].pc = from
    /\ jobs' = [jobs EXCEPT ![j].pc = to, ![j][field] = readBlob(fs, IF field = "p" THEN "root" ELSE "meta")]
    /\ fs' = Resolved(fs)
    /\ UNCHANGED <<head, writer, saved, props, view, touched, reader, spent>>

indexReady(j) ==
    LET m == jobs[j].m p == jobs[j].p IN
    /\ jobs[j].st = "fresh"
    /\ \/ readBlob(fs, "mdu") # Absent
       \/ m # Absent /\ m = jobs[j].cid /\ p \in {Absent, m}

inspectLocalDealIndexRequirement(j) ==
    /\ jobs[j].pc = "imdu"
    /\ fs' = Resolved(fs)
    /\ CASE jobs[j].late -> Done(j) /\ UNCHANGED <<props, view>>
         [] ~jobs[j].late /\ indexReady(j) ->
              /\ jobs' = [jobs EXCEPT ![j] = [Idle EXCEPT !.cid = jobs[j].cid, !.pc = "fmeta"]]
              /\ Show([view EXCEPT !.status = "ready"])
         [] ~jobs[j].late /\ ~indexReady(j) /\ jobs[j].polls < MaxPolls ->
              jobs' = [jobs EXCEPT ![j] = [Idle EXCEPT !.cid = jobs[j].cid, !.pc = "rroot", !.polls = jobs[j].polls + 1]] /\ UNCHANGED <<props, view>>
         [] OTHER ->
              /\ Show([view EXCEPT !.files = Null, !.status =
                            IF jobs[j].st = "stale" THEN "needs_sync_stale" ELSE "needs_sync_missing"])
              /\ Done(j)
    /\ UNCHANGED <<head, writer, saved, touched, reader, spent>>

fetchLocalFiles(j) ==
    LET p == readBlob(fs, "root") m == jobs[j].m IN
    /\ jobs[j].pc = "froot"
    /\ IF m # Absent /\ m = p
       THEN Show([view EXCEPT !.files = m]) /\ Done(j)
       ELSE Goto(j, "fmdu") /\ UNCHANGED <<props, view>>
    /\ fs' = Resolved(fs)
    /\ UNCHANGED <<head, writer, saved, touched, reader, spent>>

ParseFiles(j) ==
    /\ jobs[j].pc = "fmdu"
    /\ Show([view EXCEPT !.files = readBlob(fs, "mdu")]) /\ Done(j)
    /\ fs' = Resolved(fs)
    /\ UNCHANGED <<head, writer, saved, touched, reader, spent>>

(* A deadline reports the failure; the function it gave up on keeps running. *)
withTimeout(j) ==
    /\ j \in FileJobs /\ Busy(j) /\ ~jobs[j].late /\ MayFail
    /\ Fault
    /\ jobs' = [jobs EXCEPT ![j].late = TRUE]
    /\ Show([view EXCEPT !.status = "sync_failed", !.files = Null])
    /\ UNCHANGED <<store, touched, reader>>

JobStep(j) ==
    \/ NetOk(j) \/ NetFails(j) \/ ReconcileRoot(j) \/ reconcileLocalMduCache(j) \/ DeleteStale(j) \/ NothingLocal(j)
    \/ InspectRead(j, "iroot", "p", "imeta") \/ InspectRead(j, "imeta", "m", "imdu")
    \/ inspectLocalDealIndexRequirement(j)
    \/ InspectRead(j, "fmeta", "m", "froot") \/ fetchLocalFiles(j) \/ ParseFiles(j) \/ withTimeout(j)

-------------------------------------------------------------------------------
(* The user asks for the index from the providers: authenticated metadata of
   the generation the chain names, for the view only. *)

requiresDealIndexSync == view.status \in {"needs_sync_missing", "needs_sync_stale", "sync_failed"}

syncDealIndexFromProviders ==
    /\ requiresDealIndexSync /\ ~Busy("sync") /\ Input
    /\ jobs' = [jobs EXCEPT !["sync"] = [Idle EXCEPT !.cid = head, !.pc = "fetch"]]
    /\ Show([view EXCEPT !.status = "syncing"])
    /\ UNCHANGED <<store, touched, reader>>

SyncEnds ==
    /\ jobs["sync"].pc = "fetch"
    /\ LET r == jobs["sync"].cid IN
       \/ Show([view EXCEPT !.status = "ready", !.files = r])
       \/ Show([view EXCEPT !.status = "sync_failed", !.files = Null])
    /\ Done("sync")
    /\ UNCHANGED <<store, touched, reader, spent>>

-------------------------------------------------------------------------------
(* Checks of the local copy for the file list, and downloads from it.  Both
   pin one generation directory and read everything else through it. *)

At(g, name) == IF g \in fs.dirs THEN fs.gens[g][name] ELSE Absent

openCompleteSlabGeneration(kind) ==
    LET g == fs.active IN
    /\ reader.pc \in {"idle", "yes"} /\ Input
    /\ reader' = IF g \in fs.dirs /\ generationLooksComplete(fs.gens[g])
                 THEN [pc |-> "root", kind |-> kind, cid |-> props.root, gen |-> g, marker |-> At(g, "marker"), got |-> Absent]
                 ELSE NoRead
    /\ UNCHANGED <<store, props, view, jobs, touched>>

refreshBrowserCache == view.files \notin {Null, Absent} /\ openCompleteSlabGeneration("check")
downloadVerified == openCompleteSlabGeneration("download")

(* Fault: the generation's completion marker is not compared with the root. *)
SameGenerationUnbound(r) == At(r.gen, "root") = r.cid
SameGeneration(r) == At(r.gen, "root") = r.cid /\ r.marker = r.cid
validateMetadata(r) == At(r.gen, "meta") = r.cid

openVerifiedGeneration ==
    /\ reader.pc = "root"
    /\ reader' = IF SameGeneration(reader) /\ (reader.kind = "check" => validateMetadata(reader))
                 THEN [reader EXCEPT !.pc = "mdus"] ELSE NoRead
    /\ UNCHANGED <<store, props, view, jobs, touched, spent>>

Answer(d) == [NoRead EXCEPT !.pc = "yes", !.cid = reader.cid, !.got = d]

(* A check looks at the sizes of the MDUs only... *)
hasRequiredMduSizes ==
    LET d == At(reader.gen, "mdu") IN
    /\ reader.pc = "mdus" /\ reader.kind = "check"
    /\ reader' = IF d # Absent THEN Answer(d) ELSE NoRead
    /\ UNCHANGED <<store, props, view, jobs, touched, spent>>

(* ... a download verifies MDU 0, the witness and every MDU against the root. *)
readVerifiedCachedDownload ==
    LET d == At(reader.gen, "mdu") IN
    /\ reader.pc = "mdus" /\ reader.kind = "download"
    /\ reader' = IF d = reader.cid THEN Answer(d) ELSE NoRead
    /\ UNCHANGED <<store, props, view, jobs, touched, spent>>

-------------------------------------------------------------------------------
Persist(t) ==
    \/ Commit(t) \/ GatewayCommit(t) \/ IndexWritten(t) \/ Make(t) \/ WriteFile(t) \/ SwapPointer(t)
    \/ CleanupOne(t) \/ CleanupEnds(t) \/ CloseTab(t)

Next ==
    \/ \E t \in Tabs : Persist(t)
    \/ DealUpdate \/ refreshAuthoritativeDealHead \/ SelectTab \/ Hydrate
    \/ \E j \in Jobs : JobStep(j)
    \/ LocalSlab \/ LocalManifest \/ LocalCommitments
    \/ LoadCommitments \/ TouchMetadata \/ syncDealIndexFromProviders \/ SyncEnds
    \/ refreshBrowserCache \/ downloadVerified
    \/ openVerifiedGeneration \/ hasRequiredMduSizes \/ readVerifiedCachedDownload

Spec == Init /\ [][Next]_vars

TypeOK ==
    /\ head \in Roots /\ fs \in StoreType
    /\ \A t \in Tabs : writer[t].root \in Roots \cup {Absent}
    /\ \A r \in Roots : saved[r] \in {"no", "saved", "failed"}
    /\ props.root \in Roots /\ props.asked \subseteq Roots

-------------------------------------------------------------------------------
(* A local copy that the explorer offers for download, or bytes read from it,
   belong to the root that was asked for, while generations are swapped and
   removed, gateway indexes are written into the active directory and the
   freshness check rewrites metadata (lib/cachedDownload.ts). *)
OfferedIsRequested == reader.pc = "yes" => reader.got = reader.cid

(* A save that was reported stays readable as one whole generation, or a later
   one does, wherever a later save is cut off (writeSlabGenerationAtomically). *)
SavedSurvives ==
    \A r \in Roots : saved[r] = "saved" =>
        LET g == resolveActiveStorageDirectory(fs) IN
        g >= r /\ fs.gens[g] = [root |-> g, mdu |-> g, meta |-> g, marker |-> g]

(* A generation that is complete keeps the root and the metadata it was
   completed with (OpfsAdapter: immutable, root-bound generation). *)
GenerationImmutable ==
    \A g \in fs.dirs : generationLooksComplete(fs.gens[g]) => fs.gens[g].root = g /\ fs.gens[g].meta = g

(* An explorer that sees the new root before the local save is complete only
   waits for it: the save does not fail because of it (fetchFiles). *)
LagIsNotDestructive == \A r \in Roots : saved[r] # "failed"
===============================================================================
