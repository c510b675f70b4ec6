---------------------------- MODULE GatewayUpload ----------------------------
(***************************************************************************)
(* Uploading one file through a local gateway: the panel posts the file,   *)
(* follows the gateway's upload job by polling, tries the other loopback   *)
(* names of the gateway, restores a missing append base once, and at last  *)
(* reports an error or prepares the file in the browser.  The gateways     *)
(* keep upload jobs in memory, by deal and upload id; every attempt for    *)
(* one file uses the same id, so a gateway has at most one job here.       *)
(* Progress numbers and labels are left out.                               *)
(***************************************************************************)
EXTENDS Naturals, Sequences, FiniteSets

CONSTANTS Gateways,    \* gateway processes
          Bases,       \* the base URLs to try, in order
          GatewayOf,   \* the process that listens at a base URL
          HaveBase,    \* gateways that hold the append base at first
          Large,       \* the file is too large to prepare in the browser
          MaxFaults,   \* lost requests and answers, refusals, crashes
          None

BasesAssumption == Len(Bases) > 0 /\ \A i \in DOMAIN Bases : GatewayOf[Bases[i]] \in Gateways

VARIABLES pc,       \* where the panel is
          i,        \* the base in use
          retried,  \* the attempt after a restored append base
          err,      \* what the last attempt threw
          flags,    \* what earlier attempts found
          req,      \* the POST in flight
          up,       \* gateways that run
          job,      \* the upload job of each gateway
          active,   \* <<gateway, job, phase>> of every receipt and ingest going on
          slab,     \* gateways that hold the append base
          n,        \* jobs made so far
          faults

browser == <<pc, i, retried, err, flags>>
server  == <<up, job, active, slab, n>>
vars    == <<browser, req, server, faults>>

Fault == faults < MaxFaults /\ faults' = faults + 1

Init ==
    /\ pc = "start" /\ i = 1 /\ retried = FALSE /\ err = None
    /\ flags = {} /\ req = None /\ faults = 0 /\ n = 0
    /\ up = Gateways /\ job = [g \in Gateways |-> None]
    /\ active = {} /\ slab = HaveBase

Asked == GatewayOf[Bases[i]]

-----------------------------------------------------------------------------
(* The attempt of the panel: POST, then follow the job.                    *)

runGatewayUpload ==
    /\ pc = "start" /\ pc' = "post"
    /\ req' = [to |-> Asked, st |-> "sent", n |-> 0]
    /\ UNCHANGED <<i, retried, err, flags, server, faults>>

Throw(e) == pc' = "thrown" /\ err' = e

(* The POST fails on its way: there may be a job all the same.             *)
PostBreaks ==
    /\ pc = "post"
    /\ IF req.to \notin up THEN UNCHANGED faults ELSE Fault
    /\ pc' = "probe" /\ req' = None
    /\ UNCHANGED <<i, retried, err, flags, server>>

PostAnswered ==
    /\ pc = "post" /\ req.st \in {"accepted", "result", "refused"}
    /\ req' = None
    /\ \/ req.st = "accepted" /\ pc' = "wait" /\ UNCHANGED err
       \/ req.st = "result" /\ pc' = "ingested" /\ UNCHANGED err
       \/ req.st = "refused" /\ Throw("other")
    /\ UNCHANGED <<i, retried, flags, server, faults>>

(* One round of status requests: the first base whose gateway answers with *)
(* a job decides.                                                          *)
Answers(k) == GatewayOf[Bases[k]] \in up /\ job[GatewayOf[Bases[k]]] # None

pollStatusOnce(k) ==
    IF \E j \in 1 .. k - 1 : Answers(j) THEN Fault ELSE UNCHANGED faults

NoAnswer ==
    IF \E k \in DOMAIN Bases : Answers(k) THEN Fault ELSE UNCHANGED faults

JobSeen(k) ==
    LET j == job[GatewayOf[Bases[k]]] IN
    CASE j.status = "error"   -> Throw(j.err)
      [] j.status = "success" -> pc' = "ingested" /\ UNCHANGED err
      [] j.status = "running" -> pc' = "wait" /\ UNCHANGED err

probeInFlightUpload ==
    /\ pc = "probe"
    /\ \/ \E k \in DOMAIN Bases : Answers(k) /\ pollStatusOnce(k) /\ JobSeen(k)
       \/ NoAnswer /\ Throw("network")
    /\ UNCHANGED <<i, retried, flags, req, server>>

(* Fault: the wait has no deadline.                                        *)
waitForUploadCompletionForever ==
    /\ pc = "wait"
    /\ \E k \in DOMAIN Bases : Answers(k) /\ pollStatusOnce(k) /\ JobSeen(k)
    /\ UNCHANGED <<i, retried, flags, req, server>>

(* The last disjunct is the deadline of ten minutes.                       *)
waitForUploadCompletion ==
    /\ pc = "wait"
    /\ \/ \E k \in DOMAIN Bases : Answers(k) /\ pollStatusOnce(k) /\ JobSeen(k)
       \/ Throw("other") /\ UNCHANGED faults
    /\ UNCHANGED <<i, retried, flags, req, server>>

finalizeGatewaySuccess ==
    /\ pc = "ingested" /\ pc' = "done"
    /\ UNCHANGED <<i, retried, err, flags, req, server, faults>>

-----------------------------------------------------------------------------
(* What the loop over the bases makes of a failed attempt.                 *)

Reconcile ==
    /\ pc = "thrown" /\ err = "missing" /\ ~retried
    /\ pc' = "rehydrate"
    /\ UNCHANGED <<i, retried, err, flags, req, server, faults>>

(* The append base is posted to the gateway from the browser's storage.    *)
recoverGatewayAppendState ==
    /\ pc = "rehydrate"
    /\ \/ /\ Asked \in up /\ slab' = slab \cup {Asked}
          /\ pc' = "start" /\ retried' = TRUE /\ UNCHANGED <<err, faults>>
       \/ pc' = "judge" /\ UNCHANGED <<err, slab, retried, faults>>
       \/ /\ Fault /\ pc' = "judge" /\ err' \in {"network", "other"}
          /\ UNCHANGED <<slab, retried>>
    /\ UNCHANGED <<i, flags, req, up, job, active, n>>

isProviderUploadConnectivityError(e) == e = "provider"
isGatewayNetworkError(e) == e = "network"
isMissingGatewayAppendStateError(e) == e = "missing"

Judge ==
    /\ pc = "judge" \/ (pc = "thrown" /\ (err # "missing" \/ retried))
    /\ flags' = flags \cup {e \in {err} : isMissingGatewayAppendStateError(e)
                                            \/ isProviderUploadConnectivityError(e)}
    /\ IF isGatewayNetworkError(err) /\ i < Len(Bases)
         THEN pc' = "start" /\ i' = i + 1 /\ retried' = FALSE
         ELSE pc' = "end" /\ UNCHANGED <<i, retried>>
    /\ UNCHANGED <<err, req, server, faults>>

Conclude ==
    /\ pc = "end"
    /\ pc' = IF "provider" \in flags THEN "error"
             ELSE IF "missing" \in flags \/ isGatewayNetworkError(err)
                    THEN IF Large THEN "error" ELSE "browser"
                    ELSE "error"
    /\ UNCHANGED <<i, retried, err, flags, req, server, faults>>

-----------------------------------------------------------------------------
(* The gateway.                                                            *)

newUploadJob(g) ==
    /\ n' = n + 1
    /\ job' = [job EXCEPT ![g] = [status |-> "running", n |-> n + 1, err |-> None]]
    /\ active' = active \cup {<<g, n + 1, "receiving">>}
    /\ req' = [req EXCEPT !.st = "receiving", !.n = n + 1]

(* Fault: a running job does not keep a second request from starting one.  *)
claimUploadJobAgain(g) ==
    IF job[g] # None /\ job[g].status = "success"
      THEN req' = [req EXCEPT !.st = "result"] /\ UNCHANGED <<job, active, n>>
      ELSE newUploadJob(g)

claimUploadJob(g) ==
    IF job[g] # None /\ job[g].status \in {"running", "success"}
      THEN /\ req' = [req EXCEPT !.st = IF job[g].status = "running" THEN "accepted" ELSE "result"]
           /\ UNCHANGED <<job, active, n>>
      ELSE newUploadJob(g)

(* The handler: a running job is accepted again, a finished one replayed;  *)
(* otherwise the file is received first.                                   *)
GatewayUploadPost ==
    /\ req # None
    /\ req.st = "sent" /\ req.to \in up
    /\ claimUploadJob(req.to)
    /\ UNCHANGED <<browser, up, slab, faults>>

JobEnds(g, m, s, e) ==
    job' = IF job[g] # None /\ job[g].n = m
             THEN [job EXCEPT ![g].status = s, ![g].err = e] ELSE job

Serves(m) == req # None /\ req.n = m /\ req.st = "receiving"

(* The whole file is here: the ingest goes on in the background.           *)
Received(g, m) ==
    /\ <<g, m, "receiving">> \in active
    /\ active' = (active \ {<<g, m, "receiving">>}) \cup {<<g, m, "ingesting">>}
    /\ req' = IF Serves(m) THEN [req EXCEPT !.st = "accepted"] ELSE req
    /\ UNCHANGED <<browser, up, job, slab, n, faults>>

(* The form is refused, or the connection of the request is gone.          *)
ReceiveFails(g, m) ==
    /\ <<g, m, "receiving">> \in active
    /\ IF Serves(m) THEN Fault ELSE UNCHANGED faults
    /\ req' = IF Serves(m) THEN [req EXCEPT !.st = "refused"] ELSE req
    /\ active' = active \ {<<g, m, "receiving">>}
    /\ JobEnds(g, m, "error", "other")
    /\ UNCHANGED <<browser, up, slab, n>>

runIngest(g, m) ==
    /\ <<g, m, "ingesting">> \in active
    /\ active' = active \ {<<g, m, "ingesting">>}
    /\ \/ g \notin slab /\ JobEnds(g, m, "error", "missing") /\ UNCHANGED faults
       \/ g \in slab /\ JobEnds(g, m, "success", None) /\ UNCHANGED faults
       \/ Fault /\ \E e \in {"provider", "other"} : JobEnds(g, m, "error", e)
    /\ UNCHANGED <<browser, req, up, slab, n>>

(* Jobs live in memory.                                                    *)
Crash(g) ==
    /\ g \in up /\ Fault
    /\ up' = up \ {g}
    /\ job' = [job EXCEPT ![g] = None]
    /\ active' = {a \in active : a[1] # g}
    /\ UNCHANGED <<browser, req, slab, n>>

Boot(g) ==
    /\ g \notin up
    /\ up' = up \cup {g}
    /\ IF req # None /\ req.to = g /\ req.st # "sent"
         THEN pc' = "probe" /\ req' = None ELSE UNCHANGED <<pc, req>>
    /\ UNCHANGED <<i, retried, err, flags, job, active, slab, n, faults>>

-----------------------------------------------------------------------------
Panel ==
    \/ runGatewayUpload \/ PostBreaks \/ PostAnswered
    \/ probeInFlightUpload \/ waitForUploadCompletion \/ finalizeGatewaySuccess
    \/ Reconcile \/ recoverGatewayAppendState \/ Judge \/ Conclude

Server ==
    \/ GatewayUploadPost
    \/ \E a \in active : Received(a[1], a[2]) \/ ReceiveFails(a[1], a[2]) \/ runIngest(a[1], a[2])
    \/ \E g \in Gateways : Crash(g) \/ Boot(g)

Ended == pc \in {"done", "error", "browser"}

Next == Panel \/ Server

(* Requests have time limits, so the panel's step is never put off for     *)
(* ever; a gateway that runs goes on with a request.                       *)
BodyArrives == \E a \in active : Received(a[1], a[2])

Spec == Init /\ [][Next]_vars /\ WF_vars(Panel) /\ WF_vars(GatewayUploadPost)
             /\ WF_vars(BodyArrives)

TypeOK ==
    /\ pc \in {"start", "post", "probe", "wait", "ingested", "thrown",
               "rehydrate", "judge", "end", "done", "error", "browser"}
    /\ i \in DOMAIN Bases /\ retried \in BOOLEAN
    /\ err \in {None, "network", "other", "missing", "provider"}
    /\ flags \subseteq {"missing", "provider"} /\ up \subseteq Gateways
    /\ active \subseteq Gateways \X Nat \X {"receiving", "ingesting"} /\ slab \subseteq Gateways

(* The comment of claimUploadJob: however often the panel posts the file,  *)
(* under whatever name of the gateway, a gateway never receives or ingests *)
(* one upload id twice at the same time.                                   *)
OneIngest == \A a, b \in active : a[1] = b[1] => a = b

(* Whatever is lost and whichever gateway crashes, the panel stops         *)
(* processing: the file is ingested, an error is shown, or the browser     *)
(* prepares the file itself.                                               *)
IngestSettles == []<>Ended
=============================================================================
