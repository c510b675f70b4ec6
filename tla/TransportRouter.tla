-------------------------- MODULE TransportRouter ---------------------------
(***************************************************************************)
(* How the page reaches a backend: hooks/useTransportRouter.ts builds the  *)
(* candidates of an operation, lib/transport/router.ts tries them in       *)
(* order, lib/transport/errors.ts decides what a failure means, and the    *)
(* clients (api/gatewayClient.ts, api/providerClient.ts,                   *)
(* lib/transport/libp2pClient.ts) turn an answer into data or an error.    *)
(*                                                                         *)
(* One operation runs at a time: operations share nothing but the record   *)
(* of the local gateway, the preference and the libp2p node, which all     *)
(* change between them. A server may answer anything, or nothing.          *)
(***************************************************************************)
EXTENDS Naturals, Sequences, SequencesExt, FiniteSets

CONSTANTS
  Gw, Sp,       \* appConfig.gatewayBase and spBase
  Directs,      \* provider bases a request may name
  Peer,         \* the libp2p address a request may name
  Providers,    \* provider accounts
  Expected,     \* providers whose session a request may pay, None for any
  Trusted,      \* loopback gateway bases
  Disabled,     \* appConfig.gatewayDisabled
  P2pEnabled,   \* appConfig.p2pEnabled
  Ops,          \* the operations the page calls
  None,
  MaxCalls,     \* bound: operations
  MaxPolls      \* bound: polls of an upload before its deadline

Preferences == {"auto", "prefer_gateway", "prefer_direct_sp", "prefer_p2p", "gateway_only"}
(* Only a ranged fetch says whose session it pays, and only it and a       *)
(* window can go over libp2p.                                              *)
Requests ==
  {r \in [op : Ops, pref : {None, "gateway_only"}, directs : {<<>>} \cup {<<d>> : d \in Directs},
          peer : {None, Peer}, expected : Expected] :
     /\ r.op # "fetch" => r.expected = None
     /\ r.op \notin {"fetch", "window"} => r.peer = None}

VARIABLES
  record,      \* local gateway record: hint and eligible base
  preference,  \* TransportContext's preference
  node,        \* the shared libp2p node: "unset", "up" or "failed"
  call,        \* the operation in progress, or the last one
  calls

vars == <<record, preference, node, call, calls>>

----------------------------------------------------------------------------
(* lib/transport/mode.ts *)

isGatewayTransportEnabled == ~Disabled /\ record.hint /\ Gw \in Trusted

resolveTransportPreference(candidate, disabled) ==
  IF candidate = "gateway_only" THEN candidate
  ELSE IF disabled \/ ~record.hint
       THEN IF candidate = "prefer_p2p" /\ P2pEnabled THEN "prefer_p2p" ELSE "prefer_direct_sp"
  ELSE IF candidate = "auto" THEN "prefer_gateway"
  ELSE IF candidate = "prefer_p2p" /\ ~P2pEnabled THEN "auto"
  ELSE candidate

allowNonGatewayBackends(pref) == pref # "gateway_only"

----------------------------------------------------------------------------
(* lib/transport/errors.ts. An error is a class already decided, or a      *)
(* message: one that names its HTTP status, one that happens to hold       *)
(* "not found" or the number 500, the browser's network failure, other.    *)

Data(p) == [kind |-> "data", class |-> "none", text |-> "none", status |-> 0, provider |-> p]
Classed(c, s) == [kind |-> "transport", class |-> c, text |-> "none", status |-> s, provider |-> None]
Error(t, s) == [kind |-> "error", class |-> "none", text |-> t, status |-> s, provider |-> None]

classifyStatus(s) ==
  CASE s = 429 -> "http_429"
    [] s >= 500 -> "http_5xx"
    [] s >= 400 /\ s < 500 /\ s # 429 -> "http_4xx"
    [] OTHER -> "unknown"

(* A message with a three-digit number is taken to name its status. *)
coerceHttpError(e) ==
  CASE e.kind # "error" -> e
    [] e.text = "status" -> Classed(classifyStatus(e.status), e.status)
    [] e.text = "says 500" -> Classed("http_5xx", e.status)
    [] OTHER -> e
wrapExecute(e) == coerceHttpError(e)

classifyError(e) ==
  CASE e.kind = "transport" -> e.class
    [] e.text = "aborted" -> "timeout"
    [] e.text = "network" -> "connection_refused"
    [] e.text = "not found" -> "dns"
    [] OTHER -> "unknown"

isRetryable(c) == c \in {"timeout", "connection_refused", "dns", "http_5xx", "http_429"}
isTerminal(c) == c \in {"provider_mismatch", "invalid_response"}

----------------------------------------------------------------------------
(* Answers and clients. An answer is good, malformed (a 200 whose body     *)
(* does not parse or verify), an HTTP error with a body, or a refusal.     *)

Good(p) == [kind |-> "good", status |-> 200, text |-> "none", by |-> p]
Malformed == [kind |-> "malformed", status |-> 200, text |-> "none", by |-> None]
Http(s, t) == [kind |-> "http", status |-> s, text |-> t, by |-> None]
Refused == [kind |-> "refused", status |-> 0, text |-> "none", by |-> None]
Accepted == [kind |-> "accepted", status |-> 202, text |-> "none", by |-> None]
Waiting == [kind |-> "waiting", status |-> 0, text |-> "none", by |-> None]
Answers ==
  {Good(p) : p \in Providers \cup {None}} \cup {Malformed, Refused}
    \cup {Http(404, t) : t \in {"empty", "other", "not found", "says 500"}} \cup {Http(429, "empty"), Http(500, "empty")}

(* fetch() rejects; a non-2xx answer throws its text, or names its status. *)
Fetched(a, then) ==
  CASE a.kind = "refused" -> Error("network", 0)
    [] a.kind = "http" -> Error(IF a.text = "empty" THEN "status" ELSE a.text, a.status)
    [] OTHER -> then
JsonOf(a) == Fetched(a, IF a.kind = "malformed" THEN Error("other", 0) ELSE Data(None))

gatewayListFiles(a) == Fetched(a, Data(None))          \* a malformed list is an empty one
gatewayFetchSlabLayout(a) == JsonOf(a)
gatewayFetchManifestInfo(a) == JsonOf(a)
gatewayFetchMduKzg(a) == JsonOf(a)
gatewayPlanRetrievalSession(a) == JsonOf(a)
providerPlanRetrievalSession(a) == JsonOf(a)
gatewayUpload(a) == Fetched(a, Data(None))             \* 200: normalised whatever it holds
providerUpload(a) == Fetched(a, Data(None))

fetchRetrievalMetadata(a) ==
  CASE a.kind = "http" -> Error("status", a.status)
    [] a.kind = "refused" -> Error("network", 0)
    [] a.kind = "malformed" -> Error("other", 0)
    [] OTHER -> Data(None)
parseMultipartRetrieval(a) ==
  CASE a.kind = "refused" -> Error("network", 0)
    [] a.kind = "good" -> Data(None)
    [] OTHER -> Error("other", 0)
fetchRetrievalChunkV3(a) == parseMultipartRetrieval(a)
fetchRetrievalWindow(a) == parseMultipartRetrieval(a)

(* Fault: an answer without the provider header is taken as the expected   *)
(* provider's from any backend.                                            *)
executeFetchTrusting(a, backend, expected) ==
  LET provider == IF expected # None /\ (a.by = None \/ backend = "gateway") THEN expected ELSE a.by
  IN  CASE a.kind = "refused" -> Error("network", 0)
        [] a.kind = "http" -> Classed(classifyStatus(a.status), a.status)
        [] OTHER ->
             IF provider = None THEN Classed("invalid_response", 0)
             ELSE IF expected # None /\ provider # expected THEN Classed("provider_mismatch", 0)
             ELSE Data(provider)

(* A ranged fetch checks who served it; through the gateway, a deputy may  *)
(* have, and the expected provider is reported.                            *)
executeFetch(a, backend, expected) ==
  LET lenient == backend = "gateway" /\ expected # None
      provider == IF lenient THEN expected ELSE a.by
  IN  CASE a.kind = "refused" -> Error("network", 0)
        [] a.kind = "http" -> Classed(classifyStatus(a.status), a.status)
        [] OTHER ->
             IF provider = None THEN Classed("invalid_response", 0)
             ELSE IF expected # None /\ provider # expected THEN Classed("provider_mismatch", 0)
             ELSE Data(provider)

(* libp2p: without a node nothing is dialled; a failed dial has no words   *)
(* the classifier knows.                                                   *)
libp2pFetchRange(a, expected) ==
  CASE node = "failed" \/ a.kind = "refused" -> Error("other", 0)
    [] a.kind = "malformed" -> Error("other", 0)
    [] OTHER -> executeFetch(a, "libp2p", expected)
libp2pFetchRetrievalWindow(a) ==
  IF node = "failed" \/ a.kind = "refused" THEN Error("other", 0) ELSE parseMultipartRetrieval(a)

----------------------------------------------------------------------------
(* hooks/useTransportRouter.ts: the candidates of each operation *)

At(backend, base) == [backend |-> backend, at |-> base]
If(test, c) == IF test THEN <<c>> ELSE <<>>

resolvePreference(override) ==
  resolveTransportPreference(IF override = None THEN preference ELSE override, Disabled \/ Gw \notin Trusted)
resolveDirectBase(req) ==
  IF req.directs # <<>> /\ Head(req.directs) # Gw THEN Head(req.directs)
  ELSE IF Disabled /\ Sp # None /\ Sp # Gw THEN Sp ELSE None

Plan(req, candidates, max) == [pref |-> resolvePreference(req.pref), candidates |-> candidates, max |-> max]

listFiles(req) == Plan(req, If(isGatewayTransportEnabled, At("gateway", Gw)), 2)
slab(req) == Plan(req, If(isGatewayTransportEnabled, At("gateway", Gw)), 2)
manifestInfo(req) == Plan(req, If(isGatewayTransportEnabled, At("gateway", Gw)), 2)
mduKzg(req) == Plan(req, If(isGatewayTransportEnabled, At("gateway", Gw)), 2)
plan(req) ==
  LET base == resolveDirectBase(req) IN
  Plan(req, If(isGatewayTransportEnabled, At("gateway", Gw))
              \o If(base # None /\ allowNonGatewayBackends(resolvePreference(req.pref)), At("direct_sp", base)), 2)
uploadFile(req) ==
  LET base == IF resolveDirectBase(req) # None THEN resolveDirectBase(req) ELSE Sp IN
  Plan([req EXCEPT !.pref = None],
       If(isGatewayTransportEnabled, At("gateway", Gw)) \o If(base # None /\ base # Gw, At("direct_sp", base)), 1)
fetchRange(req) ==
  LET base == resolveDirectBase(req)
      open == allowNonGatewayBackends(resolvePreference(req.pref))
  IN  Plan(req, If(isGatewayTransportEnabled, At("gateway", Gw)) \o If(base # None /\ open, At("direct_sp", base))
                  \o If(req.peer # None /\ P2pEnabled /\ open, At("libp2p", req.peer)), 2)
fetchWindow(req) ==
  LET open == allowNonGatewayBackends(resolvePreference(req.pref)) IN
  Plan(req, If(isGatewayTransportEnabled, At("gateway", Gw))
              \o (IF req.directs # <<>> THEN If(open, At("direct_sp", Head(req.directs))) ELSE <<>>)
              \o If(req.peer # None /\ P2pEnabled /\ open, At("libp2p", req.peer)), 1)

v3RetrievalCandidates(pref, gatewayBase, directs) ==
  If(gatewayBase # None, At("gateway", gatewayBase))
    \o (IF allowNonGatewayBackends(pref)
        THEN [i \in DOMAIN SelectSeq(directs, LAMBDA d : d # gatewayBase) |->
                At("direct_sp", SelectSeq(directs, LAMBDA d : d # gatewayBase)[i])]
        ELSE <<>>)
v3GatewayBase == IF Disabled \/ ~record.hint THEN None ELSE record.base
fetchV3Metadata(req) == Plan(req, v3RetrievalCandidates(resolvePreference(req.pref), v3GatewayBase, req.directs), 1)
fetchV3Chunk(req) == Plan(req, v3RetrievalCandidates(resolvePreference(req.pref), v3GatewayBase, req.directs), 1)

Planned(req) ==
  CASE req.op = "list_files" -> listFiles(req)
    [] req.op = "slab" -> slab(req)
    [] req.op = "manifest_info" -> manifestInfo(req)
    [] req.op = "mdu_kzg" -> mduKzg(req)
    [] req.op = "plan" -> plan(req)
    [] req.op = "upload" -> uploadFile(req)
    [] req.op = "fetch" -> fetchRange(req)
    [] req.op = "window" -> fetchWindow(req)
    [] req.op = "v3_metadata" -> fetchV3Metadata(req)
    [] req.op = "v3_chunk" -> fetchV3Chunk(req)

Execute(req, c, a) ==
  CASE req.op = "list_files" -> wrapExecute(gatewayListFiles(a))
    [] req.op = "slab" -> wrapExecute(gatewayFetchSlabLayout(a))
    [] req.op = "manifest_info" -> wrapExecute(gatewayFetchManifestInfo(a))
    [] req.op = "mdu_kzg" -> wrapExecute(gatewayFetchMduKzg(a))
    [] req.op = "plan" -> wrapExecute(IF c.backend = "gateway" THEN gatewayPlanRetrievalSession(a) ELSE providerPlanRetrievalSession(a))
    [] req.op = "upload" -> wrapExecute(IF c.backend = "gateway" THEN gatewayUpload(a) ELSE providerUpload(a))
    [] req.op = "fetch" -> IF c.backend = "libp2p" THEN libp2pFetchRange(a, req.expected) ELSE executeFetch(a, c.backend, req.expected)
    [] req.op = "window" -> IF c.backend = "libp2p" THEN libp2pFetchRetrievalWindow(a) ELSE fetchRetrievalWindow(a)
    [] req.op = "v3_metadata" -> wrapExecute(fetchRetrievalMetadata(a))
    [] req.op = "v3_chunk" -> wrapExecute(fetchRetrievalChunkV3(a))

(* The operations whose client listens to the router's signal, and those   *)
(* with a deadline of their own (lib/http.ts fetchWithTimeout).            *)
HeedsSignal(op) == op \in {"fetch", "window", "v3_metadata", "v3_chunk"}
OwnDeadline(op) == op \in {"plan", "mdu_kzg", "upload"}
fetchWithTimeout == Error("other", 0)      \* "Request timed out after ...ms"

----------------------------------------------------------------------------
(* lib/transport/router.ts *)

orderCandidates(pref, candidates) ==
  LET preferred == CASE pref \in {"prefer_gateway", "gateway_only"} -> "gateway"
                     [] pref = "prefer_p2p" -> "libp2p"
                     [] OTHER -> "direct_sp"
  IN  IF pref = "auto" THEN candidates
      ELSE SelectSeq(candidates, LAMBDA c : c.backend = preferred)
             \o SelectSeq(candidates, LAMBDA c : c.backend # preferred)

NoCall == [phase |-> "idle", req |-> None, order |-> <<>>, pref |-> "auto", max |-> 1, at |-> 1, tries |-> 0,
           answer |-> Waiting, aborted |-> FALSE, polls |-> 0, attempts |-> <<>>, outcome |-> "none", provider |-> None]
InProgress == call.phase \notin {"idle", "done"}
Current == call.order[call.at]

Init ==
  /\ record \in {[hint |-> FALSE, base |-> None], [hint |-> TRUE, base |-> None], [hint |-> TRUE, base |-> Gw]}
  /\ preference = IF Disabled THEN "prefer_direct_sp" ELSE "auto"
  /\ node = "unset" /\ call = NoCall /\ calls = 0

(* TransportContext.setPreference, from the status bar's select. *)
setPreference(p) ==
  /\ ~InProgress /\ calls < MaxCalls /\ p \in Preferences \ {"gateway_only", preference}
  /\ preference' = p
  /\ UNCHANGED <<record, node, call, calls>>

(* useLocalGateway writes the record. *)
GatewayRecordChanges ==
  /\ ~InProgress /\ calls < MaxCalls
  /\ record' \in {[hint |-> FALSE, base |-> None], [hint |-> TRUE, base |-> None], [hint |-> TRUE, base |-> Gw]}
  /\ UNCHANGED <<preference, node, call, calls>>

(* An operation is called; without a candidate it throws at once. *)
Begin(req) ==
  /\ ~InProgress /\ calls < MaxCalls
  /\ calls' = calls + 1
  /\ LET p == Planned(req) IN
       call' = [NoCall EXCEPT !.req = req, !.order = orderCandidates(p.pref, p.candidates), !.pref = p.pref, !.max = p.max,
                              !.phase = IF p.candidates = <<>> THEN "done" ELSE "attempt",
                              !.outcome = IF p.candidates = <<>> THEN "no candidate" ELSE "none"]
  /\ UNCHANGED <<record, preference, node>>

(* The next attempt; the first libp2p attempt creates the node, and a      *)
(* failure to create it stays.                                             *)
getLibp2pNode ==
  node' \in IF Current.backend = "libp2p" /\ node = "unset" THEN {"up", "failed"} ELSE {node}

Attempt ==
  /\ call.phase = "attempt"
  /\ getLibp2pNode
  /\ call' = [call EXCEPT !.phase = "wait", !.tries = @ + 1, !.answer = Waiting, !.aborted = FALSE, !.polls = 0]
  /\ UNCHANGED <<record, preference, calls>>

(* The trace of an attempt: of its error class, whether it is worth        *)
(* repeating; who answered, and whether with a 4xx.                        *)
Logged(c, class, a) ==
  [at |-> c.at, ok |-> class = "ok", retryable |-> isRetryable(class), by |-> a.by,
   client |-> a.kind = "http" /\ classifyStatus(a.status) = "http_4xx"]

(* Fault: a terminal error ends the operation. *)
FailedTerminalEnds(c, e, a) ==
  LET class == classifyError(e)
      again == isRetryable(class) /\ ~isTerminal(class) /\ c.tries < c.max
      log == Append(c.attempts, Logged(c, class, a))
  IN  IF again THEN [c EXCEPT !.phase = "attempt", !.attempts = log]
      ELSE IF c.at < Len(c.order) /\ ~isTerminal(class)
           THEN [c EXCEPT !.phase = "attempt", !.attempts = log, !.at = @ + 1, !.tries = 0]
           ELSE [c EXCEPT !.phase = "done", !.attempts = log, !.outcome = "failed"]

(* The catch block: retry here, go to the next candidate, or give up. The  *)
(* back-off after a 429 only delays the next attempt.                      *)
Failed(c, e, a) ==
  LET class == classifyError(e)
      again == isRetryable(class) /\ ~isTerminal(class) /\ c.tries < c.max
      log == Append(c.attempts, Logged(c, class, a))
  IN  IF again THEN [c EXCEPT !.phase = "attempt", !.attempts = log]
      ELSE IF c.at < Len(c.order)
           THEN [c EXCEPT !.phase = "attempt", !.attempts = log, !.at = @ + 1, !.tries = 0]
           ELSE [c EXCEPT !.phase = "done", !.attempts = log, !.outcome = "failed"]

Settle(c, r, a) ==
  IF r.kind = "data"
  THEN [c EXCEPT !.phase = "done", !.outcome = "ok", !.provider = r.provider,
                 !.attempts = Append(@, Logged(c, "ok", a))]
  ELSE Failed(c, r, a)

Answered(a) ==
  /\ call.phase = "wait"
  /\ call' = Settle(call, Execute(call.req, Current, a), a)
  /\ UNCHANGED <<record, preference, node, calls>>

(* An upload answered 202 is polled at the URL it names, or lost. *)
UploadAccepted ==
  /\ call.phase = "wait" /\ call.req.op = "upload"
  /\ call' \in {[call EXCEPT !.phase = "poll"], Failed(call, Error("other", 0), Accepted)}
  /\ UNCHANGED <<record, preference, node, calls>>

(* waitForGatewayUploadResult, waitForProviderUploadResult: a poll that is *)
(* not answered with a final state waits for the next; a poll that cannot  *)
(* be fetched throws.                                                      *)
PollAgain ==
  /\ call.phase = "poll" /\ call.polls < MaxPolls
  /\ call' = [call EXCEPT !.polls = @ + 1]
  /\ UNCHANGED <<record, preference, node, calls>>
PollFinishes ==
  /\ call.phase = "poll"
  /\ call' \in {Settle(call, Data(None), Accepted),
                Settle(call, wrapExecute(Error("other", 0)), Accepted),
                Settle(call, wrapExecute(Error("network", 0)), Accepted)}
  /\ UNCHANGED <<record, preference, node, calls>>

(* The router's timer aborts the attempt's controller. *)
TimerAborts ==
  /\ call.phase \in {"wait", "poll"} /\ ~call.aborted
  /\ call' = [call EXCEPT !.aborted = TRUE]
  /\ UNCHANGED <<record, preference, node, calls>>
AbortRejects ==
  /\ call.phase = "wait" /\ call.aborted /\ HeedsSignal(call.req.op)
  /\ call' = Failed(call, Error("aborted", 0), Waiting)
  /\ UNCHANGED <<record, preference, node, calls>>
DeadlineRejects ==
  /\ call.phase \in {"wait", "poll"} /\ OwnDeadline(call.req.op)
  /\ call' = Failed(call, fetchWithTimeout, Waiting)
  /\ UNCHANGED <<record, preference, node, calls>>

Timers == Attempt \/ TimerAborts \/ AbortRejects \/ DeadlineRejects
Next ==
  \/ \E p \in Preferences : setPreference(p)
  \/ GatewayRecordChanges
  \/ \E req \in Requests : Begin(req)
  \/ \E a \in Answers : Answered(a)
  \/ UploadAccepted \/ PollAgain \/ PollFinishes
  \/ Timers

(* The page's own timers run; nothing is assumed of the servers. *)
Spec == Init /\ [][Next]_vars /\ WF_vars(Timers)

----------------------------------------------------------------------------

TypeOK ==
  /\ preference \in Preferences /\ node \in {"unset", "up", "failed"}
  /\ call.phase \in {"idle", "attempt", "wait", "poll", "done"}
  /\ call.outcome \in {"none", "ok", "failed", "no candidate"}

(* router.ts executeWithFallback: an operation fails only after every      *)
(* candidate was tried, each given up only for an error that is not worth  *)
(* repeating or after its last try; it succeeds with its last attempt; a   *)
(* candidate is repeated only after a retryable failure.                   *)
FallbackIsComplete ==
  LET log == call.attempts
      tries(k) == {i \in DOMAIN log : log[i].at = k}
  IN  /\ \A i \in DOMAIN log : i > 1 => /\ log[i].at \in {log[i-1].at, log[i-1].at + 1}
                                        /\ log[i].at = log[i-1].at => log[i-1].retryable
      /\ \A k \in DOMAIN call.order : Cardinality(tries(k)) <= call.max
      /\ call.outcome = "ok" => log # <<>> /\ \A i \in DOMAIN log : log[i].ok <=> i = Len(log)
      /\ call.outcome = "failed" =>
           \A k \in DOMAIN call.order :
             \E i \in tries(k) : ~log[i].retryable \/ Cardinality(tries(k)) = call.max

(* useTransportRouter.ts fetchRange: when the caller says which provider's *)
(* session it pays, bytes fetched from a provider directly or over libp2p  *)
(* are accepted from that provider only, whatever was tried before.        *)
ServedByPaidProvider ==
  (call.outcome = "ok" /\ call.req.op = "fetch" /\ call.req.expected # None) =>
    /\ call.provider = call.req.expected
    /\ LET last == Last(call.attempts) IN
         call.order[last.at].backend # "gateway" => last.by = call.req.expected

(* router.test.ts: "executeWithFallback does not retry 4xx on the same     *)
(* backend".                                                               *)
No4xxRetry ==
  \A i \in 2..Len(call.attempts) :
    call.attempts[i].at = call.attempts[i-1].at => ~call.attempts[i-1].client

(* router.test.ts: "executeWithFallback classifies timeouts and falls      *)
(* back".                                                                  *)
TimeoutFallsBack == (call.phase = "wait") ~> (call.phase # "wait")
=============================================================================
