---------------------------- MODULE LocalGateway ----------------------------
(***************************************************************************)
(* How the page knows a local user-gateway: hooks/useLocalGateway.ts, one  *)
(* instance per component that uses it (FileSharder, GatewayStatusWidget,  *)
(* StatusBar, useSessionStatus), all writing one record in localStorage    *)
(* (lib/retrievalMode.ts). The transport router and the retrieval code     *)
(* take the route from that record.                                        *)
(*                                                                         *)
(* A probe walks the candidate bases one fetch at a time; each fetch has a *)
(* 3 s deadline, so it always settles. Unmounting aborts the probe, which  *)
(* then returns at its next continuation without touching anything; here   *)
(* unmounting ends it.                                                     *)
(***************************************************************************)
EXTENDS Naturals, Sequences, SequencesExt, FiniteSets

CONSTANTS
  Bases,       \* base URLs the configuration may name
  Trusted,     \* the loopback bases on the gateway's ports
  Defaults,    \* 127.0.0.1:8080 and localhost:8080, in this order
  Swap,        \* the other loopback name of a base
  Config,      \* appConfig.gatewayBase
  Disabled,    \* appConfig.gatewayDisabled
  Hooks,       \* component slots that call the hook
  Kinds,       \* what may listen on a base
  None,
  MaxMounts,   \* bound: mounts over the page's life
  MaxShows,    \* bound: times the page becomes visible
  MaxChanges   \* bound: gateways started, stopped or replaced

GatewayAssumption ==
  /\ Trusted \subseteq Bases /\ Range(Defaults) \subseteq Trusted /\ Len(Defaults) = 2
  /\ Swap \in [Bases -> Bases \cup {None}] /\ None \notin Bases /\ Disabled \in BOOLEAN

VARIABLES
  listening,  \* what listens on each trusted base
  record,     \* the two localStorage keys: connected hint and eligible base
  hook,       \* each hook instance, None while unmounted
  mounts, shows, changes

vars == <<listening, record, hook, mounts, shows, changes>>

----------------------------------------------------------------------------
(* The record *)

isTrustedLocalGatewayBase(b) == b \in Trusted

persistLocalGatewayConnection(b) ==
  IF isTrustedLocalGatewayBase(b) THEN [hint |-> TRUE, base |-> b] ELSE [hint |-> FALSE, base |-> None]
persistLocalGatewayLiveness == [hint |-> TRUE, base |-> None]

readLocalGatewayConnectedHint == record.hint
readLocalGatewayConnectedBase == IF record.hint /\ isTrustedLocalGatewayBase(record.base) THEN record.base ELSE None

----------------------------------------------------------------------------
(* Candidates *)

normalizeGatewaySeed(b) == IF isTrustedLocalGatewayBase(b) THEN b ELSE Defaults[1]

swapLoopbackHost(b) == IF b = None THEN None ELSE Swap[b]

buildGatewayBaseCandidates(primary) ==
  LET push(list, b) == IF isTrustedLocalGatewayBase(b) /\ b \notin Range(list) THEN Append(list, b) ELSE list
  IN  FoldLeft(push, <<>>, <<primary, Defaults[1], Defaults[2], swapLoopbackHost(primary)>>)

----------------------------------------------------------------------------
(* What listens: a user-gateway with the retrieval capability, a daemon    *)
(* whose /status does not qualify, a gateway older than /status, one whose *)
(* health fails, a server in trouble, something else, or nothing.          *)

parsePaymentEligibleStatus(kind) == kind = "user"

Answer(kind, path) ==
  CASE kind = "none" -> "fails"
    [] kind = "troubled" -> "http"
    [] kind \in {"user", "unqualified"} -> "ok"
    [] kind = "old" -> IF path = "/status" THEN "404" ELSE "ok"
    [] kind = "sick" -> IF path = "/status" THEN "404" ELSE "http"
    [] kind = "foreign" -> "404"

NoProbe == [rest |-> <<>>, path |-> "/status", answer |-> "none", kind |-> "none", healthOnly |-> None, http |-> FALSE]
Mounted == {h \in Hooks : hook[h] # None}
inFlight(s) == s.probe # NoProbe

Init ==
  /\ listening \in [Trusted -> Kinds]
  /\ record \in {[hint |-> FALSE, base |-> None]} \cup {[hint |-> TRUE, base |-> b] : b \in Trusted}
  /\ hook = [h \in Hooks |-> None]
  /\ mounts = 0 /\ shows = 0 /\ changes = 0

(* The start of checkGatewayStatus: a hook that is not connected says      *)
(* connecting; leaving "disconnected" clears the shared record.            *)
StartCheck(s) ==
  [s EXCEPT !.status = IF s.status = "connected" THEN "connected" ELSE "connecting",
            !.probe = [NoProbe EXCEPT !.rest = buildGatewayBaseCandidates(normalizeGatewaySeed(s.url))]]
ClearsRecord(s) == s.status = "disconnected"

(* The hook's effect: reset the record and look at once. *)
Mount(h) ==
  /\ hook[h] = None /\ mounts < MaxMounts
  /\ mounts' = mounts + 1
  /\ record' = persistLocalGatewayConnection(None)
  /\ LET s == [status |-> "disconnected", url |-> normalizeGatewaySeed(Config), probe |-> NoProbe, timer |-> FALSE]
     IN  hook' = [hook EXCEPT ![h] = IF Disabled THEN s ELSE StartCheck(s)]
  /\ UNCHANGED <<listening, shows, changes>>

Unmount(h) ==
  /\ hook[h] # None
  /\ hook' = [hook EXCEPT ![h] = None]
  /\ UNCHANGED <<listening, record, mounts, shows, changes>>

TimerFires(h) ==
  /\ hook[h] # None
  /\ hook[h].timer
  /\ LET s == [hook[h] EXCEPT !.timer = FALSE]
     IN  IF inFlight(s)
         THEN /\ hook' = [hook EXCEPT ![h] = s]
              /\ UNCHANGED record
         ELSE /\ hook' = [hook EXCEPT ![h] = StartCheck(s)]
              /\ record' = IF ClearsRecord(s) THEN persistLocalGatewayConnection(None) ELSE record
  /\ UNCHANGED <<listening, mounts, shows, changes>>

(* visibilitychange reaches every hook; one already probing ignores it. *)
PageBecomesVisible ==
  /\ shows < MaxShows /\ ~Disabled
  /\ shows' = shows + 1
  /\ LET starting == {h \in Mounted : ~inFlight(hook[h])}
     IN  /\ hook' = [h \in Hooks |-> IF h \in starting THEN StartCheck(hook[h]) ELSE hook[h]]
         /\ record' = IF \E h \in starting : ClearsRecord(hook[h]) THEN persistLocalGatewayConnection(None) ELSE record
  /\ UNCHANGED <<listening, mounts, changes>>

(* The server answers now; the page reads the answer later. *)
ServerAnswers(h) ==
  /\ hook[h] # None
  /\ inFlight(hook[h]) /\ hook[h].probe.answer = "none"
  /\ LET p == hook[h].probe IN
       hook' = [hook EXCEPT ![h].probe.answer = Answer(listening[p.rest[1]], p.path),
                            ![h].probe.kind = listening[p.rest[1]]]
  /\ UNCHANGED <<listening, record, mounts, shows, changes>>

(* Fault: the probe is not scheduled again. *)
EndCheckUnscheduled(s, status, url) == [s EXCEPT !.status = status, !.url = url, !.probe = NoProbe]

(* Every way out of checkGatewayStatus passes the finally block. *)
EndCheck(s, status, url) == [s EXCEPT !.status = status, !.url = url, !.probe = NoProbe, !.timer = TRUE]

Publish(h, s, rec) == hook' = [hook EXCEPT ![h] = s] /\ record' = rec

(* No candidate qualified. *)
Conclude(h, p) ==
  LET s == hook[h] IN
    IF p.healthOnly # None
    THEN Publish(h, EndCheck(s, "connected", p.healthOnly), persistLocalGatewayLiveness)
    ELSE Publish(h, EndCheck(s, "disconnected", IF p.http THEN s.url ELSE normalizeGatewaySeed(Config)),
                 persistLocalGatewayConnection(None))

NextCandidate(h, p) ==
  IF Len(p.rest) = 1 THEN Conclude(h, p)
  ELSE /\ hook' = [hook EXCEPT ![h].probe = [p EXCEPT !.rest = Tail(p.rest), !.path = "/status",
                                                       !.answer = "none", !.kind = "none"]]
       /\ UNCHANGED record

StatusAnswered(h) ==
  /\ hook[h] # None
  /\ hook[h].probe.answer # "none" /\ hook[h].probe.path = "/status"
  /\ LET p == hook[h].probe
         b == p.rest[1]
     IN  CASE p.answer = "ok" /\ parsePaymentEligibleStatus(p.kind) ->
                Publish(h, EndCheck(hook[h], "connected", b), persistLocalGatewayConnection(b))
           [] p.answer = "404" ->
                /\ hook' = [hook EXCEPT ![h].probe.path = "/health", ![h].probe.answer = "none", ![h].probe.kind = "none"]
                /\ UNCHANGED record
           [] OTHER -> NextCandidate(h, [p EXCEPT !.http = p.http \/ p.answer = "http"])
  /\ UNCHANGED <<listening, mounts, shows, changes>>

HealthAnswered(h) ==
  /\ hook[h] # None
  /\ hook[h].probe.answer # "none" /\ hook[h].probe.path = "/health"
  /\ LET p == hook[h].probe IN
       NextCandidate(h, [p EXCEPT !.http = p.http \/ p.answer = "http",
                                  !.healthOnly = IF p.answer = "ok" /\ p.healthOnly = None THEN p.rest[1] ELSE @])
  /\ UNCHANGED <<listening, mounts, shows, changes>>

(* A gateway is started, stopped, upgraded or replaced by a provider. *)
ListenerChanges(b, kind) ==
  /\ changes < MaxChanges /\ listening[b] # kind
  /\ listening' = [listening EXCEPT ![b] = kind]
  /\ changes' = changes + 1
  /\ UNCHANGED <<record, hook, mounts, shows>>

HookStep(h) == TimerFires(h) \/ ServerAnswers(h) \/ StatusAnswered(h) \/ HealthAnswered(h)

Next ==
  \/ \E h \in Hooks : Mount(h) \/ Unmount(h) \/ HookStep(h)
  \/ PageBecomesVisible
  \/ \E b \in Trusted, kind \in Kinds : ListenerChanges(b, kind)

(* Timers fire and every fetch settles within its deadline. *)
Spec == Init /\ [][Next]_vars /\ \A h \in Hooks : WF_vars(HookStep(h))

----------------------------------------------------------------------------

TypeOK ==
  /\ record \in [hint : BOOLEAN, base : Trusted \cup {None}]
  /\ \A h \in Mounted : hook[h].status \in {"connected", "connecting", "disconnected"} /\ hook[h].url \in Trusted

(* What the record says when it is true of what listens. A gateway older   *)
(* than /status counts as connected without being eligible.                *)
Reachable == Range(buildGatewayBaseCandidates(normalizeGatewaySeed(Config)))
Truthful ==
  IF \E b \in Reachable : listening[b] = "user"
  THEN readLocalGatewayConnectedBase # None /\ listening[readLocalGatewayConnectedBase] = "user"
  ELSE /\ readLocalGatewayConnectedBase = None
       /\ readLocalGatewayConnectedHint <=> \E b \in Reachable : listening[b] = "old"

Settled == Disabled \/ Mounted = {} \/ Truthful

(* useLocalGateway.ts: however probes of several hooks, mounts, unmounts   *)
(* and visibility events interleave with gateways that come and go, once   *)
(* those stop and a hook stays mounted, the shared record settles on the   *)
(* truth for good: it names a user-gateway if there is one among the       *)
(* candidates, and offers none otherwise.                                  *)
RecordSettles == <>[]Settled
=============================================================================
