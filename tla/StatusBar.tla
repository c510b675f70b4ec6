------------------------------ MODULE StatusBar -----------------------------
(***************************************************************************)
(* The status bar's view of the services: components/StatusBar.tsx polls   *)
(* lib/status.ts, whose module-level cache remembers which gateway path    *)
(* answered last. Several loads may be in flight: the loop's, one started  *)
(* when the page becomes visible, and the SYNC button's.                   *)
(***************************************************************************)
EXTENDS Naturals, FiniteSets

CONSTANTS
  Loads,        \* loads that may be in flight
  ProbeEvery,   \* OPTIONAL_HEALTH_PROBE_EVERY_TICKS
  Kinds,        \* what may listen on the gateway's port
  Trusted,      \* the configured gateway is a trusted loopback base
  Disabled,     \* appConfig.gatewayDisabled
  Faucet,       \* appConfig.faucetEnabled
  MaxTicks,     \* bound: loads of the loop
  MaxSyncs      \* bound: SYNC clicks and visibility events

VARIABLES
  listening,     \* what listens on the gateway's port
  gatewayPath,   \* cachedGatewayPath
  cachedGateway, \* cachedGatewayStatus
  load,          \* each load: its stage and the summary so far
  tick, timer,   \* the loop's tick and whether its timer is set
  refreshing,    \* the SYNC button is busy
  shown,         \* the summary on display
  syncs

vars == <<listening, gatewayPath, cachedGateway, load, tick, timer, refreshing, shown, syncs>>

Idle == [stage |-> "idle", probe |-> FALSE, by |-> "none", gw |-> "warn", lcd |-> "warn", evm |-> "warn", chain |-> "warn",
         faucet |-> "warn", kind |-> "none", path |-> "/status"]
Active == {l \in Loads : load[l].stage # "idle"}

(* /status of a provider daemon, or without a gateway route family, is not *)
(* a gateway's.                                                            *)
parseStatusPersona(kind) == IF kind = "gateway" THEN "ok" ELSE "warn"

Init ==
  /\ listening \in Kinds /\ gatewayPath = "/status" /\ cachedGateway = "warn"
  /\ load = [l \in Loads |-> Idle]
  /\ tick = 0 /\ timer = TRUE /\ refreshing = FALSE /\ shown = Idle /\ syncs = 0

(* The head of fetchStatus. *)
NewLoad(probe, by) ==
  [Idle EXCEPT !.stage = "latest", !.probe = probe, !.by = by, !.faucet = IF Faucet THEN "ok" ELSE "warn",
               !.gw = IF Disabled \/ ~Trusted THEN "warn" ELSE cachedGateway]
StartLoad(l, probe, by) ==
  /\ load[l].stage = "idle"
  /\ load' = [load EXCEPT ![l] = NewLoad(probe, by)]
  /\ cachedGateway' = IF Disabled \/ ~Trusted THEN "warn" ELSE cachedGateway

(* runLoop, from its timer or from visibilitychange (which leaves a timer  *)
(* that is set).                                                           *)
runLoop(l) ==
  /\ timer /\ tick < MaxTicks
  /\ StartLoad(l, tick % ProbeEvery = 0, "loop")
  /\ timer' = FALSE
  /\ UNCHANGED <<listening, gatewayPath, tick, refreshing, shown, syncs>>
BecomesVisible(l) ==
  /\ syncs < MaxSyncs
  /\ StartLoad(l, tick % ProbeEvery = 0, "loop")
  /\ syncs' = syncs + 1
  /\ UNCHANGED <<listening, gatewayPath, tick, timer, refreshing, shown>>
ClickSync(l) ==
  /\ ~refreshing /\ syncs < MaxSyncs
  /\ StartLoad(l, TRUE, "sync")
  /\ refreshing' = TRUE /\ syncs' = syncs + 1
  /\ UNCHANGED <<listening, gatewayPath, tick, timer, shown>>

Go(l, f) == load' = [load EXCEPT ![l] = f]

(* The chain's services, one after the other; each may fail on its own. *)
LatestBlock(l) ==
  /\ load[l].stage = "latest"
  /\ \E s \in {"ok", "error"} : Go(l, [load[l] EXCEPT !.stage = "evm", !.lcd = s])
  /\ UNCHANGED <<listening, gatewayPath, cachedGateway, tick, timer, refreshing, shown, syncs>>
ChainId(l) ==
  /\ load[l].stage = "evm"
  /\ \E r \in {<<"ok", "ok">>, <<"ok", "error">>, <<"warn", "error">>, <<"error", "warn">>} :
       Go(l, [load[l] EXCEPT !.evm = r[1], !.chain = r[2], !.path = gatewayPath,
                             !.stage = IF ~load[l].probe THEN "done" ELSE IF Disabled \/ ~Trusted THEN "faucet" ELSE "gateway"])
  /\ UNCHANGED <<listening, gatewayPath, cachedGateway, tick, timer, refreshing, shown, syncs>>

Other(path) == IF path = "/status" THEN "/health" ELSE "/status"
Read(path, kind) == IF path = "/status" THEN parseStatusPersona(kind) ELSE "ok"

(* probeGateway: the path remembered when it starts; the other only if the fetch    *)
(* itself fails, and then it is the one remembered.                        *)
probeGateway(l) ==
  /\ load[l].stage = "gateway"
  /\ \/ /\ listening # "nothing"
        /\ Go(l, [load[l] EXCEPT !.stage = "faucet", !.gw = Read(load[l].path, listening), !.kind = listening])
        /\ cachedGateway' = Read(load[l].path, listening)
        /\ UNCHANGED gatewayPath
     \/ /\ Go(l, [load[l] EXCEPT !.stage = "fallback"])
        /\ UNCHANGED <<gatewayPath, cachedGateway>>
  /\ UNCHANGED <<listening, tick, timer, refreshing, shown, syncs>>
probeFallback(l) ==
  /\ load[l].stage = "fallback"
  /\ \/ /\ listening # "nothing"
        /\ LET path == Other(load[l].path) IN
             /\ Go(l, [load[l] EXCEPT !.stage = "faucet", !.gw = Read(path, listening), !.kind = listening])
             /\ gatewayPath' = path /\ cachedGateway' = Read(path, listening)
     \/ /\ Go(l, [load[l] EXCEPT !.stage = "faucet", !.gw = "error"])
        /\ cachedGateway' = "error"
        /\ UNCHANGED gatewayPath
  /\ UNCHANGED <<listening, tick, timer, refreshing, shown, syncs>>

FaucetHealth(l) ==
  /\ load[l].stage = "faucet"
  /\ \E s \in (IF Faucet THEN {"ok", "warn"} ELSE {"warn"}) :
       Go(l, [load[l] EXCEPT !.stage = "done", !.faucet = s])
  /\ UNCHANGED <<listening, gatewayPath, cachedGateway, tick, timer, refreshing, shown, syncs>>

\* Fault: a result that arrives while the SYNC button is busy sets no timer.
ShowQuietly(l) ==
  /\ load[l].stage = "done"
  /\ shown' = load[l]
  /\ load' = [load EXCEPT ![l] = Idle]
  /\ IF load[l].by = "loop"
     THEN tick' = tick + 1 /\ timer' = (timer \/ ~refreshing) /\ UNCHANGED refreshing
     ELSE refreshing' = FALSE /\ UNCHANGED <<tick, timer>>
  /\ UNCHANGED <<listening, gatewayPath, cachedGateway, syncs>>

(* The load's result is shown; the loop's load sets the next timer. *)
Show(l) ==
  /\ load[l].stage = "done"
  /\ shown' = load[l]
  /\ load' = [load EXCEPT ![l] = Idle]
  /\ IF load[l].by = "loop"
     THEN tick' = tick + 1 /\ timer' = TRUE /\ UNCHANGED refreshing
     ELSE refreshing' = FALSE /\ UNCHANGED <<tick, timer>>
  /\ UNCHANGED <<listening, gatewayPath, cachedGateway, syncs>>

ListenerChanges ==
  /\ listening' \in Kinds \ {listening}
  /\ UNCHANGED <<gatewayPath, cachedGateway, load, tick, timer, refreshing, shown, syncs>>

Next ==
  \/ \E l \in Loads : \/ runLoop(l) \/ BecomesVisible(l) \/ ClickSync(l) \/ LatestBlock(l) \/ ChainId(l)
                      \/ probeGateway(l) \/ probeFallback(l) \/ FaucetHealth(l) \/ Show(l)
  \/ ListenerChanges

Spec == Init /\ [][Next]_vars

TypeOK == gatewayPath \in {"/status", "/health"} /\ cachedGateway \in {"ok", "warn", "error"}

(* The bar keeps polling: whatever loads overlap, come back out of order   *)
(* or fail, the loop's timer is set or a load of the loop will set it, the *)
(* SYNC button is busy exactly while its load is, and a gateway shown as   *)
(* working by a probing load answered that load.                           *)
LoopAlive ==
  /\ timer \/ \E l \in Active : load[l].by = "loop"
  /\ refreshing = (\E l \in Active : load[l].by = "sync")
  /\ shown.probe /\ shown.gw = "ok" => shown.kind # "none"

(* status.test.ts: "fetchStatus treats provider-daemon status on 8080 as   *)
(* non-gateway": a probe that a provider daemon answered is never shown as *)
(* a working gateway.                                                      *)
DaemonIsNoGateway == shown.kind = "daemon" => shown.gw # "ok"
=============================================================================
