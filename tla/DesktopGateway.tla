--------------------------- MODULE DesktopGateway ---------------------------
(***************************************************************************)
(* The desktop app and the gateway process it keeps running: probing,      *)
(* starting, recovering, stopping (App.tsx over the sidecar commands).     *)
(*                                                                         *)
(* Every call of ensureGateway and every tick of the status poll is a      *)
(* thread: it runs from one await to the next, holds the values its        *)
(* closure saw, and nothing stops it when newer ones begin.  The effects   *)
(* that launch them run again whenever the auto-start switch or the base   *)
(* URL changes, for both are dependencies of their callbacks.              *)
(***************************************************************************)
EXTENDS Naturals, FiniteSets

CONSTANTS
    EnsureSlots,   \* calls of ensureGateway in flight together
    TickSlots,     \* ticks of the poll in flight together
    MaxAttempts,   \* STARTUP_PROBE_ATTEMPTS (20 in the code)
    Threshold,     \* RECOVERY_FAILURE_THRESHOLD
    MaxClicks,     \* bound: what the user does
    MaxFaults,     \* bound: what goes wrong with the processes
    None

VARIABLES
    child,     \* the process of the sidecar manager: none, booting or up
    other,     \* another process on the port: none, gateway or daemon
    phase,     \* what the app shows
    managed,   \* gatewayManaged: None, TRUE or FALSE
    auto,      \* autoStartEnabled
    base,      \* gatewayBaseUrl: a local or a remote address
    failures,  \* consecutiveFailuresRef, up to the threshold
    inFlight,  \* recoveryInFlightRef
    cooling,   \* less than RECOVERY_COOLDOWN_MS since the last recovery
    th,        \* the threads
    stop,      \* handleStop is waiting for gatewayStop
    busy,      \* actionBusy
    wanted,    \* the user's last word: FALSE after Stop
    clicks, faults

vars == <<child, other, phase, managed, auto, base, failures, inFlight, cooling,
          th, stop, busy, wanted, clicks, faults>>

Slots == EnsureSlots \cup TickSlots

Idle == [st |-> "idle", kind |-> "ensure", rec |-> FALSE, auto |-> FALSE,
         base |-> "local", tries |-> 0, ans |-> None, live |-> FALSE, button |-> FALSE]

isConnecting == phase \in {"booting", "checking", "starting", "stopping"}

(* A free slot; which one makes no difference *)
Free(slots) ==
    LET f == {s \in slots : th[s].st = "idle"}
    IN IF f = {} THEN {} ELSE {CHOOSE s \in f : TRUE}

---------------------------------------------------------------------------
(* The sidecar manager; its mutex makes each command one step *)

Running == child # "none"

(* What a GET of /status on the port finds: gatewayStatusBoundaryError turns
   a provider daemon into an error *)
StatusAnswer ==
    IF child = "up" \/ other = "gateway" THEN "ok" ELSE "bad"

---------------------------------------------------------------------------
(* Threads *)

(* ensureGateway({startIfOffline}), up to its first await.  A base the start
   refuses, or the attach does, fails without one (st = "failed"). *)
ensureGateway(start, b, button) ==
    [Idle EXCEPT !.kind = IF start THEN "ensure" ELSE "attach",
                 !.st = IF b # "local" THEN "failed" ELSE IF start THEN "start" ELSE "probe",
                 !.base = b, !.button = button]

tick(a, b) == [Idle EXCEPT !.kind = "tick", !.st = "probe", !.auto = a, !.base = b, !.live = TRUE]

(* The render with new values of the switch and of the base, after threads t:
   the poll is torn down and both effects run again *)
CanRender(a, b, t) ==
    (a # auto \/ b # base) =>
        (\E e \in EnsureSlots : t[e].st = "idle") /\ (\E k \in TickSlots : t[k].st = "idle")

Render(a, b, t, ph) ==
    /\ auto' = a
    /\ base' = b
    /\ IF a = auto /\ b = base
       THEN th' = t /\ phase' = ph
       ELSE LET e == CHOOSE s \in EnsureSlots : t[s].st = "idle"
                k == CHOOSE s \in TickSlots : t[s].st = "idle"
            IN  /\ th' = [s \in Slots |-> IF s = e THEN ensureGateway(TRUE, b, FALSE)
                                          ELSE IF s = k THEN tick(a, b)
                                          ELSE [t[s] EXCEPT !.live = FALSE]]
                /\ phase' = "checking"

Ended(s) == [th EXCEPT ![s] = Idle]

(* recoverFromStatusFailure up to its await: what it leaves of thread s, the
   phase, and whether it is now the one recovery *)
\* Fault: a recovery that fails keeps recoveryInFlightRef.
RecoveryEndsBusy(s) == inFlight

RecoveryEnds(s) == IF th[s].rec THEN FALSE ELSE inFlight

Next1(n) == IF n < Threshold THEN n + 1 ELSE n

recoverFromStatusFailure(s, forced, a, b) ==
    LET r == th[s]
        early == IF forced THEN None
                 ELSE IF ~r.auto \/ r.base # "local" THEN "offline"
                 ELSE IF Next1(failures) < Threshold THEN "checking"
                 ELSE None
    IN  /\ managed' = None
        /\ failures' = Next1(failures)
        /\ IF early # None
           THEN Render(a, b, Ended(s), early) /\ UNCHANGED <<inFlight, cooling>>
           ELSE IF inFlight
           THEN Render(a, b, Ended(s), phase) /\ UNCHANGED <<inFlight, cooling>>
           ELSE IF cooling /\ ~forced
           THEN Render(a, b, Ended(s), "checking") /\ UNCHANGED <<inFlight, cooling>>
           ELSE /\ cooling' = TRUE
                /\ inFlight' = TRUE
                /\ Render(a, b, [th EXCEPT ![s].rec = TRUE, ![s].tries = 0,
                              ![s].st = IF r.base = "local" THEN "start" ELSE "failed"],
                          "starting")

(* The end of a thread that a button waits for frees the buttons *)
Freed(s) == IF th[s].button THEN FALSE ELSE busy

(* gatewayStart: running already, the port taken, or a new process *)
gatewayStart(s) ==
    /\ th[s].st = "start"
    /\ IF Running \/ other # "none" THEN UNCHANGED child ELSE child' = "booting"
    /\ th' = [th EXCEPT ![s].st = IF Running \/ other = "none" THEN "probe" ELSE "failed"]
    /\ UNCHANGED <<other, phase, managed, auto, base, failures, inFlight, cooling,
                   stop, busy, wanted, clicks, faults>>

(* The process exits during startup *)
gatewayStartFails(s) ==
    /\ th[s].st = "start"
    /\ ~Running /\ other = "none"
    /\ faults < MaxFaults
    /\ faults' = faults + 1
    /\ th' = [th EXCEPT ![s].st = "failed"]
    /\ UNCHANGED <<child, other, phase, managed, auto, base, failures, inFlight,
                   cooling, stop, busy, wanted, clicks>>

gatewayStatus(s) ==
    /\ th[s].st = "probe" /\ th[s].ans = None
    /\ th' = [th EXCEPT ![s].ans = StatusAnswer]
    /\ UNCHANGED <<child, other, phase, managed, auto, base, failures, inFlight,
                   cooling, stop, busy, wanted, clicks, faults>>

(* applyOnlineStatus, and the end of whatever asked *)
applyOnlineStatus(s) ==
    /\ th[s].st = "probe" /\ th[s].ans = "ok"
    /\ managed' = Running
    /\ phase' = "online"
    /\ failures' = 0
    /\ inFlight' = RecoveryEnds(s)
    /\ busy' = Freed(s)
    /\ th' = Ended(s)
    /\ UNCHANGED <<child, other, auto, base, cooling, stop, wanted, clicks, faults>>

(* A tick whose probe failed: recover, unless the poll was torn down *)
tickFails(s) ==
    /\ th[s].kind = "tick" /\ ~th[s].rec
    /\ th[s].st = "probe" /\ th[s].ans = "bad"
    /\ IF th[s].live
       THEN recoverFromStatusFailure(s, FALSE, auto, base)
       ELSE th' = Ended(s) /\ UNCHANGED <<phase, managed, auto, base, failures, inFlight, cooling>>
    /\ UNCHANGED <<child, other, stop, busy, wanted, clicks, faults>>

(* One failed attempt of probeAfterStart: ask again after the delay, or give up *)
probeAfterStart(s) ==
    /\ th[s].kind = "ensure" \/ th[s].rec
    /\ th[s].st = "probe" /\ th[s].ans = "bad"
    /\ th' = [th EXCEPT ![s].ans = None, ![s].tries = @ + 1,
                        ![s].st = IF th[s].tries + 1 < MaxAttempts THEN "probe" ELSE "failed"]
    /\ UNCHANGED <<child, other, phase, managed, auto, base, failures, inFlight,
                   cooling, stop, busy, wanted, clicks, faults>>

attachFails(s) ==
    /\ th[s].kind = "attach"
    /\ th[s].st = "failed" \/ (th[s].st = "probe" /\ th[s].ans = "bad")
    /\ phase' = "offline"
    /\ busy' = Freed(s)
    /\ th' = Ended(s)
    /\ UNCHANGED <<child, other, managed, auto, base, failures, inFlight, cooling,
                   stop, wanted, clicks, faults>>

(* The catch of ensureGateway: switch auto-start on and force a recovery *)
ensureFails(s) ==
    /\ th[s].kind = "ensure" /\ th[s].st = "failed" /\ ~th[s].rec
    /\ CanRender(TRUE, base, th)
    /\ recoverFromStatusFailure(s, TRUE, TRUE, base)
    /\ busy' = IF th'[s].st = "idle" THEN Freed(s) ELSE busy
    /\ UNCHANGED <<child, other, stop, wanted, clicks, faults>>

recoveryFails(s) ==
    /\ th[s].st = "failed" /\ th[s].rec
    /\ phase' = "error"
    /\ inFlight' = RecoveryEnds(s)
    /\ busy' = Freed(s)
    /\ th' = Ended(s)
    /\ UNCHANGED <<child, other, managed, auto, base, failures, cooling, stop,
                   wanted, clicks, faults>>

PollTimer ==
    /\ \E k \in Free(TickSlots) : th' = [th EXCEPT ![k] = tick(auto, base)]
    /\ UNCHANGED <<child, other, phase, managed, auto, base, failures, inFlight,
                   cooling, stop, busy, wanted, clicks, faults>>

CooldownEnds ==
    /\ cooling
    /\ cooling' = FALSE
    /\ UNCHANGED <<child, other, phase, managed, auto, base, failures, inFlight, th,
                   stop, busy, wanted, clicks, faults>>

---------------------------------------------------------------------------
(* The buttons *)

handleAttach(button) ==
    /\ ~busy
    /\ clicks < MaxClicks
    /\ clicks' = clicks + 1
    /\ \E e \in Free(EnsureSlots) : th' = [th EXCEPT ![e] = ensureGateway(FALSE, base, button)]
    /\ phase' = "checking"
    /\ busy' = button
    /\ UNCHANGED <<child, other, managed, auto, base, failures, inFlight, cooling,
                   stop, wanted, faults>>

handleStart ==
    /\ ~busy /\ ~isConnecting /\ phase # "online"
    /\ clicks < MaxClicks
    /\ clicks' = clicks + 1
    /\ \E e \in Free(EnsureSlots) :
          LET t == [th EXCEPT ![e] = ensureGateway(TRUE, base, TRUE)]
          IN CanRender(TRUE, base, t) /\ Render(TRUE, base, t, "checking")
    /\ busy' = TRUE
    /\ wanted' = TRUE
    /\ UNCHANGED <<child, other, managed, failures, inFlight, cooling, stop, faults>>

handleStop ==
    /\ ~busy /\ ~stop
    /\ phase \notin {"offline", "booting", "stopping"} /\ managed # FALSE
    /\ clicks < MaxClicks
    /\ clicks' = clicks + 1
    /\ CanRender(FALSE, base, th)
    /\ Render(FALSE, base, th, "stopping")
    /\ stop' = TRUE
    /\ busy' = TRUE
    /\ wanted' = FALSE
    /\ UNCHANGED <<child, other, managed, failures, inFlight, cooling, faults>>

gatewayStop ==
    /\ stop
    /\ stop' = FALSE
    /\ busy' = FALSE
    /\ child' = "none"
    /\ phase' = IF Running THEN "offline" ELSE "error"
    /\ failures' = IF Running THEN 0 ELSE failures
    /\ UNCHANGED <<other, managed, auto, base, inFlight, cooling, th, wanted,
                   clicks, faults>>

EditBase(b) ==
    /\ b # base
    /\ clicks < MaxClicks
    /\ clicks' = clicks + 1
    /\ CanRender(auto, b, th)
    /\ Render(auto, b, th, phase)
    /\ UNCHANGED <<child, other, managed, failures, inFlight, cooling, stop, busy,
                   wanted, faults>>

---------------------------------------------------------------------------
(* The processes *)

ChildListens ==
    /\ child = "booting"
    /\ child' = "up"
    /\ UNCHANGED <<other, phase, managed, auto, base, failures, inFlight, cooling,
                   th, stop, busy, wanted, clicks, faults>>

ChildDies ==
    /\ child # "none"
    /\ faults < MaxFaults
    /\ faults' = faults + 1
    /\ child' = "none"
    /\ UNCHANGED <<other, phase, managed, auto, base, failures, inFlight, cooling,
                   th, stop, busy, wanted, clicks>>

OtherProcess(p) ==
    /\ p # other /\ (p = "none" \/ child = "none")
    /\ faults < MaxFaults
    /\ faults' = faults + 1
    /\ other' = p
    /\ UNCHANGED <<child, phase, managed, auto, base, failures, inFlight, cooling,
                   th, stop, busy, wanted, clicks>>

---------------------------------------------------------------------------
Init ==
    /\ child = "none"
    /\ other \in {"none", "gateway", "daemon"}
    /\ phase = "checking"
    /\ managed = None
    /\ auto = TRUE /\ base = "local"
    /\ failures = 0 /\ inFlight = FALSE /\ cooling = FALSE
    /\ LET e == CHOOSE s \in EnsureSlots : TRUE
           k == CHOOSE s \in TickSlots : TRUE
       IN  th = [s \in Slots |-> IF s = e THEN ensureGateway(TRUE, "local", FALSE)
                                 ELSE IF s = k THEN tick(TRUE, "local") ELSE Idle]
    /\ stop = FALSE /\ busy = FALSE /\ wanted = TRUE
    /\ clicks = 0 /\ faults = 0

ThreadStep(s) ==
    \/ gatewayStart(s) \/ gatewayStatus(s) \/ applyOnlineStatus(s) \/ tickFails(s)
    \/ probeAfterStart(s) \/ attachFails(s) \/ ensureFails(s)
    \/ recoveryFails(s)

Next ==
    \/ \E s \in Slots : ThreadStep(s) \/ gatewayStartFails(s)
    \/ PollTimer \/ CooldownEnds
    \/ \E button \in BOOLEAN : handleAttach(button)
    \/ handleStart \/ handleStop \/ gatewayStop
    \/ \E b \in {"local", "remote"} : EditBase(b)
    \/ ChildListens \/ ChildDies
    \/ \E p \in {"none", "gateway", "daemon"} : OtherProcess(p)

(* A call of the sidecar returns, timers fire, and a process that was      *)
(* started listens in the end; the user and the faults promise nothing.    *)
Spec == /\ Init /\ [][Next]_vars
        /\ \A s \in Slots : WF_vars(ThreadStep(s))
        /\ WF_vars(PollTimer) /\ WF_vars(CooldownEnds) /\ WF_vars(gatewayStop)
        /\ WF_vars(ChildListens)

---------------------------------------------------------------------------
TypeOK ==
    /\ child \in {"none", "booting", "up"}
    /\ other \in {"none", "gateway", "daemon"}
    /\ phase \in {"booting", "checking", "starting", "online", "offline", "stopping", "error"}
    /\ managed \in BOOLEAN \cup {None}
    /\ auto \in BOOLEAN /\ base \in {"local", "remote"}
    /\ failures \in 0..Threshold
    /\ \A s \in Slots : /\ th[s].st \in {"idle", "start", "probe", "failed"}
                        /\ th[s].tries \in 0..MaxAttempts
    /\ {inFlight, cooling, stop, busy, wanted} \subseteq BOOLEAN

Startable == auto /\ base = "local" /\ other = "none"
Servable == StatusAnswer = "ok" \/ Startable
Online == phase = "online"

(* Once the user and the processes leave it alone, the app ends up online: *)
(* a gateway that serves is found by the poll whatever the calls still in  *)
(* flight report, and one that is down is started again by the recovery    *)
(* (ensureGateway, the poll and recoverFromStatusFailure).                 *)
SettlesOnline == <>[]Servable => <>[]Online

(* "Local Gateway stopped. Press Start gateway to run it again."           *)
(* (App.tsx:551): after Stop no gateway process is started until the user  *)
(* presses Start.                                                          *)
StoppedStaysStopped ==
    [][~wanted /\ ~Running => child' = "none"]_vars
=============================================================================
