---------------------------- MODULE PagePolling -----------------------------
(***************************************************************************)
(* The pages that poll the chain's query node: the dashboard's node        *)
(* height, retrieval sessions and parameters, the proofs hook, the         *)
(* retrieval observatory, the devnet page and the status page. One of them *)
(* is open. The first four set a timer after each load and load again when *)
(* the tab becomes visible; the others load at every tick of an interval,  *)
(* whether or not the earlier load has ended. What a load shows is named   *)
(* by the height at which the node answered it; Missing is nothing, or     *)
(* only a part.                                                            *)
(***************************************************************************)
EXTENDS Naturals, Sequences

CONSTANTS
  Pages,        \* the pollers of which one is looked at
  Accounts,     \* accounts the wallet may connect
  NoOne,        \* no account connected, or the page closed
  EndBlock,     \* the selected deal's end_block
  Slots,        \* loads that may be in flight
  MaxHeight,    \* bound: the chain's last block
  MaxFailures,  \* bound: loads the node fails
  MaxSwitches   \* bound: account changes, or openings and closings

VARIABLES
  page,         \* the poller looked at
  key,          \* the account its effect runs for ("open" for the others), or NoOne
  view,         \* what is on display
  timer,        \* a timer is set
  req,          \* each load in flight
  height,       \* the chain's height
  failures, switches

vars == <<page, key, view, timer, req, height, failures, switches>>
env == <<page, key, height, failures, switches>>

Missing == 0
Blank == [data |-> <<Missing, Missing>>, of |-> NoOne, err |-> FALSE, loading |-> FALSE]
Free == [st |-> "free", live |-> FALSE, stage |-> 1, at |-> Missing, of |-> NoOne]
Sent(k) == [st |-> "sent", live |-> TRUE, stage |-> 1, at |-> Missing, of |-> k]
Keys == IF page = "sessions" THEN Accounts ELSE {"open"}
Live(s) == req[s].st # "free" /\ req[s].live

(* The node's height: null after a failed check. *)
checkRpc(v, r) == [v EXCEPT !.data[1] = IF r.st = "ok" THEN r.at ELSE Missing, !.of = r.of]

(* The owner's retrieval sessions: a failure keeps the earlier rows. *)
refreshSessions(v, r) ==
  IF r.st = "ok" THEN [v EXCEPT !.data[1] = r.at, !.of = r.of, !.err = FALSE, !.loading = FALSE]
  ELSE [v EXCEPT !.err = TRUE, !.loading = FALSE]

refreshParams(v, r) ==
  [v EXCEPT !.data[1] = IF r.st = "ok" THEN r.at ELSE Missing, !.of = r.of, !.err = r.st # "ok"]

(* useProofs: a failure is ignored. *)
loadProofs(v, r) ==
  [v EXCEPT !.data[1] = IF r.st = "ok" THEN r.at ELSE @, !.of = r.of, !.loading = FALSE]

(* The observatory: deals and providers first, then every provider's       *)
(* sessions, of which some queries may fail.                               *)
refresh(v, r) ==
  IF r.stage = 1
  THEN IF r.st = "ok" THEN [v EXCEPT !.data[1] = r.at, !.of = r.of]
       ELSE [v EXCEPT !.err = TRUE, !.loading = FALSE]
  ELSE [v EXCEPT !.data[2] = IF r.st = "ok" THEN r.at ELSE Missing, !.err = r.st # "ok", !.loading = FALSE]
refreshGoesOn(r) == page = "observatory" /\ r.stage = 1 /\ r.st = "ok"

(* The devnet page forgets its providers when the list cannot be read. *)
loadDevnet(v, r) ==
  [v EXCEPT !.data[1] = IF r.st = "ok" THEN r.at ELSE Missing, !.of = r.of, !.err = r.st # "ok", !.loading = FALSE]

(* The status page keeps its summary and forgets its providers. *)
loadStatus(v, r) ==
  [v EXCEPT !.data = IF r.st = "ok" THEN <<r.at, r.at>> ELSE [@ EXCEPT ![2] = Missing],
            !.of = r.of, !.err = r.st # "ok", !.loading = FALSE]

(* What a load does before it waits. *)
startLoad(v) ==
  CASE page \in {"sessions", "proofs", "observatory"} -> [v EXCEPT !.loading = TRUE]
    [] page = "devnet" -> [v EXCEPT !.loading = TRUE, !.err = FALSE]
    [] OTHER -> v

(* Faults: useProofs without its inFlight guard; a loop that sets no timer *)
(* after a failed load.                                                    *)
NoGuard == FALSE
scheduleOnSuccess(r) == timer' = (timer \/ r.st = "ok")

(* useProofs lets one load run at a time. *)
inFlight == page = "proofs" /\ \E s \in Slots : Live(s)
schedule(r) == timer' = TRUE

(* runLoop, from the timer or from visibilitychange; a guarded load that   *)
(* finds another in flight returns at once and only sets the timer again.  *)
runLoop(s) ==
  IF inFlight THEN timer' = TRUE /\ UNCHANGED <<view, req>>
  ELSE /\ req[s].st = "free"
       /\ req' = [req EXCEPT ![s] = Sent(key)]
       /\ view' = startLoad(view)
TimerFires(s) ==
  /\ timer /\ key # NoOne
  /\ runLoop(s)
  /\ ~inFlight => timer' = FALSE
  /\ UNCHANGED env
handleVisibility(s) ==
  /\ key # NoOne
  /\ runLoop(s)
  /\ ~inFlight => UNCHANGED timer
  /\ UNCHANGED env
IntervalTicks(s) ==
  /\ key # NoOne /\ req[s].st = "free"
  /\ req' = [req EXCEPT ![s] = Sent(key)]
  /\ view' = startLoad(view)
  /\ UNCHANGED <<timer, page, key, height, failures, switches>>

(* A load ends as its page has it; that of an effect cleaned up in the     *)
(* meantime shows nothing. A loop then sets its timer, an interval goes on *)
(* by itself.                                                              *)
Settled(v, r) ==
  CASE page = "rpc" -> checkRpc(v, r)
    [] page = "sessions" -> refreshSessions(v, r)
    [] page = "params" -> refreshParams(v, r)
    [] page = "proofs" -> loadProofs(v, r)
    [] page = "observatory" -> refresh(v, r)
    [] page = "devnet" -> loadDevnet(v, r)
    [] page = "status" -> loadStatus(v, r)
Settles(s) ==
  /\ req[s].st \in {"ok", "fail"}
  /\ req' = [req EXCEPT ![s] = IF @.live /\ refreshGoesOn(@) THEN [@ EXCEPT !.st = "sent", !.stage = 2] ELSE Free]
  /\ view' = IF req[s].live THEN Settled(view, req[s]) ELSE view
  /\ UNCHANGED env
LoopSettles(s) ==
  /\ Settles(s)
  /\ IF req[s].live THEN schedule(req[s]) ELSE UNCHANGED timer
Loop(s) == TimerFires(s) \/ handleVisibility(s) \/ LoopSettles(s)
Interval(s) == IntervalTicks(s) \/ (Settles(s) /\ UNCHANGED timer)

RpcEffect(s) == page = "rpc" /\ Loop(s)
SessionsEffect(s) == page = "sessions" /\ Loop(s)
ParamsEffect(s) == page = "params" /\ Loop(s)
ProofsEffect(s) == page = "proofs" /\ Loop(s)
ObservatoryEffect(s) == page = "observatory" /\ Interval(s)
DevnetEffect(s) == page = "devnet" /\ Interval(s)
StatusEffect(s) == page = "status" /\ Interval(s)

(* The effect is cleaned up (its timer cleared, its loads left to end on   *)
(* their own) and runs again for the new account. Without an account, or   *)
(* without the page, nothing is on display.                                *)
Rerun(k, s) ==
  /\ switches < MaxSwitches /\ k # key
  /\ key' = k /\ switches' = switches + 1
  /\ timer' = FALSE
  /\ LET ended == [t \in Slots |-> [req[t] EXCEPT !.live = FALSE]] IN
       IF k = NoOne THEN view' = Blank /\ req' = ended
       ELSE /\ req[s].st = "free"
            /\ req' = [ended EXCEPT ![s] = Sent(k)]
            /\ view' = startLoad(view)
  /\ UNCHANGED <<page, height, failures>>

(* The node answers at the height it has, or fails. *)
NodeAnswers(s) ==
  /\ req[s].st = "sent"
  /\ \/ /\ req' = [req EXCEPT ![s].st = "ok", ![s].at = height]
        /\ UNCHANGED failures
     \/ /\ failures < MaxFailures
        /\ failures' = failures + 1
        /\ req' = [req EXCEPT ![s].st = "fail"]
  /\ UNCHANGED <<page, key, view, timer, height, switches>>
Block ==
  /\ height < MaxHeight
  /\ height' = height + 1
  /\ UNCHANGED <<page, key, view, timer, req, failures, switches>>

Init ==
  /\ page \in Pages
  /\ key = NoOne /\ view = Blank /\ timer = FALSE
  /\ req = [s \in Slots |-> Free]
  /\ height = 1 /\ failures = 0 /\ switches = 0

Next ==
  \/ \E s \in Slots : \/ RpcEffect(s) \/ SessionsEffect(s) \/ ParamsEffect(s) \/ ProofsEffect(s)
                      \/ ObservatoryEffect(s) \/ DevnetEffect(s) \/ StatusEffect(s)
                      \/ NodeAnswers(s)
                      \/ \E k \in Keys \cup {NoOne} : Rerun(k, s)
  \/ Block

(* Timers and intervals fire, a request is answered or fails, and its      *)
(* continuation runs.                                                      *)
Periodic == {"observatory", "devnet", "status"}
Fires(s) == TimerFires(s) \/ (page \in Periodic /\ IntervalTicks(s))
Ends(s) == IF page \in Periodic THEN Settles(s) /\ UNCHANGED timer ELSE LoopSettles(s)
SomeFires == \E s \in Slots : Fires(s)
Fairness ==
  /\ WF_vars(SomeFires)
  /\ \A s \in Slots : WF_vars(NodeAnswers(s)) /\ WF_vars(Ends(s))
Spec == Init /\ [][Next]_vars /\ Fairness

-----------------------------------------------------------------------------
TypeOK ==
  /\ page \in Pages /\ key \in Accounts \cup {"open", NoOne} /\ timer \in BOOLEAN
  /\ view.data \in [1..2 -> 0..MaxHeight]
  /\ \A s \in Slots : req[s].st \in {"free", "sent", "ok", "fail"}

(* The dashboard refuses a commit into a deal it takes for expired. *)
targetDealExpired == view.data[1] # Missing /\ view.data[1] > EndBlock

(* Everything the page shows is the chain's last state, and belongs to the *)
(* account connected.                                                      *)
Parts == IF page \in {"observatory", "status"} THEN 1..2 ELSE {1}
Fresh ==
  /\ \A i \in Parts : view.data[i] = MaxHeight
  /\ view.of = key /\ ~view.err
  /\ page = "rpc" => targetDealExpired

LeftOpen == key # NoOne /\ height = MaxHeight
ShowsChain == Fresh

(* No interleaving of timers, visibility changes, overlapping loads,       *)
(* account changes and failed loads stops a poller that is left open: once *)
(* the chain stays as it is, the page ends by showing it, and an older     *)
(* answer that comes late does not stay.                                   *)
PagesCatchUp == <>[]LeftOpen => <>[]ShowsChain

(* Rows put on display belong to the account connected at that moment:     *)
(* the load of an account that has been changed since shows nothing. The   *)
(* proofs hook, which lets one load run at a time, never replaces its rows *)
(* by an older answer's.                                                   *)
StaleAnswersDropped ==
  [][/\ view'.of # view.of => view'.of \in {key', NoOne}
     /\ page = "proofs" /\ key' = key => view'.data[1] >= view.data[1]]_vars
=============================================================================
