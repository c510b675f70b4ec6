-------------------------- MODULE DesktopLaunchpad --------------------------
(***************************************************************************)
(* The desktop app's provider tools: the seven setup steps, each a command *)
(* that answers later, over fields the operator may edit at any time       *)
(* (SpLaunchpad.tsx).  Addresses are named by the key they belong to.      *)
(***************************************************************************)
EXTENDS Naturals, Sequences, SequencesExt

CONSTANTS Keys, Endpoints,
          MaxEdits,     \* bound: edits of the fields and funding of addresses
          None

VARIABLES
    status,      \* stepStatus
    run,         \* the command awaited, None when not busy
    key, address, endpoint, deployment,   \* the fields
    tab,
    registered,  \* chain: the endpoint of each key, or None
    funded,      \* chain: addresses with gas
    provider,    \* the local provider's key, or None
    edits

vars == <<status, run, key, address, endpoint, deployment, tab, registered, funded,
          provider, edits>>

steps == <<"defaults", "identity", "funding", "endpoint", "register", "service", "health">>

fields == [key |-> key, address |-> address, endpoint |-> endpoint, deployment |-> deployment]

(* onboardingSnapshot.nextStep *)
nextStep ==
    LET open == SelectSeq(steps, LAMBDA s : status[s] # "done")
    IN IF open = <<>> THEN None ELSE Head(open)

---------------------------------------------------------------------------
(* runStepById: the step's handler up to its command.  Every button that   *)
(* runs a step is disabled while one runs.                                 *)
runStepById(s) ==
    /\ run = None
    /\ IF s = "funding" /\ address = None
       THEN status' = [status EXCEPT ![s] = "error"] /\ UNCHANGED run
       ELSE /\ status' = [status EXCEPT ![s] = "running"]
            /\ run' = [step |-> s, req |-> fields]
    /\ UNCHANGED <<key, address, endpoint, deployment, tab, registered, funded,
                   provider, edits>>

handleRunNextStep == nextStep # None /\ runStepById(nextStep)

\* Fault: a command that fails leaves its step as it was.
stepFailsSilently ==
    /\ run # None
    /\ run' = None
    /\ UNCHANGED <<status, key, address, endpoint, deployment, tab, registered, funded,
                   provider, edits>>

(* The command of step s fails, or reports a failure *)
stepFails ==
    /\ run # None
    /\ run' = None
    /\ status' = IF run.step = "stop" THEN status ELSE [status EXCEPT ![run.step] = "error"]
    /\ UNCHANGED <<key, address, endpoint, deployment, tab, registered, funded,
                   provider, edits>>

Running(s) == run # None /\ run.step = s

Done(s) == status' = [status EXCEPT ![s] = "done"] /\ run' = None

handleLoadDefaults ==
    /\ Running("defaults")
    /\ Done("defaults")
    /\ UNCHANGED <<key, address, endpoint, deployment, tab, registered, funded,
                   provider, edits>>

handleCreateIdentity ==
    /\ Running("identity")
    /\ Done("identity")
    /\ address' \in {run.req.key, run.req.address}   \* info.address || providerAddress
    /\ UNCHANGED <<key, endpoint, deployment, tab, registered, funded, provider, edits>>

handleCheckFunding ==
    /\ Running("funding")
    /\ run.req.address \in funded
    /\ Done("funding")
    /\ UNCHANGED <<key, address, endpoint, deployment, tab, registered, funded,
                   provider, edits>>

handleValidateEndpoint ==
    /\ Running("endpoint")
    /\ Done("endpoint")
    /\ UNCHANGED <<key, address, endpoint, deployment, tab, registered, funded,
                   provider, edits>>

handleRegister ==
    /\ Running("register")
    /\ run.req.key \in funded
    /\ Done("register")
    /\ registered' = [registered EXCEPT ![run.req.key] = run.req.endpoint]
    /\ UNCHANGED <<key, address, endpoint, deployment, tab, funded, provider, edits>>

(* A local provider is started; for a remote one only its runbook is written *)
handleServiceStep ==
    /\ Running("service")
    /\ Done("service")
    /\ provider' = IF run.req.deployment = "local" THEN run.req.key ELSE provider
    /\ UNCHANGED <<key, address, endpoint, deployment, tab, registered, funded, edits>>

(* The health snapshot asks the base URL and, when an address is known, the chain *)
Healthy(req) ==
    /\ req.deployment = "local" => provider # None
    /\ req.address # None => registered[req.address] # None

handleHealthCheck ==
    /\ Running("health")
    /\ status' = [status EXCEPT !["health"] = IF Healthy(run.req) THEN "done" ELSE "error"]
    /\ run' = None
    /\ tab' = "operations"
    /\ UNCHANGED <<key, address, endpoint, deployment, registered, funded, provider, edits>>

handleStopProvider ==
    /\ run = None /\ tab = "operations"
    /\ deployment = "local"
    /\ run' = [step |-> "stop", req |-> fields]
    /\ UNCHANGED <<status, key, address, endpoint, deployment, tab, registered, funded,
                   provider, edits>>

providerStopped ==
    /\ Running("stop")
    /\ run' = None
    /\ provider' = IF provider = run.req.key THEN None ELSE provider
    /\ UNCHANGED <<status, key, address, endpoint, deployment, tab, registered, funded, edits>>

---------------------------------------------------------------------------
(* The tabs and the fields.  The text fields may be edited while a command
   runs; the switch of the deployment may not. *)
ChooseTab(t) ==
    /\ t # tab
    /\ tab' = t
    /\ UNCHANGED <<status, run, key, address, endpoint, deployment, registered, funded,
                   provider, edits>>

EditField ==
    /\ tab = "onboarding"
    /\ edits < MaxEdits
    /\ edits' = edits + 1
    /\ \/ key' \in Keys \ {key} /\ UNCHANGED <<address, endpoint, deployment>>
       \/ address' \in Keys \ {address} /\ UNCHANGED <<key, endpoint, deployment>>
       \/ endpoint' \in Endpoints \ {endpoint} /\ UNCHANGED <<key, address, deployment>>
       \/ /\ run = None
          /\ deployment' \in {"local", "remote"} \ {deployment}
          /\ UNCHANGED <<key, address, endpoint>>
    /\ UNCHANGED <<status, run, tab, registered, funded, provider>>

Fund(k) ==
    /\ k \notin funded
    /\ edits < MaxEdits
    /\ edits' = edits + 1
    /\ funded' = funded \cup {k}
    /\ UNCHANGED <<status, run, key, address, endpoint, deployment, tab, registered, provider>>

---------------------------------------------------------------------------
Init ==
    /\ status = [s \in Range(steps) |-> "idle"]
    /\ run = None
    /\ key \in Keys /\ address = None
    /\ endpoint \in Endpoints /\ deployment = "local"
    /\ tab = "onboarding"
    /\ registered = [k \in Keys |-> None]
    /\ funded = {}
    /\ provider = None
    /\ edits = 0

Next ==
    \/ \E s \in Range(steps) : tab = "onboarding" /\ runStepById(s)
    \/ tab = "onboarding" /\ handleRunNextStep
    \/ \E s \in {"health", "register", "service"} : tab = "operations" /\ runStepById(s)
    \/ stepFails
    \/ handleLoadDefaults \/ handleCreateIdentity \/ handleCheckFunding
    \/ handleValidateEndpoint \/ handleRegister \/ handleServiceStep \/ handleHealthCheck
    \/ handleStopProvider \/ providerStopped
    \/ \E t \in {"onboarding", "operations"} : ChooseTab(t)
    \/ EditField
    \/ \E k \in Keys : Fund(k)

Spec == Init /\ [][Next]_vars

---------------------------------------------------------------------------
TypeOK ==
    /\ \A s \in DOMAIN status : status[s] \in {"idle", "running", "done", "error"}
    /\ key \in Keys /\ address \in Keys \cup {None}
    /\ endpoint \in Endpoints /\ deployment \in {"local", "remote"}
    /\ tab \in {"onboarding", "operations"}
    /\ provider \in Keys \cup {None}

(* The steps account for what was done: a step is shown as running exactly *)
(* while its command is awaited, whatever fails, is edited or is clicked   *)
(* meanwhile; a funding check or a registration shown as done was one of   *)
(* an address with gas, and the registered endpoint is on the chain.       *)
StepsAccount ==
    /\ {s \in DOMAIN status : status[s] = "running"}
         = IF run = None THEN {} ELSE {run.step} \ {"stop"}
    /\ status["funding"] = "done" => funded # {}
    /\ status["register"] = "done" => \E k \in funded : registered[k] # None

(* "All onboarding steps are complete." (SpLaunchpad.tsx:626), shown when   *)
(* no step is open: with a local deployment the provider the service step   *)
(* started runs.                                                            *)
SetupCompleteHolds ==
    nextStep = None /\ deployment = "local" => provider # None
=============================================================================
