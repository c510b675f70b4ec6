---------------------------- MODULE NetworkGuard ----------------------------
(***************************************************************************)
(* useWalletNetworkGuard and switchNetwork of the website: the guard       *)
(* compares the wallet's chain, genesis block and exposed accounts with    *)
(* what the page expects; switchNetwork asks the wallet to add and to      *)
(* select the chain.                                                       *)
(*                                                                         *)
(* A refresh of the guard reads the wallet and the RPC node in two rounds  *)
(* of awaits.  Refreshes are started by the polling loop, by events of the *)
(* window and of the wallet and by callers of switchNetwork; they are      *)
(* neither sequenced nor cancelled, and each judges the account of the     *)
(* render that started it.  The wallet and its owner are the environment.  *)
(***************************************************************************)
EXTENDS Integers, Sequences

CONSTANTS
    Accounts,     \* the accounts of the wallet
    Exposures,    \* what eth_accounts may return: sequences of accounts
    Slots,        \* bound: refreshes in flight
    MaxChanges,   \* bound: what the wallet's owner and the page's user do
    MaxFaults,    \* bound: requests that fail
    None

VARIABLES
    wallet,     \* [accts, id, entry]: exposed accounts, selected chain, its entry
    addr,       \* wagmi's account; isConnected is addr # None
    guard,      \* [chain, exp, gen, perm]: the guard's four states
    refreshes,  \* [Slots -> None or a refresh in flight]
    timer,      \* the guard's polling timer is armed
    switching,  \* [at, force, again]: a switchNetwork call
    changes, faults

vars == <<wallet, addr, guard, refreshes, timer, switching, changes, faults>>

Unread == None   \* an answer of a refresh that has not come
Null == "null"

connected == addr # None

---------------------------------------------------------------------------
(* What the hook derives from its states *)

chainIdMismatch == connected /\ guard.chain # Null /\ guard.chain # "ours"

genesisMismatch ==
    /\ connected /\ ~chainIdMismatch
    /\ guard.exp # Null /\ guard.gen # Null
    /\ guard.exp # guard.gen

isWrongNetwork == chainIdMismatch \/ genesisMismatch

---------------------------------------------------------------------------
(* The guard *)

walletGenesis == IF wallet.id = "ours" THEN wallet.entry ELSE "foreign"

NewRefresh(a, loop) ==
    [addr |-> a, loop |-> loop, at |-> "all", chain |-> Unread, accts |-> Unread]

FreeSlots == {s \in Slots : refreshes[s] = None}

handleRefreshEvent ==   \* visibilitychange, focus and the wallet's events
    /\ connected
    /\ changes < MaxChanges
    /\ \E s \in FreeSlots :
          refreshes' = [refreshes EXCEPT ![s] = NewRefresh(addr, FALSE)]
    /\ changes' = changes + 1
    /\ UNCHANGED <<wallet, addr, guard, timer, switching, faults>>

PollFires ==
    /\ timer
    /\ \E s \in FreeSlots :
          refreshes' = [refreshes EXCEPT ![s] = NewRefresh(addr, TRUE)]
    /\ timer' = FALSE
    /\ UNCHANGED <<wallet, addr, guard, switching, changes, faults>>

Answered(s, field, value, failed) ==
    /\ refreshes[s] # None
    /\ refreshes[s].at = "all"
    /\ refreshes[s][field] = Unread
    /\ \/ /\ refreshes' = [refreshes EXCEPT ![s][field] = value]
          /\ UNCHANGED faults
       \/ /\ faults < MaxFaults
          /\ refreshes' = [refreshes EXCEPT ![s][field] = failed]
          /\ faults' = faults + 1
    /\ UNCHANGED <<wallet, addr, guard, timer, switching, changes>>

fetchWalletChainId(s) == Answered(s, "chain", wallet.id, Null)

\* The RPC node's genesis never changes, so when it is read does not matter.
fetchExpectedGenesisHash == {"good"} \cup IF faults < MaxFaults THEN {Null} ELSE {}

fetchWalletAccounts(s) == Answered(s, "accts", wallet.accts, << >>)

\* Fault: the loop does not schedule the next poll.
RefreshEndsUnscheduled(s) ==
    /\ refreshes' = [refreshes EXCEPT ![s] = None]
    /\ UNCHANGED timer

\* The effect's loop re-arms its timer after its own refresh, unless the
\* effect was torn down meanwhile: then the refresh's `loop` was cleared.
RefreshEnds(s) ==
    /\ refreshes' = [refreshes EXCEPT ![s] = None]
    /\ timer' = (timer \/ refreshes[s].loop)

refreshFirstRound(s) ==
    /\ refreshes[s] # None
    /\ refreshes[s].at = "all"
    /\ Unread \notin {refreshes[s].chain, refreshes[s].accts}
    /\ \E exp \in fetchExpectedGenesisHash :
       LET r == refreshes[s]
           mismatch == /\ r.addr # None
                       /\ \A i \in 1..Len(r.accts) : r.accts[i] # r.addr
           done == r.chain # "ours"
       IN /\ guard' = [chain |-> r.chain, exp |-> exp, perm |-> mismatch,
                       gen |-> IF done THEN Null ELSE guard.gen]
          /\ IF done
               THEN RefreshEnds(s)
               ELSE /\ refreshes' = [refreshes EXCEPT ![s].at = "genesis"]
                    /\ UNCHANGED timer
          /\ faults' = IF exp = Null THEN faults + 1 ELSE faults
    /\ UNCHANGED <<wallet, addr, switching, changes>>

refreshGenesis(s) ==
    /\ refreshes[s] # None
    /\ refreshes[s].at = "genesis"
    /\ \/ /\ guard' = [guard EXCEPT !.gen = walletGenesis]
          /\ UNCHANGED faults
       \/ /\ faults < MaxFaults
          /\ guard' = [guard EXCEPT !.gen = Null]
          /\ faults' = faults + 1
    /\ RefreshEnds(s)
    /\ UNCHANGED <<wallet, addr, switching, changes>>

---------------------------------------------------------------------------
(* switchNetwork *)

NotSwitching == [at |-> "no", force |-> FALSE, again |-> FALSE]

switchNetwork ==
    /\ isWrongNetwork
    /\ switching.at = "no"
    /\ changes < MaxChanges
    /\ changes' = changes + 1
    /\ switching' = [at |-> IF genesisMismatch THEN "add" ELSE "switch",
                     force |-> genesisMismatch, again |-> FALSE]
    /\ UNCHANGED <<wallet, addr, guard, refreshes, timer, faults>>

addChain ==
    /\ switching.at = "add"
    /\ \/ /\ wallet' = [wallet EXCEPT !.entry = "good"]      \* approved
          /\ switching' = [switching EXCEPT !.at = "switch"]
       \/ /\ wallet.entry # "none"                            \* exists already
          /\ switching' = IF switching.again THEN NotSwitching
                          ELSE [switching EXCEPT !.at = "switch"]
          /\ UNCHANGED wallet
       \/ /\ switching' = NotSwitching                        \* rejected
          /\ UNCHANGED wallet
    /\ UNCHANGED <<addr, guard, refreshes, timer, changes, faults>>

switchWithProvider ==
    /\ switching.at = "switch"
    /\ \/ /\ wallet.entry # "none"
          /\ wallet' = [wallet EXCEPT !.id = "ours"]
          /\ switching' = [switching EXCEPT !.at = "check"]
       \/ /\ wallet.entry = "none"                            \* code 4902
          /\ switching' = IF switching.again THEN NotSwitching
                          ELSE [switching EXCEPT !.at = "add", !.again = TRUE]
          /\ UNCHANGED wallet
       \/ /\ switching' = NotSwitching                        \* rejected
          /\ UNCHANGED wallet
    /\ UNCHANGED <<addr, guard, refreshes, timer, changes, faults>>

\* A forced switch compares the genesis hashes; every caller refreshes the
\* guard after a switch that did not throw.
switchEnds ==
    /\ switching.at = "check"
    /\ switching' = NotSwitching
    /\ IF (switching.force /\ walletGenesis # "good") \/ ~connected
         THEN UNCHANGED refreshes
         ELSE \E s \in FreeSlots :
                 refreshes' = [refreshes EXCEPT ![s] = NewRefresh(addr, FALSE)]
    /\ UNCHANGED <<wallet, addr, guard, timer, changes, faults>>

---------------------------------------------------------------------------
(* The wallet's owner *)

WalletChanges ==
    /\ changes < MaxChanges
    /\ changes' = changes + 1
    /\ \/ \E x \in Exposures : wallet' = [wallet EXCEPT !.accts = x]
       \/ \E i \in {"ours", "other"} :
             /\ i = "ours" => wallet.entry # "none"
             /\ wallet' = [wallet EXCEPT !.id = i]
       \/ \E e \in {"good", "bad"} : wallet' = [wallet EXCEPT !.entry = e]
    /\ wallet' # wallet
    /\ UNCHANGED <<addr, guard, refreshes, timer, switching, faults>>

\* The page renders with another account: the guard's effect is torn down and
\* set up again with the new closure.
AccountRenders ==
    LET a == IF wallet.accts = << >> THEN None ELSE Head(wallet.accts)
        kept == [s \in Slots |-> IF refreshes[s] = None THEN None
                                 ELSE [refreshes[s] EXCEPT !.loop = FALSE]]
    IN /\ a # addr
       /\ addr' = a
       /\ timer' = FALSE
       /\ IF a = None
            THEN refreshes' = kept
            ELSE \E s \in FreeSlots :
                    refreshes' = [kept EXCEPT ![s] = NewRefresh(a, TRUE)]
       /\ UNCHANGED <<wallet, guard, switching, changes, faults>>

---------------------------------------------------------------------------
Init ==
    /\ wallet \in {[accts |-> x, id |-> "other", entry |-> "none"] : x \in Exposures}
    /\ addr = None
    /\ guard = [chain |-> Null, exp |-> Null, gen |-> Null, perm |-> FALSE]
    /\ refreshes = [s \in Slots |-> None]
    /\ timer = FALSE
    /\ switching = NotSwitching
    /\ changes = 0
    /\ faults = 0

Refresh(s) ==
    \/ fetchWalletChainId(s)
    \/ fetchWalletAccounts(s)
    \/ refreshFirstRound(s)
    \/ refreshGenesis(s)

Next ==
    \/ WalletChanges \/ AccountRenders
    \/ handleRefreshEvent \/ PollFires
    \/ \E s \in Slots : Refresh(s)
    \/ switchNetwork \/ addChain \/ switchWithProvider \/ switchEnds

\* The wallet and the node answer, and the timer fires.  Nothing obliges wagmi
\* to follow the wallet: AccountRenders is not fair.
Spec ==
    /\ Init /\ [][Next]_vars
    /\ \A s \in Slots : WF_vars(Refresh(s))
    /\ WF_vars(PollFires)

---------------------------------------------------------------------------
TypeOK ==
    /\ addr \in Accounts \cup {None}
    /\ wallet.accts \in Exposures
    /\ guard.perm \in BOOLEAN /\ timer \in BOOLEAN
    /\ changes \in 0..MaxChanges /\ faults \in 0..MaxFaults

Exposed(a) == \E i \in 1..Len(wallet.accts) : wallet.accts[i] = a

GuardTruthful ==
    connected => /\ guard.perm = ~Exposed(addr)
                 /\ isWrongNetwork = (walletGenesis # "good")

\* Refreshes of the guard are neither sequenced nor cancelled, and a late one
\* writes what it read for an earlier account or chain; still, once the wallet
\* is left alone, a connected page settles for good on the truth: whether its
\* account is exposed and whether the selected chain is the expected one.
GuardSettles == <>[]GuardTruthful
=============================================================================
