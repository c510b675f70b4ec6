--------------------------- MODULE WalletSession ---------------------------
(***************************************************************************)
(* The wallet session of the website: what the navigation bar and every    *)
(* page are told about the connected account (useSessionStatus), the       *)
(* faucet (useFaucet), and the first-file page that acts on it.            *)
(*                                                                         *)
(* The account, the bank, the faucet server, the wallet's prompts and the  *)
(* verdict of the network guard (module NetworkGuard) are the environment. *)
(* A balance load, a faucet request, a listing of the deals and a deal     *)
(* being created may all be in flight when the account changes.            *)
(***************************************************************************)
EXTENDS Integers, FiniteSets, Sequences

CONSTANTS
    Accounts,        \* the accounts of the wallet
    MaxChanges,      \* bound: what the user and the rest of the chain do
    MaxFaults,       \* bound: requests that fail
    MaxDeals,        \* bound: deals created
    FaucetAttempts,  \* maxAttempts of requestFunds (5 in the code)
    LcdIsLocal,      \* the builds covered: is appConfig.lcdBase a loopback address
    None

VARIABLES
    addr,      \* wagmi's account; isConnected is addr # None
    verdict,   \* what the network guard says: ok, reconnect or wrong
    bal,       \* lcdBalanceState
    load,      \* the balance effect: [st, amount]
    evm,       \* wagmi's cached EVM balance of each account
    funds,     \* the bank: 1 when the account holds the fee token
    faucet,    \* [st, at, for, tries, tx]: txStatus and the request's progress
    deals,     \* the chain's deals: deal i belongs to deals[i]
    page,      \* [deal, stray]: the first-file page's dealId
    listing,   \* its listing of the deals: [st, snap]
    creating,  \* its deal being created: [at, for, id]
    late,      \* the account of a createDeal whose receipt was given up on
    changes, faults

pageVars == <<deals, page, listing, creating, late>>

vars == <<addr, verdict, bal, load, evm, funds, faucet, pageVars, changes, faults>>

connected == addr # None

isWrongNetwork == verdict = "wrong"

---------------------------------------------------------------------------
(* What useSessionStatus derives from its states *)

EmptyBalance(owner) ==
    [owner |-> owner, amount |-> 0, loaded |-> FALSE, unavailable |-> FALSE]

currentLcdBalance == IF bal.owner = addr THEN bal ELSE EmptyBalance(addr)

resolveFundingStatus(lcd, evmAmount) ==
    IF lcd.loaded /\ lcd.amount > 0 THEN "funded"
    ELSE IF evmAmount > 0 THEN "funded"
    ELSE IF lcd.unavailable THEN "unavailable"
    ELSE IF lcd.loaded THEN "unfunded"
    ELSE "checking"

fundingStatus ==
    resolveFundingStatus(currentLcdBalance, IF connected THEN evm[addr] ELSE 0)

faucetBusy == faucet.at \in {"post", "wait"} \/ faucet.st = "pending"

\* Both ready states of the code are "ready" here: which of the two is shown
\* depends on the local gateway, see LocalGateway.
primarySessionState ==
    IF ~connected THEN "disconnected"
    ELSE IF verdict = "reconnect" THEN "needs-reconnect"
    ELSE IF isWrongNetwork THEN "wrong-network"
    ELSE IF fundingStatus = "checking" THEN "checking-balance"
    ELSE IF fundingStatus = "unavailable" THEN "balance-unavailable"
    ELSE IF fundingStatus = "unfunded" THEN "needs-funds"
    ELSE "ready"

\* NavSessionStatus shows the faucet button only for a settled balance; the
\* first-file and the onboarding pages show theirs until the wallet is funded.
faucetOffered ==
    /\ connected /\ ~faucetBusy
    /\ \/ ~isWrongNetwork /\ fundingStatus \in {"funded", "unfunded"}
       \/ fundingStatus # "funded" /\ faucet.st # "confirmed"

\* The first-file page: `funded`, behind which it prints "Wallet funded".
firstFileFunded == fundingStatus = "funded" \/ faucet.st = "confirmed"

---------------------------------------------------------------------------
(* The balance effect *)

Asked == [st |-> "asked", amount |-> 0]
Idle == [st |-> "idle", amount |-> 0]

RestartLoad(a) == load' = IF a = None THEN Idle ELSE Asked

BankReads ==
    /\ load.st = "asked"
    /\ load' = [st |-> "read", amount |-> funds[addr]]
    /\ UNCHANGED <<addr, verdict, bal, evm, funds, faucet, changes, faults,
                   pageVars>>

\* Fault: the next load is not scheduled.
loadSucceedsOnce ==
    /\ load.st = "read"
    /\ bal' = [owner |-> addr, amount |-> load.amount, loaded |-> TRUE,
               unavailable |-> FALSE]
    /\ load' = Idle
    /\ UNCHANGED <<addr, verdict, evm, funds, faucet, changes, faults,
                   pageVars>>

loadSucceeds ==
    /\ load.st = "read"
    /\ bal' = [owner |-> addr, amount |-> load.amount, loaded |-> TRUE,
               unavailable |-> FALSE]
    /\ load' = [st |-> "timer", amount |-> 0]
    /\ UNCHANGED <<addr, verdict, evm, funds, faucet, changes, faults,
                   pageVars>>

loadFails ==   \* an HTTP error, a malformed body or the ten second deadline
    /\ load.st \in {"asked", "read"}
    /\ faults < MaxFaults
    /\ faults' = faults + 1
    /\ bal' = [currentLcdBalance EXCEPT !.unavailable = TRUE]
    /\ load' = [st |-> "timer", amount |-> 0]
    /\ UNCHANGED <<addr, verdict, evm, funds, faucet, changes, pageVars>>

LoadTimerFires ==
    /\ load.st = "timer"
    /\ load' = Asked
    /\ UNCHANGED <<addr, verdict, bal, evm, funds, faucet, changes, faults,
                   pageVars>>

EvmAnswers ==   \* wagmi's useBalance, cached per account
    /\ connected
    /\ evm' = [evm EXCEPT ![addr] = funds[addr]]
    /\ UNCHANGED <<addr, verdict, bal, load, funds, faucet, changes, faults,
                   pageVars>>

---------------------------------------------------------------------------
(* The faucet *)

\* setTxStatus; a changed status restarts the balance effect.
SetFaucet(f) ==
    /\ faucet' = f
    /\ IF f.st # faucet.st THEN RestartLoad(addr) ELSE UNCHANGED load
    /\ UNCHANGED <<addr, verdict, bal, evm, pageVars>>

requestFunds ==
    /\ faucetOffered
    /\ changes < MaxChanges
    /\ changes' = changes + 1
    /\ SetFaucet([st |-> "idle", at |-> "post", for |-> addr, tries |-> 0,
                  tx |-> "none"])
    /\ UNCHANGED <<funds, faults>>

FaucetAccepts ==   \* an accepted request answers with the hash it sent
    /\ faucet.at = "post"
    /\ \E local \in LcdIsLocal :
          SetFaucet([faucet EXCEPT !.st = "pending", !.tx = "sent",
                                   !.at = IF local THEN "local" ELSE "poll"])
    /\ UNCHANGED <<funds, changes, faults>>

FaucetLimits ==    \* 429: wait and try again, up to the last attempt
    /\ faucet.at = "post"
    /\ IF faucet.tries + 1 < FaucetAttempts
         THEN SetFaucet([faucet EXCEPT !.at = "wait", !.tries = @ + 1])
         ELSE SetFaucet([faucet EXCEPT !.at = "off", !.st = "failed"])
    /\ UNCHANGED <<funds, changes, faults>>

FaucetWaited ==
    /\ faucet.at = "wait"
    /\ SetFaucet([faucet EXCEPT !.at = "post"])
    /\ UNCHANGED <<funds, changes, faults>>

FaucetRefuses ==   \* 401, any other status, or the request itself fails
    /\ faucet.at = "post"
    /\ faults < MaxFaults
    /\ faults' = faults + 1
    /\ SetFaucet([faucet EXCEPT !.at = "off", !.st = "failed"])
    /\ UNCHANGED <<funds, changes>>

FaucetPays ==      \* the chain executes the faucet's transaction, or refuses
    /\ faucet.tx = "sent"
    /\ \/ /\ faucet' = [faucet EXCEPT !.tx = "ok"]
          /\ funds' = [funds EXCEPT ![faucet.for] = 1]
          /\ UNCHANGED faults
       \/ /\ faults < MaxFaults
          /\ faults' = faults + 1
          /\ faucet' = [faucet EXCEPT !.tx = "bad"]
          /\ UNCHANGED funds
    /\ UNCHANGED <<addr, verdict, bal, load, evm, changes, pageVars>>

pollTx ==
    /\ faucet.at = "poll"
    /\ \/ faucet.tx = "ok" /\ SetFaucet([faucet EXCEPT !.at = "off", !.st = "confirmed"])
       \/ faucet.tx = "bad" /\ SetFaucet([faucet EXCEPT !.at = "off", !.st = "failed"])
       \/ SetFaucet([faucet EXCEPT !.at = "off"])    \* thirty polls unanswered
    /\ UNCHANGED <<funds, changes, faults>>

LocalConfirms ==   \* a local LCD: confirmed after 1.5 s without a look
    /\ faucet.at = "local"
    /\ SetFaucet([faucet EXCEPT !.at = "off", !.st = "confirmed"])
    /\ UNCHANGED <<funds, changes, faults>>

---------------------------------------------------------------------------
(* The first-file page *)

ListAsked == [st |-> "asked", snap |-> << >>]
ListIdle == [st |-> "idle", snap |-> << >>]

\* Fault: the effect's cleanup does not cancel the listing in flight.
RestartListingUncancelled(a) ==
    listing' = IF a = None THEN ListIdle
               ELSE IF listing.st = "read" THEN listing ELSE ListAsked

\* The listing effect depends on the deal and the account: setting either
\* cancels the listing in flight and starts another.
RestartListing(a) == listing' = IF a = None THEN ListIdle ELSE ListAsked

ListingReads ==
    /\ listing.st = "asked"
    /\ listing' = [st |-> "read", snap |-> SelectSeq([i \in 1..Len(deals) |-> <<i, deals[i]>>],
                                                    LAMBDA d : d[2] = addr)]
    /\ UNCHANGED <<addr, verdict, bal, load, evm, funds, faucet, deals, page,
                   creating, late, changes, faults>>

lcdFetchDeals ==
    /\ listing.st = "read"
    /\ IF page.deal = None /\ listing.snap # << >>
         THEN /\ page' = [deal |-> Head(listing.snap)[1], stray |-> FALSE]
              /\ RestartListing(addr)
         ELSE listing' = ListIdle /\ UNCHANGED page
    /\ UNCHANGED <<addr, verdict, bal, load, evm, funds, faucet, deals,
                   creating, late, changes, faults>>

ListingFails ==
    /\ listing.st \in {"asked", "read"}
    /\ faults < MaxFaults
    /\ faults' = faults + 1
    /\ listing' = ListIdle
    /\ UNCHANGED <<addr, verdict, bal, load, evm, funds, faucet, deals, page,
                   creating, late, changes>>

NotCreating == [at |-> "no", for |-> None, id |-> 0]

\* The button is disabled on a wrong network, while creating and once a deal
\* is shown; the handler refuses an account the wallet no longer exposes.
handleCreateDeal ==
    /\ connected /\ verdict = "ok"
    /\ creating.at = "no"
    /\ page.deal = None
    /\ changes < MaxChanges
    /\ changes' = changes + 1
    /\ creating' = [at |-> "wallet", for |-> addr, id |-> 0]
    /\ UNCHANGED <<addr, verdict, bal, load, evm, funds, faucet, deals, page,
                   listing, late, faults>>

WalletSends ==
    /\ creating.at = "wallet"
    /\ creating' \in {[creating EXCEPT !.at = "sent"], NotCreating}
    /\ UNCHANGED <<addr, verdict, bal, load, evm, funds, faucet, deals, page,
                   listing, late, changes, faults>>

ChainCreates ==
    /\ creating.at = "sent"
    /\ Len(deals) < MaxDeals
    /\ deals' = Append(deals, creating.for)
    /\ creating' = [creating EXCEPT !.at = "mined", !.id = Len(deals) + 1]
    /\ UNCHANGED <<addr, verdict, bal, load, evm, funds, faucet, page, listing,
                   late, changes, faults>>

submitDeal ==   \* the receipt's DealCreated event names the deal
    /\ creating.at = "mined"
    /\ page' = [deal |-> creating.id, stray |-> creating.for # addr]
    /\ creating' = NotCreating
    /\ IF page.deal # creating.id THEN RestartListing(addr) ELSE UNCHANGED listing
    /\ UNCHANGED <<addr, verdict, bal, load, evm, funds, faucet, deals, late,
                   changes, faults>>

submitDealFails ==   \* reverted, the receipt's 90 seconds pass, or RPC errors
    /\ creating.at \in {"sent", "mined"}
    /\ faults < MaxFaults
    /\ faults' = faults + 1
    /\ late' = IF creating.at = "sent" THEN creating.for ELSE late
    /\ creating' = NotCreating
    /\ UNCHANGED <<addr, verdict, bal, load, evm, funds, faucet, deals, page,
                   listing, changes>>

LateCreates ==
    /\ late # None
    /\ Len(deals) < MaxDeals
    /\ deals' = Append(deals, late)
    /\ late' = None
    /\ UNCHANGED <<addr, verdict, bal, load, evm, funds, faucet, page, listing,
                   creating, changes, faults>>

---------------------------------------------------------------------------
(* The user and the rest of the chain *)

\* The balance effect, the page's reset and its listing follow the account.
AccountRenders ==
    /\ changes < MaxChanges
    /\ changes' = changes + 1
    /\ \E a \in (Accounts \cup {None}) \ {addr} :
          /\ addr' = a
          /\ bal' = IF a = None THEN EmptyBalance(None) ELSE bal
          /\ RestartLoad(a)
          /\ RestartListing(a)
    /\ page' = [deal |-> None, stray |-> FALSE]
    /\ UNCHANGED <<verdict, evm, funds, faucet, deals, creating, late, faults>>

VerdictChanges ==
    /\ changes < MaxChanges
    /\ changes' = changes + 1
    /\ verdict' \in {"ok", "reconnect", "wrong"} \ {verdict}
    /\ UNCHANGED <<addr, bal, load, evm, funds, faucet, pageVars, faults>>

Spend ==
    /\ changes < MaxChanges
    /\ changes' = changes + 1
    /\ \E a \in Accounts : funds[a] = 1 /\ funds' = [funds EXCEPT ![a] = 0]
    /\ UNCHANGED <<addr, verdict, bal, load, evm, faucet, pageVars, faults>>

---------------------------------------------------------------------------
Init ==
    /\ addr \in Accounts \cup {None}
    /\ verdict = "ok"
    /\ bal = EmptyBalance(None)
    /\ load = IF addr = None THEN Idle ELSE Asked
    /\ evm = [a \in Accounts |-> 0]
    /\ funds \in [Accounts -> {0, 1}]
    /\ faucet = [st |-> "idle", at |-> "off", for |-> None, tries |-> 0, tx |-> "none"]
    /\ deals = << >>
    /\ page = [deal |-> None, stray |-> FALSE]
    /\ listing = IF addr = None THEN ListIdle ELSE ListAsked
    /\ creating = NotCreating
    /\ late = None
    /\ changes = 0
    /\ faults = 0

Load == BankReads \/ loadSucceeds \/ loadFails \/ LoadTimerFires

Faucet ==
    \/ requestFunds \/ FaucetAccepts \/ FaucetLimits \/ FaucetWaited
    \/ FaucetRefuses \/ FaucetPays \/ pollTx \/ LocalConfirms

FirstFile ==
    \/ ListingReads \/ lcdFetchDeals \/ ListingFails
    \/ handleCreateDeal \/ WalletSends \/ ChainCreates \/ LateCreates
    \/ submitDeal \/ submitDealFails

Next ==
    \/ AccountRenders \/ VerdictChanges \/ Spend
    \/ Load \/ EvmAnswers \/ Faucet \/ FirstFile

\* The bank answers, or the ten second deadline does, and the timer fires.
Spec == Init /\ [][Next]_vars /\ WF_vars(Load)

---------------------------------------------------------------------------
TypeOK ==
    /\ addr \in Accounts \cup {None}
    /\ load.st \in {"idle", "asked", "read", "timer"}
    /\ funds \in [Accounts -> {0, 1}]
    /\ deals \in UNION {[1..n -> Accounts] : n \in 0..MaxDeals}
    /\ changes \in 0..MaxChanges /\ faults \in 0..MaxFaults

\* What the session bar ought to say of the account and the chain as they are.
\* A cached positive EVM balance outlives the money, so it may still be "ready".
Truth ==
    IF ~connected THEN "disconnected"
    ELSE IF verdict = "reconnect" THEN "needs-reconnect"
    ELSE IF verdict = "wrong" THEN "wrong-network"
    ELSE IF funds[addr] = 1 \/ evm[addr] = 1 THEN "ready"
    ELSE "needs-funds"

\* Balance loads overlap account changes and faucet requests and may fail;
\* still, once the user and the chain are quiet, the session state settles for
\* good on what is true of the connected account.
SessionSettles == <>[](primarySessionState = Truth)

\* The deal the first-file page shows, which unlocks its last step, belongs to
\* the connected account, unless its creation was begun for another account
\* and outlived the change: listings in flight never leak across accounts.
DealShownIsOwned ==
    page.deal # None /\ ~page.stray => deals[page.deal] = addr

\* FirstFile.tsx prints "Wallet funded." for the connected account: it should
\* then hold funds, or have been seen holding them.
WalletFundedIsTrue ==
    firstFileFunded /\ connected =>
        funds[addr] = 1 \/ evm[addr] = 1 \/ currentLcdBalance.amount = 1
=============================================================================
