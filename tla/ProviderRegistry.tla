-------------------------- MODULE ProviderRegistry --------------------------
(***************************************************************************)
(* The chain's record of which operator wallet runs which storage          *)
(* provider: open link requests, confirmed pairings with their index by    *)
(* operator, and the registered public endpoint.  The provider host acts   *)
(* with the provider's key (request, cancel, unpair, register); the        *)
(* operator acts with the browser wallet (approve, unpair).  The wallet's  *)
(* connected account is here as well: both provider pages depend on it.    *)
(*                                                                         *)
(* A transaction that a handler refuses leaves the state as it was, so     *)
(* each handler is a guard and an effect.                                  *)
(***************************************************************************)
EXTENDS Integers, FiniteSets

CONSTANTS Providers, Operators, Bases, None,
          Paired0,           \* the pairings of the genesis state
          Endpoint0,         \* the endpoints of the genesis state
          MaxHeight          \* bound: blocks that carry a link or a pairing
RegistryAssumption ==
  /\ None \notin Providers \cup Operators \cup Bases
  /\ Paired0 \in [Providers -> Operators \cup {None}]
  /\ Endpoint0 \in [Providers -> Bases \cup {None}]
  /\ MaxHeight \in Nat

VARIABLES height,      \* block height, advanced by each link transaction
          pending,     \* provider -> open link request or None
          pairing,     \* provider -> confirmed pairing or None
          byOperator,  \* index: <<operator, provider>>
          endpoint,    \* provider -> registered endpoint or None
          account,     \* the account connected in the browser or None
          wish         \* ghost: provider -> operator its host last asked for
chain == <<height, pending, pairing, byOperator, endpoint, wish>>

Link == [operator : Operators, height : 0..MaxHeight]

(* Every variable keeps its type.                                          *)
RegistryTypeOK ==
  /\ height \in 0..MaxHeight
  /\ pending \in [Providers -> Link \cup {None}]
  /\ pairing \in [Providers -> Link \cup {None}]
  /\ byOperator \subseteq Operators \X Providers
  /\ endpoint \in [Providers -> Bases \cup {None}]
  /\ account \in Operators \cup {None}
  /\ wish \in [Providers -> Operators \cup {None}]

RegistryInit ==
  /\ height = 0
  /\ pending = [p \in Providers |-> None]
  /\ pairing = [p \in Providers |-> IF Paired0[p] = None THEN None
                                   ELSE [operator |-> Paired0[p], height |-> 0]]
  /\ byOperator = {<<Paired0[p], p>> : p \in {q \in Providers : Paired0[q] # None}}
  /\ endpoint = Endpoint0
  /\ account \in Operators \cup {None}
  /\ wish = Paired0

-----------------------------------------------------------------------------
(* Message handlers.                                                       *)

(* Overwrites an earlier request of the same provider. *)
RequestProviderLink(p, o) ==
  /\ pairing[p] = None
  /\ height < MaxHeight
  /\ height' = height + 1
  /\ pending' = [pending EXCEPT ![p] = [operator |-> o, height |-> height]]
  /\ wish' = [wish EXCEPT ![p] = o]
  /\ UNCHANGED <<pairing, byOperator, endpoint>>

CancelProviderLink(p) ==
  /\ pending[p] # None
  /\ pending' = [pending EXCEPT ![p] = None]
  /\ wish' = [wish EXCEPT ![p] = None]
  /\ UNCHANGED <<height, pairing, byOperator, endpoint>>

(* Fault: the approver need not be the operator that was asked for. *)
MayApproveAny(o, p) ==
  /\ pairing[p] = None
  /\ pending[p] # None
  /\ height < MaxHeight

MayApprove(o, p) ==
  /\ pairing[p] = None
  /\ pending[p] # None
  /\ pending[p].operator = o
  /\ height < MaxHeight

ApproveProviderLink(o, p) ==
  /\ MayApprove(o, p)
  /\ height' = height + 1
  /\ pairing' = [pairing EXCEPT ![p] = [operator |-> o, height |-> height]]
  /\ byOperator' = byOperator \cup {<<o, p>>}
  /\ pending' = [pending EXCEPT ![p] = None]
  /\ UNCHANGED <<endpoint, wish>>

(* creator: the operator wallet, or the provider's own key. *)
MayUnpair(creator, p) ==
  /\ pairing[p] # None
  /\ creator \in {pairing[p].operator, p}

UnpairProvider(creator, p) ==
  /\ MayUnpair(creator, p)
  /\ pairing' = [pairing EXCEPT ![p] = None]
  /\ byOperator' = byOperator \ {<<pairing[p].operator, p>>}
  /\ wish' = [wish EXCEPT ![p] = None]
  /\ UNCHANGED <<height, pending, endpoint>>

(* First registration. *)
RegisterProvider(p, b) ==
  /\ endpoint[p] = None
  /\ endpoint' = [endpoint EXCEPT ![p] = b]
  /\ UNCHANGED <<height, pending, pairing, byOperator, wish>>

(* Every later change of the endpoint. *)
UpdateProviderEndpoints(p, b) ==
  /\ endpoint[p] # None
  /\ endpoint' = [endpoint EXCEPT ![p] = b]
  /\ UNCHANGED <<height, pending, pairing, byOperator, wish>>

-----------------------------------------------------------------------------
(* Queries of the LCD.                                                     *)

PendingLinksOf(o) ==
  {[provider |-> p, operator |-> pending[p].operator, height |-> pending[p].height] :
     p \in {q \in Providers : pending[q] # None /\ pending[q].operator = o}}

(* The index finds the providers; the pairing supplies the record. *)
ProvidersByOperator(o) ==
  {[provider |-> p, operator |-> pairing[p].operator, height |-> pairing[p].height] :
     p \in {q \in Providers : <<o, q>> \in byOperator /\ pairing[q] # None}}

-----------------------------------------------------------------------------

-----------------------------------------------------------------------------
(* A pairing is never one-sided: the operator of a confirmed pairing is    *)
(* the one the provider's host last asked for, whatever requests were      *)
(* replaced, cancelled or approved late (RequestProviderLink refuses a     *)
(* paired provider and ApproveProviderLink the wrong operator), and the    *)
(* by-operator index the pages query lists exactly the pairings.           *)
PairingWasWanted ==
  /\ \A p \in Providers : pairing[p] # None => pairing[p].operator = wish[p]
  /\ byOperator =
       {<<pairing[p].operator, p>> : p \in {q \in Providers : pairing[q] # None}}
=============================================================================
