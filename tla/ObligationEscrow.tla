-------------------------- MODULE ObligationEscrow --------------------------
(***************************************************************************)
(* What the payment of retrieval sessions promises, without windows,       *)
(* challenges or acknowledgements: obligations are funded in full at the   *)
(* price agreed then, and each is afterwards either paid out or returned,  *)
(* once and in full.  RetrievalSessionV3 implements it.                    *)
(***************************************************************************)
EXTENDS Integers, Functions

CONSTANT Obligations   \* <<session, slot>>

VARIABLES
    due,       \* the fee agreed for each obligation; 0 before it is funded
    open,      \* funded and not yet resolved
    paid,      \* paid out to the provider (and burned in part)
    returned,  \* given back to the payer
    held       \* what the escrow holds

escrowVars == <<due, open, paid, returned, held>>

Due(O) == SumFunctionOnSet(due, O)
Untouched == Obligations \ (open \cup paid \cup returned)

Init ==
    /\ due = [o \in Obligations |-> 0]
    /\ open = {} /\ paid = {} /\ returned = {}
    /\ held = 0

\* Opening a session funds all its obligations.
Fund ==
    /\ open' # open /\ open \subseteq open'
    /\ open' \ open \subseteq Untouched
    /\ \A o \in Obligations : o \notin open' \ open => due'[o] = due[o]
    /\ held' = held + SumFunctionOnSet(due', open' \ open)
    /\ UNCHANGED <<paid, returned>>

\* Settlement pays some open obligations; a batch pays several.
Pay ==
    /\ paid' # paid /\ paid \subseteq paid'
    /\ paid' \ paid \subseteq open
    /\ open' = open \ paid'
    /\ held' = held - Due(paid' \ paid)
    /\ UNCHANGED <<due, returned>>

\* A refund returns open obligations.
Return ==
    /\ returned' # returned /\ returned \subseteq returned'
    /\ returned' \ returned \subseteq open
    /\ open' = open \ returned'
    /\ held' = held - Due(returned' \ returned)
    /\ UNCHANGED <<due, paid>>

Next == Fund \/ Pay \/ Return

Spec == Init /\ [][Next]_escrowVars
=============================================================================
