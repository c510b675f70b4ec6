-------------------------- MODULE DealGenerationMC --------------------------
(***************************************************************************)
(* A small instance of DealGenerationV3: slot s starts with provider s + 1.*)
(***************************************************************************)
EXTENDS DealGenerationV3

\* Two roots; the witness may grow from one generation to the next.
ContentsAB == {[root |-> "a", mdus |-> 1, witness |-> 1],
               [root |-> "b", mdus |-> 1, witness |-> 1],
               [root |-> "b", mdus |-> 1, witness |-> 2]}

\* Two roots of one size.
ContentsRoots == {[root |-> r, mdus |-> 1, witness |-> 1] : r \in {"a", "b"}}

SlotOrder == [s \in Slots |-> s + 1]

=============================================================================
