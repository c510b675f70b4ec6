--------------------------- MODULE StorageAuditMC ---------------------------
(***************************************************************************)
(* Small instances of StorageAudit: slot s starts with provider s + 1.     *)
(***************************************************************************)
EXTENDS StorageAudit

Content(r, m) == [root |-> r, mdus |-> m, witness |-> 1]

\* A commit, a growth under the same root, and a new root.
ContentsABC == {Content("a", 1), Content("a", 2), Content("b", 2)}

\* One content, of two MDUs.
ContentsOne == {Content("a", 2)}

SlotOrder == [s \in Slots |-> s + 1]

=============================================================================
