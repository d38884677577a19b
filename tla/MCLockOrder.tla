----------------------------- MODULE MCLockOrder ----------------------------
(* LockOrder for TLC: two lists, the first with a card and its subtask.    *)
EXTENDS LockOrder, TLC

CONSTANTS l1, l2, c1, c2, a1

MCHomeOf == (c1 :> l1) @@ (c2 :> l1)
MCParentOf == (c1 :> NoCard) @@ (c2 :> c1)
MCAssigneeOf == [c \in Cards |-> a1]

=============================================================================
