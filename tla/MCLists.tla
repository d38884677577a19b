------------------------------ MODULE MCLists ------------------------------
(* Lists for TLC: two plans, as in entitlements.go, of two and three cards. *)
EXTENDS Lists

MCLimits == [p \in Plans |->
               IF p = "free" THEN [lists |-> 1, tasks |-> 1, bytes |-> 2]
               ELSE [lists |-> 2, tasks |-> 3, bytes |-> 3]]

=============================================================================
