---------------------------- MODULE MCRateLimit ----------------------------
(* RateLimit for TLC: a session and a token of one account.                *)
EXTENDS RateLimit

\* A request with the token alone is like one with the session alone.
MCCarried == {<<k>> : k \in Sessions} \cup (Sessions \X Bearers)

MCAccountOf == [k \in Credentials |-> CHOOSE a \in Accounts : TRUE]

Symmetric == Permutations(Requests)

=============================================================================
