--------------------------- MODULE MCCredentials ---------------------------
(* Credentials for TLC.                                                    *)
EXTENDS Credentials, TLC

Symmetric == Permutations(Requests) \cup Permutations(Tokens) \cup Permutations(Agents)
             \cup Permutations(Keys) \cup Permutations(Creds)

=============================================================================
