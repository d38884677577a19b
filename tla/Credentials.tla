---------------------------- MODULE Credentials ----------------------------
(***************************************************************************)
(* The credentials of one member: browser session, API tokens, agents and  *)
(* their credentials (server/internal/auth/auth.go, pgstore.go;            *)
(* server/internal/agents/handler.go, store.go; server/app.go session).    *)
(*                                                                         *)
(* Every one of these operations needs a session.  A request is            *)
(* authenticated first and does its work later: the account may have been  *)
(* disabled in between.  A transaction with several statements is several  *)
(* actions, and holds its row and advisory locks from one to the next;     *)
(* what it writes is seen when it commits.  The unique indexes of the      *)
(* schema (one live credential per agent, one rotation per key) are left   *)
(* out: the locks alone must see to it.                                    *)
(***************************************************************************)
EXTENDS Integers, FiniteSets

CONSTANTS
  Requests, Tokens, Agents, Keys,
  Creds,                   \* bound: credentials that exist at once
  TokenLimit, AgentLimit,  \* the plan's limits
  Nobody, Operator, None

ASSUME CredentialAssumptions ==
  /\ TokenLimit \in Nat /\ AgentLimit \in Nat
  /\ Nobody \notin Requests \cup {Operator} /\ Operator \notin Requests
  /\ None \notin Agents \cup Keys \cup Creds \cup Tokens

VARIABLES
  disabled,    \* users.disabled_at
  session,     \* whether the member has a session
  tokens,      \* api_tokens that are not revoked
  agents,      \* agents
  creds,       \* [Creds -> None, or [agent, live, key, late]]: agent_credentials
  rotations,   \* [Keys -> Creds \cup {None}]: agent_credential_rotations
  requests,    \* [Requests -> [pc, op, agent, key]]
  userLock,    \* who holds the users row
  snapshot     \* None, or the credentials the operator's last statement found live

vars == <<disabled, session, tokens, agents, creds, rotations, requests, userLock, snapshot>>

\* late: made after a disabling of the account had looked for credentials.
Credential == [agent : Agents, live : BOOLEAN, key : Keys \cup {None}, late : BOOLEAN]

ASSUME NoneIsNoCredential == None \notin Credential

Idle == [pc |-> "idle", op |-> None, agent |-> None, key |-> None]
Ops == {"CreateAPIToken", "CreateAgent", "RotateCredential"}

TypeOK ==
  /\ disabled \in BOOLEAN /\ session \in BOOLEAN
  /\ tokens \subseteq Tokens /\ agents \subseteq Agents
  /\ creds \in [Creds -> Credential \cup {None}]
  /\ rotations \in [Keys -> Creds \cup {None}]
  /\ requests \in [Requests -> [pc : {"idle", "ready", "insert", "agent", "commit"}, op : Ops \cup {None},
                                agent : Agents \cup {None}, key : Keys \cup {None}]]
  /\ userLock \in Requests \cup {Nobody, Operator}
  /\ snapshot = None \/ snapshot \subseteq Creds

Init ==
  /\ disabled = FALSE /\ session = FALSE /\ tokens = {} /\ agents = {}
  /\ creds = [c \in Creds |-> None]
  /\ rotations = [k \in Keys |-> None]
  /\ requests = [q \in Requests |-> Idle]
  /\ userLock = Nobody /\ snapshot = None

LiveOf(a) == {c \in Creds : creds[c] # None /\ creds[c].agent = a /\ creds[c].live}
AgentLocked(a) == \E q \in Requests : requests[q].pc = "commit" /\ requests[q].agent = a

-----------------------------------------------------------------------------
(* Signing in, and what a session may do.                                   *)

\* Login, registration (see PasswordReset), logout, expiry.
SessionChanges ==
  /\ IF session THEN TRUE ELSE ~disabled /\ userLock = Nobody
  /\ session' = ~session
  /\ UNCHANGED <<disabled, tokens, agents, creds, rotations, requests, userLock, snapshot>>

\* a.session: FindUserBySessionHash.
Authenticate(q, op, a, k) ==
  /\ requests[q] = Idle
  /\ session /\ ~disabled
  /\ requests' = [requests EXCEPT ![q] = [pc |-> "ready", op |-> op, agent |-> a, key |-> k]]
  /\ UNCHANGED <<disabled, session, tokens, agents, creds, rotations, userLock, snapshot>>

Done(q) == requests' = [requests EXCEPT ![q] = Idle]

\* Fault: the account's row is read and not locked.
AccountLockNone(q) == Nobody

\* resolvedEntitlementForLockedUser locks the account ...
AccountLock(q) == q

\* Fault: the account as it was authenticated.
AccountActiveAsRead(q) == TRUE

\* ... if it is still enabled.
AccountActive(q) == ~disabled

Room(op) == IF op = "CreateAPIToken" THEN Cardinality(tokens) < TokenLimit
                                     ELSE Cardinality(agents) < AgentLimit

\* CreateAPIToken, CreateAgent: lock, count ...
CountFirst(q) ==
  /\ requests[q].pc = "ready" /\ requests[q].op \in {"CreateAPIToken", "CreateAgent"}
  /\ userLock = Nobody
  /\ IF AccountActive(q) /\ Room(requests[q].op)
     THEN userLock' = AccountLock(q) /\ requests' = [requests EXCEPT ![q].pc = "insert"]
     ELSE Done(q) /\ UNCHANGED userLock
  /\ UNCHANGED <<disabled, session, tokens, agents, creds, rotations, snapshot>>

NewCred(a, k, late) == [agent |-> a, live |-> TRUE, key |-> k, late |-> late]

\* ... and insert.
InsertToken(q) ==
  /\ requests[q].pc = "insert" /\ requests[q].op = "CreateAPIToken"
  /\ \E t \in Tokens \ tokens : tokens' = tokens \cup {t}
  /\ userLock' = IF userLock = q THEN Nobody ELSE userLock
  /\ Done(q)
  /\ UNCHANGED <<disabled, session, agents, creds, rotations, snapshot>>

InsertAgent(q) ==
  /\ requests[q].pc = "insert" /\ requests[q].op = "CreateAgent"
  /\ \E a \in Agents \ agents : \E c \in {d \in Creds : creds[d] = None} :
       /\ agents' = agents \cup {a}
       /\ creds' = [creds EXCEPT ![c] = NewCred(a, None, FALSE)]
  /\ userLock' = IF userLock = q THEN Nobody ELSE userLock
  /\ Done(q)
  /\ UNCHANGED <<disabled, session, tokens, rotations, snapshot>>

\* The request ends without a result: its name is taken, or the database fails.
Fails(q) ==
  /\ requests[q] # Idle
  /\ userLock' = IF userLock = q THEN Nobody ELSE userLock
  /\ Done(q)
  /\ UNCHANGED <<disabled, session, tokens, agents, creds, rotations, snapshot>>

\* RevokeAPIToken.
RevokeAPIToken(t) ==
  /\ t \in tokens
  /\ tokens' = tokens \ {t}
  /\ UNCHANGED <<disabled, session, agents, creds, rotations, requests, userLock, snapshot>>

-----------------------------------------------------------------------------
(* An agent's credential.                                                   *)

\* Fault: nothing holds a key.
KeyFreeAlways(q, k) == TRUE

\* The advisory lock on the rotation's key.
KeyFree(q, k) == \A p \in Requests \ {q} : requests[p].key # k \/ requests[p].pc \notin {"agent", "commit"}

\* RotateCredential: a key that was used answers what it made, or is refused for
\* another agent.
LookUpRotation(q) ==
  LET k == requests[q].key IN
  /\ requests[q].pc = "ready" /\ requests[q].op = "RotateCredential"
  /\ KeyFree(q, k)
  /\ IF rotations[k] # None THEN Done(q) ELSE requests' = [requests EXCEPT ![q].pc = "agent"]
  /\ UNCHANGED <<disabled, session, tokens, agents, creds, rotations, userLock, snapshot>>

\* The agent's row is locked.  The account's is not looked at.
LockAgent(q) ==
  LET a == requests[q].agent IN
  /\ requests[q].pc = "agent" /\ ~AgentLocked(a)
  /\ IF a \in agents THEN requests' = [requests EXCEPT ![q].pc = "commit"] ELSE Done(q)
  /\ UNCHANGED <<disabled, session, tokens, agents, creds, rotations, userLock, snapshot>>

Revoked(S) == [c \in Creds |-> IF c \in S THEN [creds[c] EXCEPT !.live = FALSE] ELSE creds[c]]

\* Fault: the credential in use is replaced and not revoked.
RotatedKeepsOld(a, c, new) == [creds EXCEPT ![c] = new]

\* What was live is revoked, and a new credential made.
Rotated(a, c, new) == [Revoked(LiveOf(a)) EXCEPT ![c] = new]

CommitRotation(q) ==
  LET a == requests[q].agent
      k == requests[q].key
  IN  /\ requests[q].pc = "commit"
      /\ \E c \in {d \in Creds : creds[d] = None} :
           /\ creds' = Rotated(a, c, NewCred(a, k, disabled \/ snapshot # None))
           /\ rotations' = [rotations EXCEPT ![k] = c]
      /\ Done(q)
      /\ UNCHANGED <<disabled, session, tokens, agents, userLock, snapshot>>

\* RevokeCredential.
RevokeCredential(a) ==
  /\ a \in agents /\ ~AgentLocked(a) /\ LiveOf(a) # {}
  /\ creds' = Revoked(LiveOf(a))
  /\ UNCHANGED <<disabled, session, tokens, agents, rotations, requests, userLock, snapshot>>

\* Rows go, and rotations that name them.
Without(S) ==
  /\ creds' = [c \in Creds |-> IF c \in S THEN None ELSE creds[c]]
  /\ rotations' = [k \in Keys |-> IF rotations[k] \in S THEN None ELSE rotations[k]]

\* DeleteAgent, and what goes with it by foreign key.
DeleteAgent(a) ==
  /\ a \in agents /\ ~AgentLocked(a)
  /\ agents' = agents \ {a}
  /\ Without({c \in Creds : creds[c] # None /\ creds[c].agent = a})
  /\ UNCHANGED <<disabled, session, tokens, requests, userLock, snapshot>>

\* Retention: a credential 30 days after its revocation, a rotation after 7 days
\* (its key may then be used again).
PurgeCredential(c) ==
  /\ creds[c] # None /\ ~creds[c].live /\ ~AgentLocked(creds[c].agent)
  /\ Without({c})
  /\ UNCHANGED <<disabled, session, tokens, agents, requests, userLock, snapshot>>

PurgeRotation(k) ==
  /\ rotations[k] # None
  /\ creds' = [creds EXCEPT ![rotations[k]].key = None]
  /\ rotations' = [rotations EXCEPT ![k] = None]
  /\ UNCHANGED <<disabled, session, tokens, agents, requests, userLock, snapshot>>

-----------------------------------------------------------------------------
(* The operator: SetMemberDisabled.                                         *)

\* The account's row is updated.  Sessions and API tokens go next: no other
\* transaction can add one while that row is locked.
BeginDisable ==
  /\ ~disabled /\ userLock = Nobody
  /\ userLock' = Operator
  /\ UNCHANGED <<disabled, session, tokens, agents, creds, rotations, requests, snapshot>>

\* The last statement finds the credentials that are live when it starts.
FindCredentials ==
  /\ userLock = Operator /\ snapshot = None
  /\ snapshot' = UNION {LiveOf(a) : a \in Agents}
  /\ UNCHANGED <<disabled, session, tokens, agents, creds, rotations, requests, userLock>>

\* It waits for rotations that hold one of them; one that was revoked since is
\* left alone, one that was made since is not seen.
CommitDisable ==
  /\ userLock = Operator /\ snapshot # None
  /\ \A c \in snapshot : creds[c] # None => ~AgentLocked(creds[c].agent)
  /\ disabled' = TRUE /\ session' = FALSE /\ tokens' = {}
  /\ creds' = Revoked({c \in snapshot : creds[c] # None})
  /\ userLock' = Nobody /\ snapshot' = None
  /\ UNCHANGED <<agents, rotations, requests>>

Enable ==
  /\ disabled /\ userLock = Nobody
  /\ disabled' = FALSE
  /\ UNCHANGED <<session, tokens, agents, creds, rotations, requests, userLock, snapshot>>

Next ==
  \/ SessionChanges
  \/ \E q \in Requests :
       \/ \E op \in {"CreateAPIToken", "CreateAgent"} : Authenticate(q, op, None, None)
       \/ \E a \in Agents, k \in Keys : Authenticate(q, "RotateCredential", a, k)
       \/ CountFirst(q) \/ InsertToken(q) \/ InsertAgent(q) \/ Fails(q)
       \/ LookUpRotation(q) \/ LockAgent(q) \/ CommitRotation(q)
  \/ \E t \in Tokens : RevokeAPIToken(t)
  \/ \E a \in Agents : RevokeCredential(a) \/ DeleteAgent(a)
  \/ \E c \in Creds : PurgeCredential(c)
  \/ \E k \in Keys : PurgeRotation(k)
  \/ BeginDisable \/ FindCredentials \/ CommitDisable \/ Enable

Spec == Init /\ [][Next]_vars

-----------------------------------------------------------------------------
(* What holds.                                                              *)

\* An agent never has two credentials that work, however rotations, revocations
\* and a disabling of the account interleave.
OneLiveCredential == \A a \in Agents : Cardinality(LiveOf(a)) <= 1

\* A rotation is applied once per key: requests repeated or sent twice at once
\* never make a second credential while the first rotation is remembered.
OneRotationPerKey ==
  \A c, d \in Creds :
    creds[c] # None /\ creds[d] # None /\ creds[c].key # None /\ creds[c].key = creds[d].key => c = d

\* Disabling a member leaves no session and no API token, not even one whose
\* creation was authenticated before; and no agent's credential either, except
\* one from a rotation that committed after the disabling looked for them.
DisablingRevokes ==
  disabled => /\ ~session /\ tokens = {}
              /\ \A a \in Agents : \A c \in LiveOf(a) : creds[c].late

\* Requests that come at once do not exceed the plan's limits.
LimitsHold == Cardinality(tokens) <= TokenLimit /\ Cardinality(agents) <= AgentLimit

=============================================================================
