------------------------- MODULE Credentials_proofs -------------------------
(***************************************************************************)
(* What the locks of the credential operations guarantee, for any number   *)
(* of requests, tokens, agents, keys and credentials and any limits.       *)
(***************************************************************************)
EXTENDS Credentials, FiniteSetTheorems, TLAPS

Live(c) == creds[c] # None /\ creds[c].live

\* The plan's limits, which count finite sets.
Counted ==
  /\ IsFiniteSet(tokens) /\ IsFiniteSet(agents)
  /\ LimitsHold

\* A request that has counted holds the account's row, so that what it counted
\* and the account's state still hold when it inserts.
Inserting ==
  \A q \in Requests : requests[q].pc = "insert" =>
    /\ userLock = q /\ ~disabled
    /\ requests[q].op \in {"CreateAPIToken", "CreateAgent"}
    /\ Room(requests[q].op)

\* A rotation under way: it names an agent and a key, and while it holds the key
\* nobody has used it; while it holds the agent's row the agent exists.
Rotating ==
  \A q \in Requests : requests[q].pc \in {"agent", "commit"} =>
    /\ requests[q].agent \in Agents /\ requests[q].key \in Keys
    /\ rotations[requests[q].key] = None
    /\ requests[q].pc = "commit" => requests[q].agent \in agents

Prepared ==
  \A q \in Requests : requests[q].pc = "ready" /\ requests[q].op = "RotateCredential" =>
    requests[q].agent \in Agents /\ requests[q].key \in Keys

\* The advisory lock on a key has one holder.
KeyHeld ==
  \A p, q \in Requests :
    /\ requests[p].pc \in {"agent", "commit"} /\ requests[q].pc \in {"agent", "commit"}
    /\ requests[p].key = requests[q].key
    => p = q

\* A credential belongs to an agent that exists.
Owned == \A c \in Creds : creds[c] # None => creds[c].agent \in agents

\* A remembered rotation and the credential it made name each other.
Linked ==
  /\ \A k \in Keys : rotations[k] # None =>
       creds[rotations[k]] # None /\ creds[rotations[k]].key = k
  /\ \A c \in Creds : creds[c] # None /\ creds[c].key # None => rotations[creds[c].key] = c

Single == \A c, d \in Creds : Live(c) /\ Live(d) /\ creds[c].agent = creds[d].agent => c = d

\* The operator holds the account's row from its first statement to its commit,
\* and what its last statement has not found was made after it.
Shut ==
  /\ userLock = Operator => ~disabled
  /\ snapshot # None => userLock = Operator
  /\ snapshot # None => \A c \in Creds : Live(c) /\ c \notin snapshot => creds[c].late
  /\ disabled => ~session /\ tokens = {} /\ \A c \in Creds : Live(c) => creds[c].late

\* The inductive invariant.
IInv == /\ TypeOK /\ Counted /\ Inserting /\ Rotating /\ Prepared
        /\ KeyHeld /\ Owned /\ Linked /\ Single /\ Shut

-----------------------------------------------------------------------------
(* What the assignments of the actions do.                                  *)

\* A request that ends, or moves on.
LEMMA DoneEnds ==
  ASSUME TypeOK, NEW q \in Requests, Done(q)
  PROVE  /\ requests' \in [Requests -> [pc : {"idle", "ready", "insert", "agent", "commit"},
                                        op : Ops \cup {None}, agent : Agents \cup {None},
                                        key : Keys \cup {None}]]
         /\ requests'[q].pc = "idle"
         /\ \A p \in Requests \ {q} : requests'[p] = requests[p]
BY DEF TypeOK, Done, Idle

LEMMA RequestMoves ==
  ASSUME TypeOK, NEW q \in Requests, NEW pc \in {"insert", "agent", "commit"},
         requests' = [requests EXCEPT ![q].pc = pc]
  PROVE  /\ requests' \in [Requests -> [pc : {"idle", "ready", "insert", "agent", "commit"},
                                        op : Ops \cup {None}, agent : Agents \cup {None},
                                        key : Keys \cup {None}]]
         /\ requests'[q].pc = pc /\ requests'[q].op = requests[q].op
         /\ requests'[q].agent = requests[q].agent /\ requests'[q].key = requests[q].key
         /\ \A p \in Requests \ {q} : requests'[p] = requests[p]
BY DEF TypeOK

\* Credentials that are revoked keep everything but their life.
LEMMA RevokedRows ==
  ASSUME TypeOK, NEW S, \A c \in S : c \in Creds => creds[c] # None
  PROVE  /\ Revoked(S) \in [Creds -> Credential \cup {None}]
         /\ \A c \in Creds :
              /\ Revoked(S)[c] # None <=> creds[c] # None
              /\ c \notin S => Revoked(S)[c] = creds[c]
              /\ c \in S => /\ Revoked(S)[c].agent = creds[c].agent
                            /\ Revoked(S)[c].key = creds[c].key
                            /\ Revoked(S)[c].late = creds[c].late
                            /\ ~Revoked(S)[c].live
<1> SUFFICES ASSUME NEW c \in Creds
             PROVE  /\ Revoked(S)[c] \in Credential \cup {None}
                    /\ Revoked(S)[c] # None <=> creds[c] # None
                    /\ c \notin S => Revoked(S)[c] = creds[c]
                    /\ c \in S => /\ Revoked(S)[c].agent = creds[c].agent
                                  /\ Revoked(S)[c].key = creds[c].key
                                  /\ Revoked(S)[c].late = creds[c].late
                                  /\ ~Revoked(S)[c].live
  BY DEF Revoked
<1>1. creds[c] \in Credential \cup {None}
  BY DEF TypeOK
<1>2. CASE c \notin S
  BY <1>1, <1>2 DEF Revoked
<1>3. CASE c \in S
  <2>1. creds[c] \in Credential /\ Revoked(S)[c] = [creds[c] EXCEPT !.live = FALSE]
    BY <1>1, <1>3 DEF Revoked
  <2>2. Revoked(S)[c] \in Credential
    BY <2>1 DEF Credential
  <2>3. Revoked(S)[c] # None
    BY <2>2, NoneIsNoCredential
  <2> QED
    BY <1>3, <2>1, <2>2, <2>3 DEF Credential
<1> QED
  BY <1>2, <1>3

\* Steps that revoke leave every part about credentials as it was.
LEMMA RevokingKeeps ==
  ASSUME TypeOK, Owned, Linked, Single, NEW S, \A c \in S : c \in Creds => creds[c] # None,
         creds' = Revoked(S), agents' = agents, rotations' = rotations
  PROVE  /\ creds' \in [Creds -> Credential \cup {None}]
         /\ Owned' /\ Linked' /\ Single'
         /\ \A c \in Creds : Live(c)' => Live(c) /\ c \notin S /\ creds'[c] = creds[c]
<1>1. /\ creds' \in [Creds -> Credential \cup {None}]
      /\ \A c \in Creds :
           /\ creds'[c] # None <=> creds[c] # None
           /\ creds[c] # None => /\ creds'[c].agent = creds[c].agent
                                 /\ creds'[c].key = creds[c].key
           /\ c \in S => ~creds'[c].live
           /\ c \notin S => creds'[c] = creds[c]
  BY RevokedRows
<1>2. Owned'
  BY <1>1 DEF Owned
<1>3. Linked'
  BY <1>1 DEF Linked, TypeOK
<1>4. \A c \in Creds : Live(c)' => Live(c) /\ c \notin S /\ creds'[c] = creds[c]
  BY <1>1 DEF Live
<1>5. Single'
  BY <1>4 DEF Single
<1> QED
  BY <1>1, <1>2, <1>3, <1>4, <1>5

-----------------------------------------------------------------------------
(* Sessions, tokens and new agents.                                         *)

LEMMA SessionChangesKeeps ==
  ASSUME IInv, SessionChanges
  PROVE  IInv'
<1>1. /\ TypeOK /\ Counted /\ Inserting /\ Rotating /\ Prepared
      /\ KeyHeld /\ Owned /\ Linked /\ Single /\ Shut
  BY DEF IInv
<1>2. session' \in BOOLEAN
  BY DEF SessionChanges
<1>3. TypeOK'
  BY <1>1, <1>2 DEF SessionChanges, TypeOK
<1>4. Shut'
  BY <1>1 DEF SessionChanges, Shut, Live
<1> QED
  BY <1>1, <1>3, <1>4 DEF SessionChanges, IInv, Counted, LimitsHold, Inserting, Room, Rotating, Prepared,
     KeyHeld, Owned, Linked, Single, Live

LEMMA AuthenticateKeeps ==
  ASSUME IInv, NEW q \in Requests, NEW op \in Ops, NEW a \in Agents \cup {None},
         NEW k \in Keys \cup {None}, op = "RotateCredential" => a \in Agents /\ k \in Keys,
         Authenticate(q, op, a, k)
  PROVE  IInv'
<1>1. /\ TypeOK /\ Counted /\ Inserting /\ Rotating /\ Prepared
      /\ KeyHeld /\ Owned /\ Linked /\ Single /\ Shut
  BY DEF IInv
<1>2. /\ requests' \in [Requests -> [pc : {"idle", "ready", "insert", "agent", "commit"},
                                     op : Ops \cup {None}, agent : Agents \cup {None},
                                     key : Keys \cup {None}]]
      /\ requests'[q].pc = "ready" /\ requests'[q].op = op
      /\ requests'[q].agent = a /\ requests'[q].key = k
      /\ \A p \in Requests \ {q} : requests'[p] = requests[p]
  BY <1>1 DEF Authenticate, TypeOK
<1>3. TypeOK'
  BY <1>1, <1>2 DEF Authenticate, TypeOK
<1>4. Inserting'
  BY <1>1, <1>2 DEF Authenticate, Inserting, Room
<1>5. Rotating' /\ Prepared' /\ KeyHeld'
  BY <1>1, <1>2 DEF Authenticate, Rotating, Prepared, KeyHeld
<1> QED
  BY <1>1, <1>3, <1>4, <1>5 DEF Authenticate, IInv, Counted, LimitsHold, Owned, Linked, Single, Shut, Live

LEMMA CountFirstKeeps ==
  ASSUME IInv, NEW q \in Requests, CountFirst(q)
  PROVE  IInv'
<1>1. /\ TypeOK /\ Counted /\ Inserting /\ Rotating /\ Prepared
      /\ KeyHeld /\ Owned /\ Linked /\ Single /\ Shut
  BY DEF IInv
<1>2. \A p \in Requests : requests[p].pc # "insert"
  BY <1>1, CredentialAssumptions DEF CountFirst, Inserting
<1>3. CASE Done(q) /\ UNCHANGED userLock
  <2>1. /\ requests' \in [Requests -> [pc : {"idle", "ready", "insert", "agent", "commit"},
                                       op : Ops \cup {None}, agent : Agents \cup {None},
                                       key : Keys \cup {None}]]
        /\ requests'[q].pc = "idle"
        /\ \A p \in Requests \ {q} : requests'[p] = requests[p]
    BY <1>1, <1>3, DoneEnds
  <2>2. TypeOK'
    BY <1>1, <1>3, <2>1 DEF CountFirst, TypeOK
  <2>3. Inserting' /\ Rotating' /\ Prepared' /\ KeyHeld'
    BY <1>1, <1>2, <2>1 DEF CountFirst, Inserting, Rotating, Prepared, KeyHeld
  <2> QED
    BY <1>1, <1>3, <2>2, <2>3 DEF CountFirst, IInv, Counted, LimitsHold, Owned, Linked, Single, Shut, Live
<1>4. CASE /\ ~disabled /\ Room(requests[q].op)
           /\ userLock' = q /\ requests' = [requests EXCEPT ![q].pc = "insert"]
  <2>1. /\ requests' \in [Requests -> [pc : {"idle", "ready", "insert", "agent", "commit"},
                                       op : Ops \cup {None}, agent : Agents \cup {None},
                                       key : Keys \cup {None}]]
        /\ requests'[q].pc = "insert" /\ requests'[q].op = requests[q].op
        /\ \A p \in Requests \ {q} : requests'[p] = requests[p]
    BY <1>1, <1>4, RequestMoves
  <2>2. TypeOK'
    BY <1>1, <1>4, <2>1 DEF CountFirst, TypeOK
  <2>3. Inserting'
    BY <1>2, <1>4, <2>1 DEF CountFirst, Inserting, Room
  <2>4. Rotating' /\ Prepared' /\ KeyHeld'
    BY <1>1, <2>1 DEF CountFirst, Rotating, Prepared, KeyHeld
  <2>5. Shut'
    BY <1>1, <1>4, CredentialAssumptions DEF CountFirst, Shut, Live
  <2> QED
    BY <1>1, <2>2, <2>3, <2>4, <2>5 DEF CountFirst, IInv, Counted, LimitsHold, Owned, Linked, Single, Live
<1> QED
  BY <1>3, <1>4 DEF CountFirst, AccountActive, AccountLock

\* A member more, while there is room.
LEMMA OneMore ==
  ASSUME NEW S, IsFiniteSet(S), NEW x, NEW limit \in Nat, Cardinality(S) < limit
  PROVE  IsFiniteSet(S \cup {x}) /\ Cardinality(S \cup {x}) <= limit
<1>1. IsFiniteSet(S \cup {x}) /\ Cardinality(S) \in Nat
      /\ Cardinality(S \cup {x}) = IF x \in S THEN Cardinality(S) ELSE Cardinality(S) + 1
  BY FS_AddElement, FS_CardinalityType
<1> QED
  BY <1>1

LEMMA InsertTokenKeeps ==
  ASSUME IInv, NEW q \in Requests, InsertToken(q)
  PROVE  IInv'
<1>1. /\ TypeOK /\ Counted /\ Inserting /\ Rotating /\ Prepared
      /\ KeyHeld /\ Owned /\ Linked /\ Single /\ Shut
  BY DEF IInv
<1>2. userLock = q /\ ~disabled /\ Room(requests[q].op) /\ snapshot = None
  BY <1>1, CredentialAssumptions DEF InsertToken, Inserting, Shut
<1>3. \A p \in Requests \ {q} : requests[p].pc # "insert"
  BY <1>1, <1>2 DEF Inserting
<1>4. /\ requests' \in [Requests -> [pc : {"idle", "ready", "insert", "agent", "commit"},
                                     op : Ops \cup {None}, agent : Agents \cup {None},
                                     key : Keys \cup {None}]]
      /\ requests'[q].pc = "idle"
      /\ \A p \in Requests \ {q} : requests'[p] = requests[p]
  BY <1>1, DoneEnds DEF InsertToken
<1>5. PICK t \in Tokens : tokens' = tokens \cup {t}
  BY DEF InsertToken
<1>6. TypeOK'
  BY <1>1, <1>4, <1>5 DEF InsertToken, TypeOK
<1>7. Counted'
  <2>1. Cardinality(tokens) < TokenLimit
    BY <1>2 DEF InsertToken, Room
  <2>2. IsFiniteSet(tokens') /\ Cardinality(tokens') <= TokenLimit
    BY <1>1, <1>5, <2>1, OneMore, CredentialAssumptions DEF Counted
  <2> QED
    BY <1>1, <2>2 DEF InsertToken, Counted, LimitsHold
<1>8. Inserting' /\ Rotating' /\ Prepared' /\ KeyHeld'
  BY <1>1, <1>3, <1>4 DEF InsertToken, Inserting, Rotating, Prepared, KeyHeld
<1>9. Shut'
  BY <1>1, <1>2, CredentialAssumptions DEF InsertToken, Shut, Live
<1> QED
  BY <1>1, <1>6, <1>7, <1>8, <1>9 DEF InsertToken, IInv, Owned, Linked, Single, Live

LEMMA InsertAgentKeeps ==
  ASSUME IInv, NEW q \in Requests, InsertAgent(q)
  PROVE  IInv'
<1>1. /\ TypeOK /\ Counted /\ Inserting /\ Rotating /\ Prepared
      /\ KeyHeld /\ Owned /\ Linked /\ Single /\ Shut
  BY DEF IInv
<1>2. userLock = q /\ ~disabled /\ Room(requests[q].op) /\ snapshot = None
  BY <1>1, CredentialAssumptions DEF InsertAgent, Inserting, Shut
<1>3. \A p \in Requests \ {q} : requests[p].pc # "insert"
  BY <1>1, <1>2 DEF Inserting
<1>4. /\ requests' \in [Requests -> [pc : {"idle", "ready", "insert", "agent", "commit"},
                                     op : Ops \cup {None}, agent : Agents \cup {None},
                                     key : Keys \cup {None}]]
      /\ requests'[q].pc = "idle"
      /\ \A p \in Requests \ {q} : requests'[p] = requests[p]
  BY <1>1, DoneEnds DEF InsertAgent
<1>5. PICK a \in Agents \ agents, c \in Creds :
        /\ creds[c] = None /\ agents' = agents \cup {a}
        /\ creds' = [creds EXCEPT ![c] = NewCred(a, None, FALSE)]
  BY DEF InsertAgent
<1>6. /\ creds' \in [Creds -> Credential \cup {None}]
      /\ creds'[c] # None /\ creds'[c].agent = a /\ creds'[c].key = None
      /\ \A d \in Creds \ {c} : creds'[d] = creds[d]
  <2>1. NewCred(a, None, FALSE) \in Credential
    BY DEF NewCred, Credential
  <2> QED
    BY <1>1, <1>5, <2>1, NoneIsNoCredential DEF TypeOK, NewCred
<1>7. TypeOK'
  BY <1>1, <1>4, <1>5, <1>6 DEF InsertAgent, TypeOK
<1>8. Counted'
  <2>1. Cardinality(agents) < AgentLimit
    BY <1>2 DEF InsertAgent, Room
  <2>2. IsFiniteSet(agents') /\ Cardinality(agents') <= AgentLimit
    BY <1>1, <1>5, <2>1, OneMore, CredentialAssumptions DEF Counted
  <2> QED
    BY <1>1, <2>2 DEF InsertAgent, Counted, LimitsHold
<1>9. Inserting' /\ Rotating' /\ Prepared' /\ KeyHeld'
  BY <1>1, <1>3, <1>4, <1>5 DEF InsertAgent, Inserting, Rotating, Prepared, KeyHeld
<1>10. Owned'
  BY <1>1, <1>5, <1>6 DEF Owned
<1>11. Linked'
  <2>1. \A k \in Keys : rotations[k] # None => rotations[k] \in Creds \ {c}
    BY <1>1, <1>5 DEF Linked, TypeOK
  <2>2. \A k \in Keys : rotations'[k] # None =>
          creds'[rotations'[k]] # None /\ creds'[rotations'[k]].key = k
    <3> SUFFICES ASSUME NEW k \in Keys, rotations[k] # None
                 PROVE  creds'[rotations[k]] # None /\ creds'[rotations[k]].key = k
      BY DEF InsertAgent
    <3>1. creds'[rotations[k]] = creds[rotations[k]]
      BY <1>6, <2>1
    <3> QED
      BY <1>1, <3>1 DEF Linked
  <2>3. \A d \in Creds : creds'[d] # None /\ creds'[d].key # None => rotations'[creds'[d].key] = d
    BY <1>1, <1>6 DEF InsertAgent, Linked
  <2> QED
    BY <2>2, <2>3 DEF Linked
<1>12. Single'
  <2>1. \A d \in Creds \ {c} : creds[d] # None => creds[d].agent # a
    BY <1>1, <1>5 DEF Owned
  <2> QED
    BY <1>1, <1>6, <2>1 DEF Single, Live
<1>13. Shut'
  BY <1>2, CredentialAssumptions DEF InsertAgent, Shut
<1> QED
  BY <1>7, <1>8, <1>9, <1>10, <1>11, <1>12, <1>13 DEF IInv

LEMMA FailsKeeps ==
  ASSUME IInv, NEW q \in Requests, Fails(q)
  PROVE  IInv'
<1>1. /\ TypeOK /\ Counted /\ Inserting /\ Rotating /\ Prepared
      /\ KeyHeld /\ Owned /\ Linked /\ Single /\ Shut
  BY DEF IInv
<1>2. /\ requests' \in [Requests -> [pc : {"idle", "ready", "insert", "agent", "commit"},
                                     op : Ops \cup {None}, agent : Agents \cup {None},
                                     key : Keys \cup {None}]]
      /\ requests'[q].pc = "idle"
      /\ \A p \in Requests \ {q} : requests'[p] = requests[p]
  BY <1>1, DoneEnds DEF Fails
<1>3. userLock' = userLock \/ (userLock = q /\ userLock' = Nobody)
  BY DEF Fails
<1>4. TypeOK'
  BY <1>1, <1>2, <1>3 DEF Fails, TypeOK
<1>5. Inserting'
  BY <1>1, <1>2, <1>3 DEF Fails, Inserting, Room
<1>6. Rotating' /\ Prepared' /\ KeyHeld'
  BY <1>1, <1>2 DEF Fails, Rotating, Prepared, KeyHeld
<1>7. Shut'
  BY <1>1, <1>3, CredentialAssumptions DEF Fails, Shut, Live
<1> QED
  BY <1>1, <1>4, <1>5, <1>6, <1>7 DEF Fails, IInv, Counted, LimitsHold, Owned, Linked, Single, Live

LEMMA RevokeAPITokenKeeps ==
  ASSUME IInv, NEW t \in Tokens, RevokeAPIToken(t)
  PROVE  IInv'
<1>1. /\ TypeOK /\ Counted /\ Inserting /\ Rotating /\ Prepared
      /\ KeyHeld /\ Owned /\ Linked /\ Single /\ Shut
  BY DEF IInv
<1>2. TypeOK'
  BY <1>1 DEF RevokeAPIToken, TypeOK
<1>3. /\ IsFiniteSet(tokens') /\ Cardinality(tokens') \in Nat /\ Cardinality(tokens) \in Nat
      /\ Cardinality(tokens') <= Cardinality(tokens)
  BY <1>1, FS_Subset, FS_CardinalityType DEF RevokeAPIToken, Counted
<1>4. Counted'
  BY <1>1, <1>3, CredentialAssumptions DEF RevokeAPIToken, Counted, LimitsHold
<1>5. Inserting'
  BY <1>1, <1>3, CredentialAssumptions DEF RevokeAPIToken, Inserting, Room
<1>6. Shut'
  BY <1>1 DEF RevokeAPIToken, Shut, Live
<1> QED
  BY <1>1, <1>2, <1>4, <1>5, <1>6 DEF RevokeAPIToken, IInv, Rotating, Prepared, KeyHeld, Owned, Linked,
     Single, Live

-----------------------------------------------------------------------------
(* Rotations.                                                               *)

LEMMA LookUpRotationKeeps ==
  ASSUME IInv, NEW q \in Requests, LookUpRotation(q)
  PROVE  IInv'
<1>1. /\ TypeOK /\ Counted /\ Inserting /\ Rotating /\ Prepared
      /\ KeyHeld /\ Owned /\ Linked /\ Single /\ Shut
  BY DEF IInv
<1>2. TypeOK' <=> requests' \in [Requests -> [pc : {"idle", "ready", "insert", "agent", "commit"},
                                     op : Ops \cup {None}, agent : Agents \cup {None},
                                     key : Keys \cup {None}]]
  BY <1>1 DEF LookUpRotation, TypeOK
<1>3. Counted' /\ Owned' /\ Linked' /\ Single' /\ Shut'
  BY <1>1 DEF LookUpRotation, Counted, LimitsHold, Owned, Linked, Single, Shut, Live
<1>4. CASE Done(q)
  <2>1. /\ TypeOK' /\ requests'[q].pc = "idle"
        /\ \A p \in Requests \ {q} : requests'[p] = requests[p]
    BY <1>1, <1>2, <1>4, DoneEnds
  <2>2. Inserting' /\ Rotating' /\ Prepared' /\ KeyHeld'
    BY <1>1, <2>1 DEF LookUpRotation, Inserting, Room, Rotating, Prepared, KeyHeld
  <2> QED
    BY <1>3, <2>1, <2>2 DEF IInv
<1>5. CASE /\ rotations[requests[q].key] = None
           /\ requests' = [requests EXCEPT ![q].pc = "agent"]
  <2>1. /\ TypeOK'
        /\ requests'[q].pc = "agent" /\ requests'[q].agent = requests[q].agent
        /\ requests'[q].key = requests[q].key
        /\ \A p \in Requests \ {q} : requests'[p] = requests[p]
    BY <1>1, <1>2, <1>5, RequestMoves
  <2>2. requests[q].agent \in Agents /\ requests[q].key \in Keys
    BY <1>1 DEF LookUpRotation, Prepared
  <2>3. Inserting' /\ Rotating' /\ Prepared'
    BY <1>1, <1>5, <2>1, <2>2 DEF LookUpRotation, Inserting, Room, Rotating, Prepared
  <2>4. KeyHeld'
    <3>1. \A p \in Requests \ {q} :
            requests[p].pc \in {"agent", "commit"} => requests[p].key # requests[q].key
      BY DEF LookUpRotation, KeyFree
    <3> QED
      BY <1>1, <2>1, <3>1 DEF KeyHeld
  <2> QED
    BY <1>3, <2>1, <2>3, <2>4 DEF IInv
<1> QED
  BY <1>4, <1>5 DEF LookUpRotation

LEMMA LockAgentKeeps ==
  ASSUME IInv, NEW q \in Requests, LockAgent(q)
  PROVE  IInv'
<1>1. /\ TypeOK /\ Counted /\ Inserting /\ Rotating /\ Prepared
      /\ KeyHeld /\ Owned /\ Linked /\ Single /\ Shut
  BY DEF IInv
<1>2. TypeOK' <=> requests' \in [Requests -> [pc : {"idle", "ready", "insert", "agent", "commit"},
                                     op : Ops \cup {None}, agent : Agents \cup {None},
                                     key : Keys \cup {None}]]
  BY <1>1 DEF LockAgent, TypeOK
<1>3. Counted' /\ Owned' /\ Linked' /\ Single' /\ Shut'
  BY <1>1 DEF LockAgent, Counted, LimitsHold, Owned, Linked, Single, Shut, Live
<1>4. CASE Done(q)
  <2>1. /\ TypeOK' /\ requests'[q].pc = "idle"
        /\ \A p \in Requests \ {q} : requests'[p] = requests[p]
    BY <1>1, <1>2, <1>4, DoneEnds
  <2>2. Inserting' /\ Rotating' /\ Prepared' /\ KeyHeld'
    BY <1>1, <2>1 DEF LockAgent, Inserting, Room, Rotating, Prepared, KeyHeld
  <2> QED
    BY <1>3, <2>1, <2>2 DEF IInv
<1>5. CASE /\ requests[q].agent \in agents
           /\ requests' = [requests EXCEPT ![q].pc = "commit"]
  <2>1. /\ TypeOK'
        /\ requests'[q].pc = "commit" /\ requests'[q].agent = requests[q].agent
        /\ requests'[q].key = requests[q].key
        /\ \A p \in Requests \ {q} : requests'[p] = requests[p]
    BY <1>1, <1>2, <1>5, RequestMoves
  <2>2. Inserting' /\ Rotating' /\ Prepared'
    BY <1>1, <1>5, <2>1 DEF LockAgent, Inserting, Room, Rotating, Prepared
  <2>3. KeyHeld'
    BY <1>1, <2>1 DEF LockAgent, KeyHeld
  <2> QED
    BY <1>3, <2>1, <2>2, <2>3 DEF IInv
<1> QED
  BY <1>4, <1>5 DEF LockAgent

LEMMA CommitRotationKeeps ==
  ASSUME IInv, NEW q \in Requests, CommitRotation(q)
  PROVE  IInv'
<1>1. /\ TypeOK /\ Counted /\ Inserting /\ Rotating /\ Prepared
      /\ KeyHeld /\ Owned /\ Linked /\ Single /\ Shut
  BY DEF IInv
<1>2. PICK a, k : a = requests[q].agent /\ k = requests[q].key
  OBVIOUS
<1>3. a \in Agents /\ a \in agents /\ k \in Keys /\ rotations[k] = None
  BY <1>1, <1>2 DEF CommitRotation, Rotating
<1>4. PICK late \in BOOLEAN :
        /\ late <=> disabled \/ snapshot # None
        /\ \E c \in Creds :
             /\ creds[c] = None
             /\ creds' = Rotated(a, c, NewCred(a, k, late))
             /\ rotations' = [rotations EXCEPT ![k] = c]
  <2>1. (disabled \/ snapshot # None) \in BOOLEAN
    BY Zenon
  <2> QED
    BY <1>2, <2>1, Zenon DEF CommitRotation
<1>5. PICK c \in Creds :
        /\ creds[c] = None
        /\ creds' = Rotated(a, c, NewCred(a, k, late))
        /\ rotations' = [rotations EXCEPT ![k] = c]
  BY <1>4
<1>6. /\ rotations' \in [Keys -> Creds \cup {None}] /\ rotations'[k] = c
      /\ \A j \in Keys \ {k} : rotations'[j] = rotations[j]
  BY <1>1, <1>3, <1>5 DEF TypeOK
<1>7. /\ requests' \in [Requests -> [pc : {"idle", "ready", "insert", "agent", "commit"},
                                     op : Ops \cup {None}, agent : Agents \cup {None},
                                     key : Keys \cup {None}]]
      /\ requests'[q].pc = "idle"
      /\ \A p \in Requests \ {q} : requests'[p] = requests[p]
  BY <1>1, DoneEnds DEF CommitRotation
<1>8. /\ Revoked(LiveOf(a)) \in [Creds -> Credential \cup {None}]
      /\ \A d \in Creds :
           /\ Revoked(LiveOf(a))[d] # None <=> creds[d] # None
           /\ d \notin LiveOf(a) => Revoked(LiveOf(a))[d] = creds[d]
           /\ d \in LiveOf(a) => /\ Revoked(LiveOf(a))[d].agent = creds[d].agent
                                 /\ Revoked(LiveOf(a))[d].key = creds[d].key
                                 /\ ~Revoked(LiveOf(a))[d].live
  BY <1>1, RevokedRows DEF LiveOf
<1>9. /\ creds' \in [Creds -> Credential \cup {None}]
      /\ creds'[c] # None /\ creds'[c].agent = a /\ creds'[c].key = k
      /\ creds'[c].late = late
      /\ \A d \in Creds \ {c} : creds'[d] = Revoked(LiveOf(a))[d]
  <2>1. NewCred(a, k, late) \in Credential
    BY <1>3 DEF NewCred, Credential
  <2>2. NewCred(a, k, late) # None
    BY <2>1, NoneIsNoCredential
  <2>3. /\ creds' \in [Creds -> Credential \cup {None}]
        /\ creds'[c] = NewCred(a, k, late)
        /\ \A d \in Creds \ {c} : creds'[d] = Revoked(LiveOf(a))[d]
    BY <1>5, <1>8, <2>1 DEF Rotated
  <2> QED
    BY <2>2, <2>3 DEF NewCred
<1>10. \A d \in Creds \ {c} :
         /\ creds'[d] # None <=> creds[d] # None
         /\ creds[d] # None => creds'[d].agent = creds[d].agent /\ creds'[d].key = creds[d].key
         /\ Live(d)' => Live(d) /\ creds'[d] = creds[d] /\ creds[d].agent # a
  BY <1>8, <1>9 DEF Live, LiveOf
<1>11. TypeOK' /\ Counted'
  BY <1>1, <1>6, <1>7, <1>9 DEF CommitRotation, TypeOK, Counted, LimitsHold
<1>12. Inserting' /\ Prepared' /\ KeyHeld'
  BY <1>1, <1>7 DEF CommitRotation, Inserting, Room, Prepared, KeyHeld
<1>13. Rotating'
  <2>1. \A p \in Requests \ {q} : requests[p].pc \in {"agent", "commit"} => requests[p].key # k
    BY <1>1, <1>2 DEF CommitRotation, KeyHeld
  <2> QED
    BY <1>1, <1>6, <1>7, <2>1 DEF CommitRotation, Rotating
<1>14. Owned'
  BY <1>1, <1>3, <1>9, <1>10 DEF CommitRotation, Owned
<1>15. Linked'
  <2>1. ASSUME NEW j \in Keys, rotations'[j] # None
        PROVE  creds'[rotations'[j]] # None /\ creds'[rotations'[j]].key = j
    <3>1. CASE j = k
      BY <1>6, <1>9, <3>1
    <3>2. CASE j # k
      <4>1. rotations'[j] = rotations[j] /\ rotations[j] \in Creds \ {c} /\ creds[rotations[j]] # None
        BY <1>1, <1>5, <1>6, <2>1, <3>2 DEF Linked, TypeOK
      <4>2. PICK d \in Creds \ {c} : d = rotations[j]
        BY <4>1
      <4>3. creds'[d] # None /\ creds'[d].key = creds[d].key
        BY <1>10, <4>1, <4>2
      <4>4. creds[d].key = j
        BY <1>1, <2>1, <4>1, <4>2 DEF Linked
      <4> QED
        BY <4>1, <4>2, <4>3, <4>4
    <3> QED
      BY <3>1, <3>2
  <2>2. ASSUME NEW d \in Creds, creds'[d] # None, creds'[d].key # None
        PROVE  rotations'[creds'[d].key] = d
    <3>1. CASE d = c
      BY <1>6, <1>9, <3>1
    <3>2. CASE d # c
      <4>1. creds[d] # None /\ creds'[d].key = creds[d].key
        BY <1>10, <2>2, <3>2
      <4>2. rotations[creds[d].key] = d /\ creds[d].key \in Keys
        BY <1>1, <2>2, <4>1 DEF Linked, TypeOK, Credential
      <4>3. creds[d].key # k
        BY <1>3, <4>2, CredentialAssumptions
      <4> QED
        BY <1>6, <4>1, <4>2, <4>3
    <3> QED
      BY <3>1, <3>2
  <2> QED
    BY <2>1, <2>2 DEF Linked
<1>16. Single'
  BY <1>1, <1>9, <1>10 DEF Single
<1>17. Shut'
  BY <1>1, <1>4, <1>9, <1>10 DEF CommitRotation, Shut
<1> QED
  BY <1>11, <1>12, <1>13, <1>14, <1>15, <1>16, <1>17 DEF IInv

-----------------------------------------------------------------------------
(* Revoking, deleting and purging.                                          *)

LEMMA RevokeCredentialKeeps ==
  ASSUME IInv, NEW a \in Agents, RevokeCredential(a)
  PROVE  IInv'
<1>1. /\ TypeOK /\ Counted /\ Inserting /\ Rotating /\ Prepared
      /\ KeyHeld /\ Owned /\ Linked /\ Single /\ Shut
  BY DEF IInv
<1>2. /\ creds' \in [Creds -> Credential \cup {None}]
      /\ Owned' /\ Linked' /\ Single'
      /\ \A c \in Creds : Live(c)' => Live(c) /\ creds'[c] = creds[c]
  BY <1>1, RevokingKeeps DEF RevokeCredential, LiveOf
<1>3. TypeOK' /\ Counted'
  BY <1>1, <1>2 DEF RevokeCredential, TypeOK, Counted, LimitsHold
<1>4. Inserting' /\ Rotating' /\ Prepared' /\ KeyHeld'
  BY <1>1 DEF RevokeCredential, Inserting, Room, Rotating, Prepared, KeyHeld
<1>5. Shut'
  BY <1>1, <1>2 DEF RevokeCredential, Shut
<1> QED
  BY <1>2, <1>3, <1>4, <1>5 DEF IInv

\* Rows that go take the rotations that name them along.
LEMMA WithoutKeeps ==
  ASSUME TypeOK, Linked, Single, NEW S, S \subseteq Creds, Without(S)
  PROVE  /\ creds' \in [Creds -> Credential \cup {None}]
         /\ rotations' \in [Keys -> Creds \cup {None}]
         /\ \A c \in Creds : creds'[c] # None => c \notin S /\ creds'[c] = creds[c]
         /\ \A k \in Keys : rotations[k] = None => rotations'[k] = None
         /\ Linked' /\ Single'
<1>1. /\ creds' \in [Creds -> Credential \cup {None}]
      /\ \A c \in Creds : c \in S => creds'[c] = None
      /\ \A c \in Creds : c \notin S => creds'[c] = creds[c]
  BY DEF TypeOK, Without
<1>2. /\ rotations' \in [Keys -> Creds \cup {None}]
      /\ \A k \in Keys : rotations[k] \in S => rotations'[k] = None
      /\ \A k \in Keys : rotations[k] \notin S => rotations'[k] = rotations[k]
  BY DEF TypeOK, Without
<1>3. ASSUME NEW k \in Keys, rotations'[k] # None
      PROVE  creds'[rotations'[k]] # None /\ creds'[rotations'[k]].key = k
  <2>1. rotations'[k] = rotations[k] /\ rotations[k] \in Creds /\ rotations[k] \notin S
    BY <1>2, <1>3 DEF TypeOK
  <2>2. creds'[rotations[k]] = creds[rotations[k]]
    BY <1>1, <2>1
  <2> QED
    BY <1>3, <2>1, <2>2 DEF Linked
<1>4. ASSUME NEW c \in Creds, creds'[c] # None, creds'[c].key # None
      PROVE  rotations'[creds'[c].key] = c
  <2>1. c \notin S /\ creds'[c] = creds[c]
    BY <1>1, <1>4
  <2>2. rotations[creds[c].key] = c /\ creds[c].key \in Keys
    BY <1>4, <2>1 DEF Linked, TypeOK, Credential
  <2> QED
    BY <1>2, <2>1, <2>2
<1>5. Linked'
  BY <1>3, <1>4 DEF Linked
<1>6. Single'
  BY <1>1 DEF Single, Live
<1> QED
  BY <1>1, <1>2, <1>5, <1>6

LEMMA DeleteAgentKeeps ==
  ASSUME IInv, NEW a \in Agents, DeleteAgent(a)
  PROVE  IInv'
<1>1. /\ TypeOK /\ Counted /\ Inserting /\ Rotating /\ Prepared
      /\ KeyHeld /\ Owned /\ Linked /\ Single /\ Shut
  BY DEF IInv
<1> DEFINE S == {c \in Creds : creds[c] # None /\ creds[c].agent = a}
<1>2. Without(S) /\ S \subseteq Creds
  BY DEF DeleteAgent
<1> HIDE DEF S
<1>3. /\ creds' \in [Creds -> Credential \cup {None}]
      /\ rotations' \in [Keys -> Creds \cup {None}]
      /\ \A c \in Creds : creds'[c] # None => c \notin S /\ creds'[c] = creds[c]
      /\ \A k \in Keys : rotations[k] = None => rotations'[k] = None
      /\ Linked' /\ Single'
  BY <1>1, <1>2, WithoutKeeps
<1>4. TypeOK'
  BY <1>1, <1>3 DEF DeleteAgent, TypeOK
<1>5. /\ IsFiniteSet(agents') /\ Cardinality(agents') \in Nat /\ Cardinality(agents) \in Nat
      /\ Cardinality(agents') <= Cardinality(agents)
  BY <1>1, FS_Subset, FS_CardinalityType DEF DeleteAgent, Counted
<1>6. Counted'
  BY <1>1, <1>5, CredentialAssumptions DEF DeleteAgent, Counted, LimitsHold
<1>7. Inserting'
  BY <1>1, <1>5, CredentialAssumptions DEF DeleteAgent, Inserting, Room
<1>8. Rotating'
  <2>1. \A q \in Requests : requests[q].pc = "commit" => requests[q].agent # a
    BY DEF DeleteAgent, AgentLocked
  <2> QED
    BY <1>1, <1>3, <2>1 DEF DeleteAgent, Rotating
<1>9. Prepared' /\ KeyHeld'
  BY <1>1 DEF DeleteAgent, Prepared, KeyHeld
<1>10. Owned'
  BY <1>1, <1>3 DEF DeleteAgent, Owned, S
<1>11. Shut'
  BY <1>1, <1>3 DEF DeleteAgent, Shut, Live
<1> QED
  BY <1>3, <1>4, <1>6, <1>7, <1>8, <1>9, <1>10, <1>11 DEF IInv

LEMMA PurgeCredentialKeeps ==
  ASSUME IInv, NEW c \in Creds, PurgeCredential(c)
  PROVE  IInv'
<1>1. /\ TypeOK /\ Counted /\ Inserting /\ Rotating /\ Prepared
      /\ KeyHeld /\ Owned /\ Linked /\ Single /\ Shut
  BY DEF IInv
<1>2. /\ creds' \in [Creds -> Credential \cup {None}]
      /\ rotations' \in [Keys -> Creds \cup {None}]
      /\ \A d \in Creds : creds'[d] # None => creds'[d] = creds[d]
      /\ \A k \in Keys : rotations[k] = None => rotations'[k] = None
      /\ Linked' /\ Single'
  BY <1>1, WithoutKeeps DEF PurgeCredential
<1>3. TypeOK' /\ Counted'
  BY <1>1, <1>2 DEF PurgeCredential, TypeOK, Counted, LimitsHold
<1>4. Inserting' /\ Rotating' /\ Prepared' /\ KeyHeld'
  BY <1>1, <1>2 DEF PurgeCredential, Inserting, Room, Rotating, Prepared, KeyHeld
<1>5. Owned' /\ Shut'
  BY <1>1, <1>2 DEF PurgeCredential, Owned, Shut, Live
<1> QED
  BY <1>2, <1>3, <1>4, <1>5 DEF IInv

LEMMA PurgeRotationKeeps ==
  ASSUME IInv, NEW k \in Keys, PurgeRotation(k)
  PROVE  IInv'
<1>1. /\ TypeOK /\ Counted /\ Inserting /\ Rotating /\ Prepared
      /\ KeyHeld /\ Owned /\ Linked /\ Single /\ Shut
  BY DEF IInv
<1>2. PICK c : c = rotations[k]
  OBVIOUS
<1>3. c \in Creds /\ creds[c] \in Credential /\ creds[c].key = k
  BY <1>1, <1>2 DEF PurgeRotation, TypeOK, Linked
<1>4. /\ rotations' \in [Keys -> Creds \cup {None}] /\ rotations'[k] = None
      /\ \A j \in Keys \ {k} : rotations'[j] = rotations[j]
  BY <1>1 DEF PurgeRotation, TypeOK
<1>5. /\ creds' \in [Creds -> Credential \cup {None}]
      /\ creds'[c] # None /\ creds'[c].key = None
      /\ creds'[c].agent = creds[c].agent /\ creds'[c].live = creds[c].live
      /\ creds'[c].late = creds[c].late
      /\ \A d \in Creds \ {c} : creds'[d] = creds[d]
  <2> DEFINE new == [creds[c] EXCEPT !.key = None]
  <2>1. new \in Credential /\ new.key = None /\ new.agent = creds[c].agent
        /\ new.live = creds[c].live /\ new.late = creds[c].late
    BY <1>3 DEF Credential
  <2>2. creds' = [creds EXCEPT ![c] = new]
    BY <1>2 DEF PurgeRotation
  <2> HIDE DEF new
  <2>3. creds'[c] = new /\ \A d \in Creds \ {c} : creds'[d] = creds[d]
    BY <1>1, <1>3, <2>2 DEF TypeOK
  <2>4. creds' \in [Creds -> Credential \cup {None}]
    BY <1>1, <1>3, <2>1, <2>2 DEF TypeOK
  <2> QED
    BY <2>1, <2>3, <2>4, NoneIsNoCredential
<1>6. TypeOK' /\ Counted'
  BY <1>1, <1>4, <1>5 DEF PurgeRotation, TypeOK, Counted, LimitsHold
<1>7. Inserting' /\ Prepared' /\ KeyHeld'
  BY <1>1 DEF PurgeRotation, Inserting, Room, Prepared, KeyHeld
<1>8. Rotating'
  BY <1>1, <1>4 DEF PurgeRotation, Rotating
<1>9. \A d \in Creds : /\ creds'[d] # None <=> creds[d] # None
                       /\ creds[d] # None => /\ creds'[d].agent = creds[d].agent
                                             /\ creds'[d].late = creds[d].late
                       /\ Live(d)' <=> Live(d)
  <2>1. creds[c] # None
    BY <1>3, NoneIsNoCredential
  <2> QED
    BY <1>5, <2>1 DEF Live
<1>10. Owned' /\ Single' /\ Shut'
  BY <1>1, <1>9 DEF PurgeRotation, Owned, Single, Shut, Live
<1>11. Linked'
  <2>1. ASSUME NEW j \in Keys, rotations'[j] # None
        PROVE  creds'[rotations'[j]] # None /\ creds'[rotations'[j]].key = j
    <3>1. j # k /\ rotations'[j] = rotations[j]
      BY <1>4, <2>1
    <3>2. PICK d \in Creds : d = rotations[j]
      BY <1>1, <2>1, <3>1 DEF TypeOK
    <3>3. creds[d] # None /\ creds[d].key = j
      BY <1>1, <2>1, <3>1, <3>2 DEF Linked
    <3>4. d # c
      BY <1>3, <3>1, <3>3
    <3> QED
      BY <1>5, <3>1, <3>2, <3>3, <3>4
  <2>2. ASSUME NEW d \in Creds, creds'[d] # None, creds'[d].key # None
        PROVE  rotations'[creds'[d].key] = d
    <3>1. d # c /\ creds'[d] = creds[d]
      BY <1>5, <2>2
    <3>2. rotations[creds[d].key] = d /\ creds[d].key \in Keys
      BY <1>1, <2>2, <3>1 DEF Linked, TypeOK, Credential
    <3>3. creds[d].key # k
      BY <1>2, <3>1, <3>2
    <3> QED
      BY <1>4, <3>1, <3>2, <3>3
  <2> QED
    BY <2>1, <2>2 DEF Linked
<1> QED
  BY <1>6, <1>7, <1>8, <1>10, <1>11 DEF IInv

-----------------------------------------------------------------------------
(* Disabling and enabling the account.                                      *)

LEMMA BeginDisableKeeps ==
  ASSUME IInv, BeginDisable
  PROVE  IInv'
<1>1. /\ TypeOK /\ Counted /\ Inserting /\ Rotating /\ Prepared
      /\ KeyHeld /\ Owned /\ Linked /\ Single /\ Shut
  BY DEF IInv
<1>2. \A q \in Requests : requests[q].pc # "insert"
  BY <1>1, CredentialAssumptions DEF BeginDisable, Inserting
<1>3. TypeOK' /\ Inserting' /\ Shut'
  BY <1>1, <1>2, CredentialAssumptions DEF BeginDisable, TypeOK, Inserting, Shut, Live
<1> QED
  BY <1>1, <1>3 DEF BeginDisable, IInv, Counted, LimitsHold, Rotating, Prepared, KeyHeld, Owned, Linked,
     Single, Live

LEMMA FindCredentialsKeeps ==
  ASSUME IInv, FindCredentials
  PROVE  IInv'
<1>1. /\ TypeOK /\ Counted /\ Inserting /\ Rotating /\ Prepared
      /\ KeyHeld /\ Owned /\ Linked /\ Single /\ Shut
  BY DEF IInv
<1>2. snapshot' \subseteq Creds
  BY DEF FindCredentials, LiveOf
<1>3. \A c \in Creds : Live(c) => c \in snapshot'
  <2> SUFFICES ASSUME NEW c \in Creds, Live(c) PROVE c \in snapshot'
    OBVIOUS
  <2>1. creds[c].agent \in Agents
    BY <1>1 DEF TypeOK, Credential, Live
  <2>2. c \in LiveOf(creds[c].agent)
    BY DEF Live, LiveOf
  <2> QED
    BY <2>1, <2>2 DEF FindCredentials
<1>4. TypeOK' /\ Shut'
  BY <1>1, <1>2, <1>3 DEF FindCredentials, TypeOK, Shut, Live
<1> QED
  BY <1>1, <1>4 DEF FindCredentials, IInv, Counted, LimitsHold, Inserting, Room, Rotating, Prepared,
     KeyHeld, Owned, Linked, Single, Live

LEMMA CommitDisableKeeps ==
  ASSUME IInv, CommitDisable
  PROVE  IInv'
<1>1. /\ TypeOK /\ Counted /\ Inserting /\ Rotating /\ Prepared
      /\ KeyHeld /\ Owned /\ Linked /\ Single /\ Shut
  BY DEF IInv
<1> DEFINE S == {c \in snapshot : creds[c] # None}
<1>2. snapshot \subseteq Creds /\ \A c \in Creds : Live(c) => c \in S \/ creds[c].late
  BY <1>1 DEF CommitDisable, TypeOK, Shut, Live
<1>3. /\ creds' \in [Creds -> Credential \cup {None}]
      /\ Owned' /\ Linked' /\ Single'
      /\ \A c \in Creds : Live(c)' => Live(c) /\ c \notin S /\ creds'[c] = creds[c]
  BY <1>1, RevokingKeeps DEF CommitDisable
<1> HIDE DEF S
<1>4. IsFiniteSet(tokens') /\ Cardinality(tokens') = 0
  BY FS_EmptySet DEF CommitDisable
<1>5. TypeOK' /\ Counted'
  <2>1. Counted'
    BY <1>1, <1>4, CredentialAssumptions DEF CommitDisable, Counted, LimitsHold
  <2>2. TypeOK'
    BY <1>1, <1>3 DEF CommitDisable, TypeOK
  <2> QED
    BY <2>1, <2>2
<1>6. Inserting'
  BY <1>1, CredentialAssumptions DEF CommitDisable, Inserting
<1>7. Rotating' /\ Prepared' /\ KeyHeld'
  BY <1>1 DEF CommitDisable, Rotating, Prepared, KeyHeld
<1>8. Shut'
  BY <1>2, <1>3, CredentialAssumptions DEF CommitDisable, Shut
<1> QED
  BY <1>3, <1>5, <1>6, <1>7, <1>8 DEF IInv

LEMMA EnableKeeps ==
  ASSUME IInv, Enable
  PROVE  IInv'
<1>1. /\ TypeOK /\ Counted /\ Inserting /\ Rotating /\ Prepared
      /\ KeyHeld /\ Owned /\ Linked /\ Single /\ Shut
  BY DEF IInv
<1>2. TypeOK' /\ Inserting' /\ Shut'
  BY <1>1 DEF Enable, TypeOK, Inserting, Room, Shut, Live
<1> QED
  BY <1>1, <1>2 DEF Enable, IInv, Counted, LimitsHold, Rotating, Prepared, KeyHeld, Owned, Linked,
     Single, Live

-----------------------------------------------------------------------------
(* The invariant, and what follows from it.                                 *)

LEMMA InitEstablishes == Init => IInv
<1> SUFFICES ASSUME Init PROVE IInv
  OBVIOUS
<1>1. TypeOK
  BY DEF Init, TypeOK, Idle
<1>2. Counted
  BY FS_EmptySet, CredentialAssumptions DEF Init, Counted, LimitsHold
<1>3. Inserting /\ Rotating /\ Prepared /\ KeyHeld
  BY DEF Init, Idle, Inserting, Rotating, Prepared, KeyHeld
<1>4. Owned /\ Linked /\ Single /\ Shut
  BY CredentialAssumptions DEF Init, Owned, Linked, Single, Shut, Live
<1> QED
  BY <1>1, <1>2, <1>3, <1>4 DEF IInv

LEMMA NextPreserves == IInv /\ [Next]_vars => IInv'
<1> SUFFICES ASSUME IInv, [Next]_vars PROVE IInv'
  OBVIOUS
<1>1. ASSUME NEW q \in Requests, NEW op \in {"CreateAPIToken", "CreateAgent"},
             Authenticate(q, op, None, None)
      PROVE  IInv'
  BY <1>1, AuthenticateKeeps DEF Ops
<1>2. ASSUME NEW q \in Requests, NEW a \in Agents, NEW k \in Keys,
             Authenticate(q, "RotateCredential", a, k)
      PROVE  IInv'
  BY <1>2, AuthenticateKeeps DEF Ops
<1>3. CASE UNCHANGED vars
  BY <1>3 DEF vars, IInv, TypeOK, Counted, LimitsHold, Inserting, Room, Rotating, Prepared, KeyHeld,
     Owned, Linked, Single, Shut, Live
<1> QED
  BY <1>1, <1>2, <1>3, SessionChangesKeeps, CountFirstKeeps, InsertTokenKeeps, InsertAgentKeeps,
     FailsKeeps, LookUpRotationKeeps, LockAgentKeeps, CommitRotationKeeps, RevokeAPITokenKeeps,
     RevokeCredentialKeeps, DeleteAgentKeeps, PurgeCredentialKeeps, PurgeRotationKeeps,
     BeginDisableKeeps, FindCredentialsKeeps, CommitDisableKeeps, EnableKeeps
     DEF Next

\* The locks, the rows and the requests that hold them agree in every reachable
\* state.
THEOREM CredentialInvariant == Spec => []IInv
BY InitEstablishes, NextPreserves, PTL DEF Spec

\* An agent never has two credentials that work: a rotation revokes what is live,
\* and a new agent has none.
THEOREM CredentialsAreSingle == Spec => []OneLiveCredential
<1>1. ASSUME IInv PROVE OneLiveCredential
  <2> SUFFICES ASSUME NEW a \in Agents PROVE Cardinality(LiveOf(a)) <= 1
    BY DEF OneLiveCredential
  <2>1. \A c, d \in LiveOf(a) : c = d
    BY <1>1 DEF IInv, Single, Live, LiveOf
  <2>2. CASE LiveOf(a) = {}
    BY <2>2, FS_EmptySet
  <2>3. CASE LiveOf(a) # {}
    <3>1. PICK c : LiveOf(a) = {c}
      BY <2>1, <2>3
    <3> QED
      BY <3>1, FS_Singleton
  <2> QED
    BY <2>2, <2>3
<1>2. IInv => OneLiveCredential
  BY <1>1
<1> QED
  BY <1>2, CredentialInvariant, PTL

\* One remembered rotation per key: whoever commits holds the key's advisory lock
\* since it found the key unused.
THEOREM RotationsAreSingle == Spec => []OneRotationPerKey
<1>1. IInv => OneRotationPerKey
  BY DEF IInv, Linked, OneRotationPerKey
<1> QED
  BY <1>1, CredentialInvariant, PTL

\* Disabling a member revokes everything but what a rotation made after the
\* operator's last statement had looked.
THEOREM DisabledMeansRevoked == Spec => []DisablingRevokes
<1>1. IInv => DisablingRevokes
  BY DEF IInv, Shut, Live, LiveOf, DisablingRevokes
<1> QED
  BY <1>1, CredentialInvariant, PTL

\* The plan's limits hold for any number of requests at once: a count is made under
\* the account's row lock, and the lock is held until the insert.
THEOREM PlanLimits == Spec => []LimitsHold
<1>1. IInv => LimitsHold
  BY DEF IInv, Counted
<1> QED
  BY <1>1, CredentialInvariant, PTL

=============================================================================
