------------------------ MODULE PasswordReset_proofs ------------------------
(***************************************************************************)
(* Sessions and links follow the password, and a processed request stays   *)
(* processed, for any number of workers, requests, links, logins and       *)
(* redemptions and any number of attempts and faults.                      *)
(*                                                                         *)
(* Both invariants are inductive with the types they need (AccountTypes):  *)
(* what keeps them is that the hash is compared again in the transaction   *)
(* that opens a session, and that the transaction that changes the         *)
(* password ends every session and every link.                             *)
(***************************************************************************)
EXTENDS PasswordReset, TLAPS

AccountTypes ==
  /\ password \in Nat /\ disabled \in BOOLEAN
  /\ tokens \in [Tokens -> Nat \cup {Dead}]
  /\ sessions \in [Logins -> Nat \cup {Dead}]
  /\ logins \in [Logins -> Nat \cup {Dead}]

OutboxRow == [queued : BOOLEAN, processed : BOOLEAN, available : BOOLEAN,
              lease : {"none", "held", "expired"}, attempts : Nat]

OutboxTypes ==
  /\ outbox \in [Requests -> OutboxRow]
  /\ workers \in [Workers -> [pc : {"idle", "account", "issue", "send", "complete", "retry"},
                              request : Requests \cup {NoRequest}]]
  /\ \A w \in Workers : workers[w].pc # "idle" => workers[w].request \in Requests

AccountInv == AccountTypes /\ SessionsFollowPassword /\ OneLinkWorks

\* The account at the start.
LEMMA InitAccount == Init => AccountInv
<1> SUFFICES ASSUME Init PROVE AccountInv
  OBVIOUS
<1>1. AccountTypes
  BY DEF Init, AccountTypes, Dead
<1>2. SessionsFollowPassword
  BY DEF Init, SessionsFollowPassword
<1>3. OneLinkWorks
  BY DEF Init, OneLinkWorks
<1> QED
  BY <1>1, <1>2, <1>3 DEF AccountInv

\* What a step does to the account, its links and its sessions.
AccountStep ==
  \/ UNCHANGED <<account, tokens, sessions, logins>>
  \/ \E s \in Logins : ReadHash(s) \/ CreateSession(s) \/ EndSession(s)
  \/ \E d \in BOOLEAN : SetDisabled(d)
  \/ \E c \in Confirmations : ChangePassword(c)
  \/ \E k \in Tokens : TokenExpires(k)
  \/ \E w \in Workers : Issue(w)

\* The other steps leave them alone.
LEMMA StepsOfTheAccount == [Next]_vars => AccountStep
<1> SUFFICES ASSUME [Next]_vars PROVE AccountStep
  OBVIOUS
<1>1. CASE UNCHANGED vars
  BY <1>1 DEF AccountStep, vars, account
<1>2. ASSUME NEW c \in Confirmations, Redeem(c) \/ ConfirmationFails(c) \/ \E k \in Tokens : CheckToken(c, k)
      PROVE  AccountStep
  BY <1>2 DEF AccountStep, Redeem, ConfirmationFails, CheckToken
<1>3. ASSUME NEW r \in Requests, Queue(r) \/ LeaseExpires(r) \/ BecomesAvailable(r)
      PROVE  AccountStep
  BY <1>3 DEF AccountStep, Queue, LeaseExpires, BecomesAvailable, unlessOutbox
<1>4. ASSUME NEW w \in Workers,
             Claim(w) \/ LockUser(w) \/ IssueFails(w) \/ Send(w) \/ Finish(w) \/ WorkerFails(w)
      PROVE  AccountStep
  BY <1>4 DEF AccountStep, Claim, LockUser, IssueFails, Send, Finish, WorkerFails, unlessOutbox
<1> QED
  BY <1>1, <1>2, <1>3, <1>4 DEF Next, AccountStep, ConfirmationStep, WorkerStep

\* Each of those steps keeps the invariant.
LEMMA NextAccount == AccountInv /\ [Next]_vars => AccountInv'
<1> SUFFICES ASSUME AccountInv, AccountStep PROVE AccountInv'
  BY StepsOfTheAccount
<1> USE DEF Dead
<1>1. CASE UNCHANGED <<account, tokens, sessions, logins>>
  BY <1>1 DEF AccountInv, AccountTypes, SessionsFollowPassword, OneLinkWorks, account
<1>2. ASSUME NEW s \in Logins, ReadHash(s) PROVE AccountInv'
  BY <1>2 DEF ReadHash, AccountInv, AccountTypes, SessionsFollowPassword, OneLinkWorks, account
<1>3. ASSUME NEW s \in Logins, CreateSession(s) PROVE AccountInv'
  BY <1>3 DEF CreateSession, SessionAllowed, AccountInv, AccountTypes, SessionsFollowPassword, OneLinkWorks, account
<1>4. ASSUME NEW s \in Logins, EndSession(s) PROVE AccountInv'
  BY <1>4 DEF EndSession, AccountInv, AccountTypes, SessionsFollowPassword, OneLinkWorks, account
<1>5. ASSUME NEW d \in BOOLEAN, SetDisabled(d) PROVE AccountInv'
  BY <1>5 DEF SetDisabled, NoSessions, AccountInv, AccountTypes, SessionsFollowPassword, OneLinkWorks
<1>6. ASSUME NEW c \in Confirmations, ChangePassword(c) PROVE AccountInv'
  BY <1>6 DEF ChangePassword, NoSessions, AfterReset, AccountInv, AccountTypes, SessionsFollowPassword, OneLinkWorks
<1>7. ASSUME NEW k \in Tokens, TokenExpires(k) PROVE AccountInv'
  BY <1>7 DEF TokenExpires, AccountInv, AccountTypes, SessionsFollowPassword, OneLinkWorks, account
<1>8. ASSUME NEW w \in Workers, Issue(w) PROVE AccountInv'
  BY <1>8 DEF Issue, Issued, AccountInv, AccountTypes, SessionsFollowPassword, OneLinkWorks, account
<1> QED
  BY <1>1, <1>2, <1>3, <1>4, <1>5, <1>6, <1>7, <1>8 DEF AccountStep

\* A session lives only under the password it was opened with and while the account
\* is enabled (Login, CreateSession, ResetPassword, SetMemberDisabled).
THEOREM SessionsAreCurrent == Spec => []SessionsFollowPassword
<1>1. AccountInv => SessionsFollowPassword
  BY DEF AccountInv
<1> QED
  BY <1>1, InitAccount, NextAccount, PTL DEF Spec

\* One link works at a time, and only under the current password
\* (CreatePasswordResetToken, ResetPassword).
THEOREM LinksAreCurrent == Spec => []OneLinkWorks
<1>1. AccountInv => OneLinkWorks
  BY DEF AccountInv
<1> QED
  BY <1>1, InitAccount, NextAccount, PTL DEF Spec

-----------------------------------------------------------------------------
(* The outbox.                                                              *)

Final == \A r \in Requests : outbox[r].processed => outbox'[r].processed

\* The outbox at the start.
LEMMA InitOutbox == Init => OutboxTypes
BY DEF Init, OutboxTypes, OutboxRow, Idle

\* One row is written, and stays processed if it was.
RowWritten(r) ==
  /\ outbox' \in [Requests -> OutboxRow]
  /\ \A q \in Requests \ {r} : outbox'[q] = outbox[q]
  /\ outbox[r].processed => outbox'[r].processed

\* What each statement on the outbox writes.
LEMMA OutboxWrites ==
  ASSUME OutboxTypes, NEW r \in Requests
  PROVE  /\ Queue(r) \/ LeaseExpires(r) \/ BecomesAvailable(r) => RowWritten(r)
         /\ outbox' = [outbox EXCEPT ![r].lease = "held",
                                     ![r].attempts = IF @ < MaxAttempts THEN @ + 1 ELSE @]
              => RowWritten(r)
         /\ outbox' = [outbox EXCEPT ![r] = Completed(r)] => RowWritten(r)
         /\ outbox' = [outbox EXCEPT ![r] = Retried(r)] => RowWritten(r)
<1> DEFINE row == outbox[r]
<1>1. row \in OutboxRow /\ outbox \in [Requests -> OutboxRow]
  BY DEF OutboxTypes
<1>2. ASSUME NEW new \in OutboxRow, row.processed => new.processed, outbox' = [outbox EXCEPT ![r] = new]
      PROVE  RowWritten(r)
  BY <1>1, <1>2 DEF RowWritten
<1>3. ASSUME Queue(r) PROVE RowWritten(r)
  <2> DEFINE new == [row EXCEPT !.queued = TRUE, !.available = TRUE]
  <2>1. outbox' = [outbox EXCEPT ![r] = new]
    BY <1>1, <1>3 DEF Queue
  <2>2. new \in OutboxRow /\ new.processed = row.processed
    BY <1>1 DEF OutboxRow
  <2> QED
    BY <1>2, <2>1, <2>2
<1>4. ASSUME LeaseExpires(r) PROVE RowWritten(r)
  <2> DEFINE new == [row EXCEPT !.lease = "expired"]
  <2>1. outbox' = [outbox EXCEPT ![r] = new]
    BY <1>1, <1>4 DEF LeaseExpires
  <2>2. new \in OutboxRow /\ new.processed = row.processed
    BY <1>1 DEF OutboxRow
  <2> QED
    BY <1>2, <2>1, <2>2
<1>5. ASSUME BecomesAvailable(r) PROVE RowWritten(r)
  <2> DEFINE new == [row EXCEPT !.available = TRUE]
  <2>1. outbox' = [outbox EXCEPT ![r] = new]
    BY <1>1, <1>5 DEF BecomesAvailable
  <2>2. new \in OutboxRow /\ new.processed = row.processed
    BY <1>1 DEF OutboxRow
  <2> QED
    BY <1>2, <2>1, <2>2
<1>6. ASSUME outbox' = [outbox EXCEPT ![r].lease = "held",
                                      ![r].attempts = IF @ < MaxAttempts THEN @ + 1 ELSE @]
      PROVE  RowWritten(r)
  <2> DEFINE n == IF row.attempts < MaxAttempts THEN row.attempts + 1 ELSE row.attempts
             new == [row EXCEPT !.lease = "held", !.attempts = n]
  <2>1. outbox' = [outbox EXCEPT ![r] = new]
    BY <1>1, <1>6 DEF OutboxRow
  <2>2. n \in Nat
    BY <1>1 DEF OutboxRow
  <2>3. new \in OutboxRow /\ new.processed = row.processed
    BY <1>1, <2>2 DEF OutboxRow
  <2> QED
    BY <1>2, <2>1, <2>3
<1>7. Completed(r) \in OutboxRow /\ (row.processed => Completed(r).processed)
  BY <1>1 DEF Completed, OutboxRow
<1>8. Retried(r) \in OutboxRow /\ (row.processed => Retried(r).processed)
  <2>1. CASE row.processed
    BY <1>1, <2>1 DEF Retried
  <2>2. CASE ~row.processed
    <3> DEFINE p == row.attempts >= MaxAttempts
    <3>1. p \in BOOLEAN
      <4>1. CASE p
        BY <4>1
      <4>2. CASE ~p
        BY <4>2
      <4> QED
        BY <4>1, <4>2
    <3>2. [row EXCEPT !.lease = "none", !.available = FALSE, !.processed = p] \in OutboxRow
      <4> HIDE DEF p
      <4> QED
        BY <1>1, <3>1 DEF OutboxRow
    <3> QED
      BY <2>2, <3>2 DEF Retried
  <2> QED
    BY <2>1, <2>2
<1> QED
  BY <1>2, <1>3, <1>4, <1>5, <1>6, <1>7, <1>8

\* A step keeps the types of the outbox, and what is processed processed.
LEMMA NextOutbox == OutboxTypes /\ [Next]_vars => OutboxTypes' /\ Final
<1> SUFFICES ASSUME OutboxTypes, [Next]_vars PROVE OutboxTypes' /\ Final
  OBVIOUS
<1>1. ASSUME UNCHANGED <<outbox, workers>> PROVE OutboxTypes' /\ Final
  BY <1>1 DEF OutboxTypes, Final
<1>2. ASSUME NEW r \in Requests, RowWritten(r) PROVE outbox' \in [Requests -> OutboxRow] /\ Final
  BY <1>2 DEF RowWritten, Final
<1>3. ASSUME NEW r \in Requests, Queue(r) \/ LeaseExpires(r) \/ BecomesAvailable(r)
      PROVE  OutboxTypes' /\ Final
  <2>1. workers' = workers
    BY <1>3 DEF Queue, LeaseExpires, BecomesAvailable
  <2> QED
    BY <1>2, <1>3, <2>1, OutboxWrites DEF OutboxTypes
<1>4. ASSUME NEW w \in Workers, Claim(w) PROVE OutboxTypes' /\ Final
  <2>1. PICK r \in Requests :
          /\ outbox' = [outbox EXCEPT ![r].lease = "held",
                                      ![r].attempts = IF @ < MaxAttempts THEN @ + 1 ELSE @]
          /\ workers' = [workers EXCEPT ![w] = [pc |-> "account", request |-> r]]
    BY <1>4 DEF Claim
  <2>2. RowWritten(r)
    BY <2>1, OutboxWrites
  <2> QED
    BY <1>2, <2>1, <2>2 DEF OutboxTypes
<1>5. ASSUME NEW w \in Workers, LockUser(w) \/ Issue(w) \/ IssueFails(w) \/ Send(w)
      PROVE  OutboxTypes' /\ Final
  <2>1. outbox' = outbox /\ workers[w].pc # "idle"
    BY <1>5 DEF LockUser, Issue, IssueFails, Send
  <2>2. PICK pc \in {"complete", "issue", "send", "retry"} : workers' = [workers EXCEPT ![w].pc = pc]
    BY <1>5 DEF LockUser, Issue, IssueFails, Send, Goto
  <2> QED
    BY <2>1, <2>2 DEF OutboxTypes, Final
<1>6. ASSUME NEW w \in Workers, Finish(w) PROVE OutboxTypes' /\ Final
  <2> DEFINE r == workers[w].request
  <2>1. r \in Requests /\ workers' = [workers EXCEPT ![w] = Idle]
    BY <1>6 DEF Finish, OutboxTypes
  <2>2. \/ outbox' = [outbox EXCEPT ![r] = Completed(r)]
        \/ outbox' = [outbox EXCEPT ![r] = Retried(r)]
    BY <1>6 DEF Finish, RequestOf
  <2>3. RowWritten(r)
    BY <2>1, <2>2, OutboxWrites
  <2> QED
    BY <1>2, <2>1, <2>3 DEF OutboxTypes, Idle
<1>7. ASSUME NEW w \in Workers, WorkerFails(w) PROVE OutboxTypes' /\ Final
  BY <1>7 DEF WorkerFails, Idle, OutboxTypes, Final
<1>8. ASSUME NEW s \in Logins, ReadHash(s) \/ CreateSession(s) \/ EndSession(s)
      PROVE  OutboxTypes' /\ Final
  BY <1>1, <1>8 DEF ReadHash, CreateSession, EndSession
<1>9. ASSUME NEW d \in BOOLEAN, SetDisabled(d) PROVE OutboxTypes' /\ Final
  BY <1>1, <1>9 DEF SetDisabled
<1>10. ASSUME NEW c \in Confirmations, ConfirmationStep(c) \/ \E k \in Tokens : CheckToken(c, k)
      PROVE  OutboxTypes' /\ Final
  BY <1>1, <1>10 DEF ConfirmationStep, Redeem, ChangePassword, ConfirmationFails, CheckToken
<1>11. ASSUME NEW k \in Tokens, TokenExpires(k) PROVE OutboxTypes' /\ Final
  BY <1>1, <1>11 DEF TokenExpires
<1>12. CASE UNCHANGED vars
  BY <1>1, <1>12 DEF vars
<1> QED
  BY <1>3, <1>4, <1>5, <1>7, <1>8, <1>9, <1>10, <1>11, <1>12, <1>6 DEF Next, WorkerStep

\* A worker that was overtaken never puts a processed request back
\* (CompletePasswordResetRequest, RetryPasswordResetRequest).
THEOREM ProcessedStays == Spec => ProcessedIsFinal
<1>1. OutboxTypes /\ [Next]_vars => [Final]_vars
  BY NextOutbox
<1>2. Spec => []OutboxTypes
  BY InitOutbox, NextOutbox, PTL DEF Spec
<1>3. Spec => [][Final]_vars
  BY <1>1, <1>2, PTL DEF Spec
<1> QED
  BY <1>3, PTL DEF ProcessedIsFinal, Final

=============================================================================
