--------------------------- MODULE PasswordReset ---------------------------
(***************************************************************************)
(* One account's password, sessions and reset links                        *)
(* (server/internal/auth/auth.go, pgstore.go).                             *)
(*                                                                         *)
(* A request for a link goes to an outbox.  Workers (one per server) take  *)
(* a request under a lease of five minutes, issue a token, mail it and     *)
(* mark the request processed; a worker that is slow is overtaken when its *)
(* lease runs out, one that dies leaves its request claimed.  Meanwhile    *)
(* links are redeemed, people log in, and an operator disables the account.*)
(*                                                                         *)
(* A bcrypt hash is new for every change of the password, so the password  *)
(* is a counter.  Times are abstract: a lease, a delay or a link may run   *)
(* out at any moment.  Transactions that lock two rows one after the other *)
(* are two actions; the lock held in between is explicit.                  *)
(***************************************************************************)
EXTENDS Integers, FiniteSets

CONSTANTS
  Requests, Workers, Tokens,
  Logins,         \* logins under way, and the session each one ends in
  Confirmations,  \* redemptions under way
  MaxAttempts,    \* a request is given up after so many (5)
  MaxPassword,    \* bound: changes of the password
  MaxFaults,      \* bound: crashes and failed writes to the outbox
  Nobody, NoToken, NoRequest

ASSUME ResetAssumptions ==
  /\ MaxAttempts \in Nat \ {0} /\ MaxPassword \in Nat /\ MaxFaults \in Nat
  /\ NoToken \notin Tokens /\ NoRequest \notin Requests /\ Nobody \notin Workers

Passwords == 0..MaxPassword
Dead == -1    \* a token that is used, expired, or was never issued

VARIABLES
  password, disabled,  \* the users row
  userLock,            \* who holds that row between two statements
  tokens,    \* [Tokens -> the password it was issued under, or Dead]
  sessions,  \* [Logins -> the password it was opened under, or Dead]
  logins,    \* [Logins -> the hash that was compared, or Dead]
  confirmations,  \* [Confirmations -> [pc, token]]
  outbox,    \* [Requests -> [queued, processed, lease, available, attempts]]
  workers,   \* [Workers -> [pc, request]]
  faults

account == <<password, disabled>>
vars == <<password, disabled, userLock, tokens, sessions, logins, confirmations, outbox, workers, faults>>

TypeOK ==
  /\ password \in Passwords /\ disabled \in BOOLEAN /\ userLock \in Workers \cup {Nobody}
  /\ tokens \in [Tokens -> Passwords \cup {Dead}]
  /\ sessions \in [Logins -> Passwords \cup {Dead}]
  /\ logins \in [Logins -> Passwords \cup {Dead}]
  /\ confirmations \in [Confirmations -> [pc : {"idle", "checked", "redeemed"}, token : Tokens \cup {NoToken}]]
  /\ outbox \in [Requests -> [queued : BOOLEAN, processed : BOOLEAN, available : BOOLEAN,
                              lease : {"none", "held", "expired"}, attempts : 0..MaxAttempts]]
  /\ workers \in [Workers -> [pc : {"idle", "account", "issue", "send", "complete", "retry"},
                              request : Requests \cup {NoRequest}]]
  /\ faults \in 0..MaxFaults

Idle == [pc |-> "idle", request |-> NoRequest]
NoConfirmation == [pc |-> "idle", token |-> NoToken]

Init ==
  /\ password = 0 /\ disabled = FALSE /\ userLock = Nobody
  /\ tokens = [k \in Tokens |-> Dead]
  /\ sessions = [s \in Logins |-> Dead]
  /\ logins = [s \in Logins |-> Dead]
  /\ confirmations = [c \in Confirmations |-> NoConfirmation]
  /\ outbox = [r \in Requests |-> [queued |-> FALSE, processed |-> FALSE, lease |-> "none",
                                   available |-> FALSE, attempts |-> 0]]
  /\ workers = [w \in Workers |-> Idle]
  /\ faults = 0

-----------------------------------------------------------------------------
(* Sessions.                                                                *)

\* Login: the account is found and its hash compared with what was typed.
ReadHash(s) ==
  /\ ~disabled /\ logins[s] = Dead /\ sessions[s] = Dead
  /\ logins' = [logins EXCEPT ![s] = password]
  /\ UNCHANGED <<account, userLock, tokens, sessions, confirmations, outbox, workers, faults>>

\* Fault: any active account will do.
SessionAllowedAnyHash(hash) == ~disabled

\* CreateSession: the account must still have the hash that was compared.
SessionAllowed(hash) == ~disabled /\ hash = password

CreateSession(s) ==
  /\ logins[s] # Dead /\ userLock = Nobody
  /\ sessions' = IF SessionAllowed(logins[s]) THEN [sessions EXCEPT ![s] = logins[s]] ELSE sessions
  /\ logins' = [logins EXCEPT ![s] = Dead]
  /\ UNCHANGED <<account, userLock, tokens, confirmations, outbox, workers, faults>>

\* Logout, or the session expires and is cleaned up.
EndSession(s) ==
  /\ sessions[s] # Dead
  /\ sessions' = [sessions EXCEPT ![s] = Dead]
  /\ UNCHANGED <<account, userLock, tokens, logins, confirmations, outbox, workers, faults>>

NoSessions == [s \in Logins |-> Dead]

\* SetMemberDisabled.
SetDisabled(d) ==
  /\ disabled # d /\ userLock = Nobody
  /\ disabled' = d
  /\ sessions' = IF d THEN NoSessions ELSE sessions
  /\ UNCHANGED <<password, userLock, tokens, logins, confirmations, outbox, workers, faults>>

-----------------------------------------------------------------------------
(* Redeeming a link.                                                        *)

RowLocked(k) == \E c \in Confirmations : confirmations[c] = [pc |-> "redeemed", token |-> k]

PasswordResetTokenValid(k) == tokens[k] # Dead /\ ~disabled

\* The link is checked; the new password is hashed next.
CheckToken(c, k) ==
  /\ confirmations[c] = NoConfirmation
  /\ PasswordResetTokenValid(k)
  /\ password + Cardinality({d \in Confirmations : confirmations[d] # NoConfirmation}) < MaxPassword
  /\ confirmations' = [confirmations EXCEPT ![c] = [pc |-> "checked", token |-> k]]
  /\ UNCHANGED <<account, userLock, tokens, sessions, logins, outbox, workers, faults>>

\* ResetPassword, first statement: the token's row is locked and used, unless it
\* is used or has expired since.
Redeem(c) ==
  LET k == confirmations[c].token IN
  /\ confirmations[c].pc = "checked" /\ ~RowLocked(k)
  /\ confirmations' = [confirmations EXCEPT ![c] = IF tokens[k] # Dead THEN [@ EXCEPT !.pc = "redeemed"]
                                                   ELSE NoConfirmation]
  /\ UNCHANGED <<account, userLock, tokens, sessions, logins, outbox, workers, faults>>

\* Fault: the link stays.
AfterResetKept(k) == tokens

\* The token that was used and every other one of the account.
AfterReset(k) == [j \in Tokens |-> Dead]

\* ResetPassword, the rest: a disabled account rolls it back.
ChangePassword(c) ==
  /\ confirmations[c].pc = "redeemed" /\ userLock = Nobody
  /\ IF disabled
     THEN UNCHANGED <<password, sessions, tokens>>
     ELSE /\ password' = password + 1
          /\ sessions' = NoSessions
          /\ tokens' = AfterReset(confirmations[c].token)
  /\ confirmations' = [confirmations EXCEPT ![c] = NoConfirmation]
  /\ UNCHANGED <<disabled, userLock, logins, outbox, workers, faults>>

\* The request fails, and with it its transaction.
ConfirmationFails(c) ==
  /\ confirmations[c] # NoConfirmation
  /\ confirmations' = [confirmations EXCEPT ![c] = NoConfirmation]
  /\ UNCHANGED <<account, userLock, tokens, sessions, logins, outbox, workers, faults>>

TokenExpires(k) ==
  /\ tokens[k] # Dead
  /\ tokens' = [tokens EXCEPT ![k] = Dead]
  /\ UNCHANGED <<account, userLock, sessions, logins, confirmations, outbox, workers, faults>>

-----------------------------------------------------------------------------
(* The outbox.                                                              *)

RequestOf(w) == workers[w].request
Goto(w, pc) == workers' = [workers EXCEPT ![w].pc = pc]
unlessOutbox == <<account, tokens, sessions, logins, confirmations>>

\* RequestPasswordReset, QueuePasswordResetRequest.
Queue(r) ==
  /\ ~outbox[r].queued
  /\ outbox' = [outbox EXCEPT ![r].queued = TRUE, ![r].available = TRUE]
  /\ UNCHANGED <<unlessOutbox, userLock, workers, faults>>

\* Fault: a lease never runs out.
ClaimableUnclaimed(r) ==
  outbox[r].queued /\ ~outbox[r].processed /\ outbox[r].available /\ outbox[r].lease = "none"

Claimable(r) ==
  outbox[r].queued /\ ~outbox[r].processed /\ outbox[r].available /\ outbox[r].lease # "held"

\* Only whether attempts has reached MaxAttempts matters.
Claim(w) ==
  /\ workers[w] = Idle
  /\ \E r \in Requests :
       /\ Claimable(r)
       /\ outbox' = [outbox EXCEPT ![r].lease = "held",
                                   ![r].attempts = IF @ < MaxAttempts THEN @ + 1 ELSE @]
       /\ workers' = [workers EXCEPT ![w] = [pc |-> "account", request |-> r]]
  /\ UNCHANGED <<unlessOutbox, userLock, faults>>

\* CreatePasswordResetToken, up to the lock of the users row; nothing is mailed
\* for an account that is not there.
LockUser(w) ==
  /\ workers[w].pc = "account" /\ userLock = Nobody
  /\ IF disabled THEN Goto(w, "complete") /\ UNCHANGED userLock
                 ELSE Goto(w, "issue") /\ userLock' = w
  /\ UNCHANGED <<unlessOutbox, outbox, faults>>

\* Earlier links end when a new one is issued.
Issued(k) == [j \in Tokens |-> IF j = k THEN password ELSE Dead]

\* The rest: it waits for a token whose redemption is under way.
Issue(w) ==
  /\ workers[w].pc = "issue"
  /\ ~\E k \in Tokens : RowLocked(k)
  /\ \E k \in Tokens :
       /\ tokens[k] = Dead /\ \A c \in Confirmations : confirmations[c].token # k
       /\ tokens' = Issued(k)
  /\ userLock' = Nobody
  /\ Goto(w, "send")
  /\ UNCHANGED <<account, sessions, logins, confirmations, outbox, faults>>

\* The token cannot be made, or the transaction fails (as a deadlock's victim, too).
IssueFails(w) ==
  /\ workers[w].pc \in {"account", "issue"}
  /\ userLock' = IF userLock = w THEN Nobody ELSE userLock
  /\ Goto(w, "retry")
  /\ UNCHANGED <<unlessOutbox, outbox, faults>>

\* SendPasswordReset.
Send(w) ==
  /\ workers[w].pc = "send"
  /\ \E pc \in {"complete", "retry"} : Goto(w, pc)
  /\ UNCHANGED <<unlessOutbox, userLock, outbox, faults>>

\* CompletePasswordResetRequest.
Completed(r) == IF outbox[r].processed THEN outbox[r] ELSE [outbox[r] EXCEPT !.processed = TRUE, !.lease = "none"]

\* Fault: whoever comes late puts the request back.
RetriedAlways(r) ==
  [outbox[r] EXCEPT !.lease = "none", !.available = FALSE, !.processed = outbox[r].attempts >= MaxAttempts]

\* RetryPasswordResetRequest: later, unless it was tried often enough.
Retried(r) ==
  IF outbox[r].processed THEN outbox[r]
  ELSE [outbox[r] EXCEPT !.lease = "none", !.available = FALSE,
                         !.processed = outbox[r].attempts >= MaxAttempts]

Finish(w) ==
  /\ workers[w].pc \in {"complete", "retry"}
  /\ outbox' = [outbox EXCEPT ![RequestOf(w)] = IF workers[w].pc = "complete" THEN Completed(RequestOf(w))
                                                ELSE Retried(RequestOf(w))]
  /\ workers' = [workers EXCEPT ![w] = Idle]
  /\ UNCHANGED <<unlessOutbox, userLock, faults>>

\* The worker dies, or cannot write its result: the request stays claimed.
WorkerFails(w) ==
  /\ workers[w] # Idle /\ faults < MaxFaults
  /\ faults' = faults + 1
  /\ userLock' = IF userLock = w THEN Nobody ELSE userLock
  /\ workers' = [workers EXCEPT ![w] = Idle]
  /\ UNCHANGED <<unlessOutbox, outbox>>

LeaseExpires(r) ==
  /\ outbox[r].lease = "held"
  /\ outbox' = [outbox EXCEPT ![r].lease = "expired"]
  /\ UNCHANGED <<unlessOutbox, userLock, workers, faults>>

BecomesAvailable(r) ==
  /\ outbox[r].queued /\ ~outbox[r].available
  /\ outbox' = [outbox EXCEPT ![r].available = TRUE]
  /\ UNCHANGED <<unlessOutbox, userLock, workers, faults>>

-----------------------------------------------------------------------------

WorkerStep(w) == Claim(w) \/ LockUser(w) \/ Issue(w) \/ IssueFails(w) \/ Send(w) \/ Finish(w)
ConfirmationStep(c) == Redeem(c) \/ ChangePassword(c) \/ ConfirmationFails(c)

Next ==
  \/ \E s \in Logins : ReadHash(s) \/ CreateSession(s) \/ EndSession(s)
  \/ \E d \in BOOLEAN : SetDisabled(d)
  \/ \E c \in Confirmations : ConfirmationStep(c) \/ \E k \in Tokens : CheckToken(c, k)
  \/ \E k \in Tokens : TokenExpires(k)
  \/ \E r \in Requests : Queue(r) \/ LeaseExpires(r) \/ BecomesAvailable(r)
  \/ \E w \in Workers : WorkerStep(w) \/ WorkerFails(w)

\* Workers and transactions go on (a deadlock is ended by one of them failing),
\* and time passes.
Fairness ==
  /\ \A w \in Workers : WF_vars(WorkerStep(w))
  /\ \A c \in Confirmations : WF_vars(ConfirmationStep(c))
  /\ \A r \in Requests : WF_vars(LeaseExpires(r)) /\ WF_vars(BecomesAvailable(r))

Spec == Init /\ [][Next]_vars /\ Fairness

-----------------------------------------------------------------------------
(* What holds.                                                              *)

\* A session is alive only under the password it was opened with, and only while
\* the account is enabled: a login that compared its hash before a reset or a
\* disabling opens none after it.
SessionsFollowPassword ==
  \A s \in Logins : sessions[s] # Dead => sessions[s] = password /\ ~disabled

\* One link works at a time, and none that was issued before the password last
\* changed, though workers overtake each other and links are redeemed while new
\* ones are issued.
OneLinkWorks ==
  \A j, k \in Tokens : tokens[j] # Dead /\ tokens[k] # Dead => j = k /\ tokens[k] = password

\* A processed request stays processed: a worker that was overtaken and fails
\* later does not put it back.
ProcessedIsFinal == [][\A r \in Requests : outbox[r].processed => outbox'[r].processed]_vars

\* Every request is processed in the end, by its mail or by giving up, whatever
\* fails or overtakes what.
RequestsAreSettled == \A r \in Requests : outbox[r].queued ~> outbox[r].processed

=============================================================================
