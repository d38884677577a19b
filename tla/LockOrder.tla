----------------------------- MODULE LockOrder -----------------------------
(***************************************************************************)
(* The locks that the transactions on one account's cards take, and the    *)
(* order they take them in (server/internal/boards/store.go,               *)
(* storage_quota.go; auth/pgstore.go DeleteAgent).  Agent credentials are  *)
(* not among them: RotateCredential (agents/store.go), which locks a key   *)
(* and an agent and no account, is in Credentials.                         *)
(*                                                                         *)
(* A plan is what one operation locks: a sequence of sets.  The locks of a *)
(* set are asked for one at a time in any order (rows of one statement     *)
(* come in the order the database finds them), a set after the sets before *)
(* it.  A lock that is held is not asked for again, and all are held until *)
(* the transaction ends.  The layout of the board does not change here:    *)
(* what the operations do to it is in Lists and TaskWorkflow.              *)
(***************************************************************************)
EXTENDS Integers, Sequences, FiniteSets

CONSTANTS
  Txns,                  \* transactions
  Lists, Cards, Agents,  \* rows
  Keys,                  \* idempotency keys (advisory locks)
  HomeOf,                \* [Cards -> Lists]
  ParentOf,              \* [Cards -> Cards \cup {NoCard}]
  AssigneeOf,            \* [Cards -> Agents]
  Inbox,
  NoCard, NoLock, NoTxn, Ended,
  Account, Move          \* the account row; the advisory lock of moves

Rows == Lists \cup Cards \cup Agents
Locks == Keys \cup {Move, Account} \cup Rows

ASSUME LockAssumptions ==
  /\ HomeOf \in [Cards -> Lists] /\ Inbox \in Lists
  /\ ParentOf \in [Cards -> Cards \cup {NoCard}] /\ NoCard \notin Cards
  /\ AssigneeOf \in [Cards -> Agents]
  /\ NoLock \notin Locks
  /\ Account # Move /\ {Account, Move} \cap (Keys \cup Rows) = {}
  /\ Keys \cap Rows = {}

VARIABLES
  txns   \* [Txns -> NoTxn, or what the transaction locks, holds and waits for;
         \*  Ended for one that is over]

vars == <<txns>>

-----------------------------------------------------------------------------
(* What each operation locks.  k is a set with the request's idempotency    *)
(* key, or empty.                                                           *)

CardsIn(l) == {c \in Cards : HomeOf[c] = l}
ChildrenOf(c) == {d \in Cards : ParentOf[d] = c}
ParentsOf(c) == {ParentOf[c]} \ {NoCard}

Plan(op, steps) == [op |-> op, steps |-> steps]

EnsureInbox == Plan("EnsureInbox", <<{Account}, {Inbox}>>)
CreateBucket == Plan("CreateBucket", <<{Account}, {Inbox}>>)
UpdateBucket(l) == Plan("UpdateBucket", <<{Account}, {l}, {Inbox}>>)
ReorderBuckets == Plan("ReorderBuckets", <<{Account}, Lists>>)
DeleteBucket(l) == Plan("DeleteBucket", <<{Account}, {l}, CardsIn(l)>>)

CreateTask(k, l, a) == Plan("CreateTask", <<k, {Account}, {l}, a>>)

\* Fault: the account is locked before the key.
CreateInboxTaskAccountFirst(k, a) == Plan("CreateInboxTask", <<{Account}, {Inbox}, k, a>>)

CreateInboxTask(k, a) == Plan("CreateInboxTask", <<k, {Account}, {Inbox}, a>>)
CreateSubtask(k, c, a) == Plan("CreateSubtask", <<k, {Account}, {c}, {HomeOf[c]}, a>>)

MoveTask(c, l) ==
  Plan("MoveTask", <<{Move}, {Account}, {c}, {AssigneeOf[c]}, ParentsOf(c), {l},
                     CardsIn(l) \cup ChildrenOf(c), CardsIn(HomeOf[c])>>)

ReorderTasks(l) == Plan("ReorderTasks", <<{Account}, CardsIn(l)>>)
ReorderSubtasks(c) ==
  Plan("ReorderSubtasks", <<{Move}, {Account}, {c}, ChildrenOf(c), CardsIn(HomeOf[c])>>)
DeleteTask(c) == Plan("DeleteTask", <<{Account}, {c}, ChildrenOf(c)>>)
CreateTaskEntry(k, c) == Plan("CreateTaskEntry", <<k, {Account}, {c}>>)

\* updateTask with a title, a description or a list takes the account first; the
\* list changes only in the second form.
UpdateText(c, l) == Plan("UpdateText", <<{Account}, {c}, {AssigneeOf[c]}, l>>)
UpdateList(c, l) ==
  Plan("UpdateList", <<{Account}, {c}, ParentsOf(c), {l}, CardsIn(l) \cup ChildrenOf(c),
                       CardsIn(HomeOf[c]), {AssigneeOf[c]}>>)

\* updateTask with anything else, claimTask, listTaskEntries and DeleteAgent (whose
\* foreign key rewrites the agent's cards) never take the account.
UpdateStatus(c, l) == Plan("UpdateStatus", <<{c}, {AssigneeOf[c]}, l>>)
ClaimTask(c) == Plan("ClaimTask", <<{c}>>)
ListTaskEntries(c) == Plan("ListTaskEntries", <<{c}>>)
DeleteAgent(a) == Plan("DeleteAgent", <<{a}, {c \in Cards : AssigneeOf[c] = a}>>)

MaybeKey == {{}} \cup {{k} : k \in Keys}
MaybeAgent == {{}} \cup {{a} : a \in Agents}

ListPlans ==
  {EnsureInbox, CreateBucket, ReorderBuckets}
    \cup UNION {{UpdateBucket(l), DeleteBucket(l), ReorderTasks(l)} : l \in Lists}

CreatePlans ==
  {CreateTask(k, l, a) : k \in MaybeKey, l \in Lists, a \in MaybeAgent}
    \cup {CreateInboxTask(k, a) : k \in MaybeKey, a \in MaybeAgent}
    \cup {CreateSubtask(k, c, a) : k \in MaybeKey, c \in {d \in Cards : ParentOf[d] = NoCard}, a \in MaybeAgent}
    \cup {CreateTaskEntry(k, c) : k \in MaybeKey, c \in Cards}

MovePlans ==
  {MoveTask(c, l) : c \in Cards, l \in Lists}
    \cup {UpdateList(c, l) : c \in Cards, l \in Lists}
    \cup UNION {{UpdateText(c, {}), UpdateText(c, {HomeOf[c]}), ReorderSubtasks(c), DeleteTask(c)} : c \in Cards}

RowPlans ==
  {DeleteAgent(a) : a \in Agents}
    \cup {ClaimTask(c) : c \in Cards}
    \cup {ListTaskEntries(c) : c \in Cards}
    \cup UNION {{UpdateStatus(c, {}), UpdateStatus(c, {HomeOf[c]})} : c \in Cards}

Plans == ListPlans \cup CreatePlans \cup MovePlans \cup RowPlans

-----------------------------------------------------------------------------
(* Transactions.                                                            *)

Open(t) == txns[t] \notin {NoTxn, Ended}

\* FOR KEY SHARE on an agent, FOR SHARE on a card: these do not exclude each other.
Shares(t, x) ==
  \/ x \in Agents /\ txns[t].plan.op # "DeleteAgent"
  \/ x \in Cards /\ txns[t].plan.op = "ListTaskEntries"

Holds(t, x) == Open(t) /\ x \in txns[t].held

Conflict(t, h, x) == t # h /\ Holds(h, x) /\ ~(Shares(t, x) /\ Shares(h, x))

\* The locks of the first set that is not held yet.
Wants(t) ==
  LET steps   == txns[t].plan.steps
      pending == {i \in DOMAIN steps : ~(steps[i] \subseteq txns[t].held)}
  IN  UNION {steps[i] \ txns[t].held : i \in {j \in pending : \A n \in pending : j <= n}}

Asks(t) == Open(t) /\ txns[t].asks # NoLock
Blockers(t) == {h \in Txns : Asks(t) /\ Conflict(t, h, txns[t].asks)}

Init == txns = [t \in Txns |-> NoTxn]

Begin(t, p) ==
  /\ txns[t] = NoTxn
  /\ txns' = [txns EXCEPT ![t] = [plan |-> p, held |-> {}, asks |-> NoLock]]

Ask(t) ==
  /\ Open(t) /\ ~Asks(t)
  /\ \E x \in Wants(t) : txns' = [txns EXCEPT ![t].asks = x]

Grant(t) ==
  /\ Asks(t) /\ Blockers(t) = {}
  /\ txns' = [txns EXCEPT ![t].held = @ \cup {txns[t].asks}, ![t].asks = NoLock]

\* Fault: the transaction is left open, with nothing more to do.
AfterReturnOpen(t) == [txns[t] EXCEPT !.plan.steps = <<{NoLock}>>]

\* defer tx.Rollback: whichever way the function returns, nothing stays locked.
AfterReturn(t) == Ended

\* Everything is locked and written.
Commit(t) ==
  /\ Open(t) /\ ~Asks(t) /\ Wants(t) = {}
  /\ txns' = [txns EXCEPT ![t] = Ended]

\* Between two statements: a row is not there, a limit is reached, a key is
\* answered from what is stored.
Return(t) ==
  /\ Open(t) /\ ~Asks(t) /\ Wants(t) # {}
  /\ txns' = [txns EXCEPT ![t] = AfterReturn(t)]

\* Sets of transactions that all wait for one of the set.
Deadlocks == {S \in SUBSET {t \in Txns : Asks(t)} :
                S # {} /\ \A t \in S : Blockers(t) \cap S # {}}

\* PostgreSQL ends one transaction of a cycle with an error.
Abort(t) ==
  /\ \E S \in Deadlocks : t \in S /\ \A R \in Deadlocks : R \subseteq S => R = S
  /\ txns' = [txns EXCEPT ![t] = AfterReturn(t)]

Next ==
  \E t \in Txns :
    \/ \E p \in Plans : Begin(t, p)
    \/ Ask(t) \/ Grant(t) \/ Commit(t) \/ Return(t) \/ Abort(t)

\* A transaction goes on when it can, and the deadlock detector does its work.
Fairness ==
  \A t \in Txns : WF_vars(Ask(t)) /\ WF_vars(Grant(t)) /\ WF_vars(Commit(t)) /\ WF_vars(Abort(t))

Spec == Init /\ [][Next]_vars /\ Fairness

-----------------------------------------------------------------------------
(* What holds.                                                              *)

TakesAccount(t) == \E i \in DOMAIN txns[t].plan.steps : Account \in txns[t].plan.steps[i]

\* Operations that lock the account cannot deadlock among themselves, whatever
\* keys, lists, cards and agents they share: an idempotency key goes before the
\* account and every row after it.  A deadlock needs one of the operations that
\* lock rows without the account (a change of status or assignee, a claim, a
\* reading of the conversation, the removal of an agent).
AccountLockersNeverDeadlock ==
  \A S \in Deadlocks : \E t \in S : ~TakesAccount(t)

\* No transaction waits for ever: one that began comes to an end, also when
\* others return early, or are chosen as the victim of a deadlock.
TransactionsEnd == \A t \in Txns : Open(t) ~> txns[t] = Ended

=============================================================================
