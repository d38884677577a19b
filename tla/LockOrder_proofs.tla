-------------------------- MODULE LockOrder_proofs --------------------------
(***************************************************************************)
(* Operations that lock the account never deadlock among themselves, for   *)
(* any number of transactions, lists, cards, agents and keys and any       *)
(* layout of the board.                                                    *)
(*                                                                         *)
(* One that holds or waits for a row holds the account, which only one can *)
(* (LocksInv): so none of them ever waits for another's row.  One that     *)
(* waits for a key, or to move cards, holds nothing.  Of a set that wait   *)
(* for each other, every member would have to wait for the account, and    *)
(* the one that holds it does not.                                         *)
(***************************************************************************)
EXTENDS LockOrder, TLAPS

TakesFirst == Keys \cup {Move}

\* What a plan that takes the account looks like.
AccountFirst(steps) ==
  /\ \A i \in DOMAIN steps : \A x \in steps[i] \cap Rows :
       \E j \in DOMAIN steps : j < i /\ Account \in steps[j]
  /\ \A i \in DOMAIN steps : \A x \in steps[i] \cap TakesFirst : i = 1

WellFormed(steps) ==
  /\ DOMAIN steps \subseteq Nat \ {0} /\ 1 \in DOMAIN steps
  /\ \A i \in DOMAIN steps : steps[i] \subseteq Locks
  /\ \A x, y \in steps[1] : x = y
  /\ (\E i \in DOMAIN steps : Account \in steps[i]) => AccountFirst(steps)

-----------------------------------------------------------------------------
(* The plans.                                                               *)

\* Rows, keys and the two locks are locks, and told apart.
LEMMA LocksDiffer ==
  /\ Account \in Locks /\ Move \in Locks /\ Rows \subseteq Locks /\ Keys \subseteq Locks
  /\ Account \notin Rows /\ Account \notin TakesFirst /\ Account # Move
  /\ \A x \in Rows : x \notin TakesFirst
  /\ \A x \in Locks : x = Account \/ x \in Rows \/ x \in TakesFirst
BY LockAssumptions DEF Locks, TakesFirst

\* The sets of rows that plans are made of.
LEMMA RowSets ==
  /\ Lists \subseteq Rows /\ Cards \subseteq Rows /\ Agents \subseteq Rows /\ Inbox \in Rows
  /\ \A l : CardsIn(l) \subseteq Rows
  /\ \A c \in Cards : /\ ChildrenOf(c) \subseteq Rows /\ ParentsOf(c) \subseteq Rows
                      /\ HomeOf[c] \in Rows /\ AssigneeOf[c] \in Rows
BY LockAssumptions DEF Rows, CardsIn, ChildrenOf, ParentsOf

\* A plan takes a key or the lock of moves, the account, and then rows; or the
\* account and then rows; or rows only, one row first.
Numbered(steps) == DOMAIN steps \subseteq Nat \ {0} /\ 1 \in DOMAIN steps

KeyShape(steps) ==
  /\ Numbered(steps) /\ 2 \in DOMAIN steps
  /\ steps[1] \subseteq TakesFirst /\ \A x, y \in steps[1] : x = y
  /\ steps[2] = {Account}
  /\ \A i \in DOMAIN steps \ {1, 2} : steps[i] \subseteq Rows

AccountShape(steps) ==
  /\ Numbered(steps)
  /\ steps[1] = {Account}
  /\ \A i \in DOMAIN steps \ {1} : steps[i] \subseteq Rows

RowShape(steps) ==
  /\ Numbered(steps)
  /\ \A x, y \in steps[1] : x = y
  /\ \A i \in DOMAIN steps : steps[i] \subseteq Rows

\* Every shape keeps the order.
LEMMA ShapesAreWellFormed ==
  ASSUME NEW steps, KeyShape(steps) \/ AccountShape(steps) \/ RowShape(steps)
  PROVE  WellFormed(steps)
<1>1. CASE KeyShape(steps)
  <2>1. steps[1] \cap Rows = {} /\ steps[1] \subseteq Locks
    BY <1>1, LocksDiffer DEF KeyShape, TakesFirst
  <2>2. \A i \in DOMAIN steps : steps[i] \subseteq Locks
    BY <1>1, <2>1, LocksDiffer DEF KeyShape
  <2>3. ASSUME NEW i \in DOMAIN steps, NEW x \in steps[i] \cap Rows
        PROVE  \E j \in DOMAIN steps : j < i /\ Account \in steps[j]
    <3>1. i # 1 /\ i # 2 /\ i \in Nat \ {0}
      BY <1>1, <2>1, <2>3, LocksDiffer DEF KeyShape, Numbered
    <3> QED
      BY <1>1, <3>1 DEF KeyShape
  <2>4. \A i \in DOMAIN steps : \A x \in steps[i] \cap TakesFirst : i = 1
    BY <1>1, LocksDiffer DEF KeyShape
  <2>5. AccountFirst(steps)
    BY <2>3, <2>4 DEF AccountFirst
  <2> QED
    BY <1>1, <2>2, <2>5 DEF WellFormed, KeyShape, Numbered
<1>2. CASE AccountShape(steps)
  <2>1. \A i \in DOMAIN steps : steps[i] \subseteq Locks
    BY <1>2, LocksDiffer DEF AccountShape
  <2>2. ASSUME NEW i \in DOMAIN steps, NEW x \in steps[i] \cap Rows
        PROVE  \E j \in DOMAIN steps : j < i /\ Account \in steps[j]
    <3>1. i # 1 /\ i \in Nat \ {0}
      BY <1>2, <2>2, LocksDiffer DEF AccountShape, Numbered
    <3> QED
      BY <1>2, <3>1 DEF AccountShape, Numbered
  <2>3. \A i \in DOMAIN steps : \A x \in steps[i] \cap TakesFirst : i = 1
    BY <1>2, LocksDiffer DEF AccountShape
  <2>4. AccountFirst(steps)
    BY <2>2, <2>3 DEF AccountFirst
  <2>5. \A x, y \in steps[1] : x = y
    BY <1>2 DEF AccountShape
  <2> QED
    BY <1>2, <2>1, <2>4, <2>5 DEF WellFormed, AccountShape, Numbered
<1>3. CASE RowShape(steps)
  <2>1. \A i \in DOMAIN steps : steps[i] \subseteq Locks /\ Account \notin steps[i]
    BY <1>3, LocksDiffer DEF RowShape
  <2> QED
    BY <1>3, <2>1 DEF WellFormed, RowShape, Numbered
<1> QED
  BY <1>1, <1>2, <1>3

\* Every plan has one of the shapes.
LEMMA PlansAreWellFormed == \A p \in Plans : WellFormed(p.steps)
<1> USE LocksDiffer, RowSets DEF Numbered, Plan
<1>1. \A k \in MaybeKey : k \subseteq TakesFirst /\ \A x, y \in k : x = y
  BY DEF MaybeKey, TakesFirst
<1>2. \A a \in MaybeAgent : a \subseteq Rows
  BY DEF MaybeAgent
<1>3. {Move} \subseteq TakesFirst
  BY DEF TakesFirst
<1>4. /\ AccountShape(EnsureInbox.steps)
      /\ AccountShape(CreateBucket.steps)
      /\ AccountShape(ReorderBuckets.steps)
  <2>1. AccountShape(EnsureInbox.steps)
    BY DEF AccountShape, EnsureInbox
  <2>2. AccountShape(CreateBucket.steps)
    BY DEF AccountShape, CreateBucket
  <2>3. AccountShape(ReorderBuckets.steps)
    BY DEF AccountShape, ReorderBuckets
  <2> QED
    BY <2>1, <2>2, <2>3
<1>5. ASSUME NEW l \in Lists
      PROVE  /\ AccountShape(UpdateBucket(l).steps)
             /\ AccountShape(DeleteBucket(l).steps)
             /\ AccountShape(ReorderTasks(l).steps)
  <2>1. AccountShape(UpdateBucket(l).steps)
    BY DEF AccountShape, UpdateBucket
  <2>2. AccountShape(DeleteBucket(l).steps)
    BY DEF AccountShape, DeleteBucket
  <2>3. AccountShape(ReorderTasks(l).steps)
    BY DEF AccountShape, ReorderTasks
  <2> QED
    BY <2>1, <2>2, <2>3
<1>6. ASSUME NEW k \in MaybeKey, NEW l \in Lists, NEW a \in MaybeAgent
      PROVE  /\ KeyShape(CreateTask(k, l, a).steps)
             /\ KeyShape(CreateInboxTask(k, a).steps)
  <2>1. KeyShape(CreateTask(k, l, a).steps)
    BY <1>1, <1>2 DEF KeyShape, CreateTask
  <2>2. KeyShape(CreateInboxTask(k, a).steps)
    BY <1>1, <1>2 DEF KeyShape, CreateInboxTask
  <2> QED
    BY <2>1, <2>2
<1>7. ASSUME NEW k \in MaybeKey, NEW c \in Cards, NEW a \in MaybeAgent
      PROVE  /\ KeyShape(CreateSubtask(k, c, a).steps)
             /\ KeyShape(CreateTaskEntry(k, c).steps)
  <2>1. KeyShape(CreateSubtask(k, c, a).steps)
    BY <1>1, <1>2 DEF KeyShape, CreateSubtask
  <2>2. KeyShape(CreateTaskEntry(k, c).steps)
    BY <1>1, <1>2 DEF KeyShape, CreateTaskEntry
  <2> QED
    BY <2>1, <2>2
<1>8. ASSUME NEW c \in Cards, NEW l \in Lists
      PROVE  /\ KeyShape(MoveTask(c, l).steps)
             /\ KeyShape(ReorderSubtasks(c).steps)
  <2>1. KeyShape(MoveTask(c, l).steps)
    BY <1>3 DEF KeyShape, MoveTask
  <2>2. KeyShape(ReorderSubtasks(c).steps)
    BY <1>3 DEF KeyShape, ReorderSubtasks
  <2> QED
    BY <2>1, <2>2
<1>9. ASSUME NEW c \in Cards, NEW l \in Lists, NEW h \in {{}, {HomeOf[c]}}
      PROVE  /\ AccountShape(UpdateText(c, h).steps)
             /\ AccountShape(UpdateList(c, l).steps)
             /\ AccountShape(DeleteTask(c).steps)
  <2>1. AccountShape(UpdateText(c, h).steps)
    BY DEF AccountShape, UpdateText
  <2>2. AccountShape(UpdateList(c, l).steps)
    BY DEF AccountShape, UpdateList
  <2>3. AccountShape(DeleteTask(c).steps)
    BY DEF AccountShape, DeleteTask
  <2> QED
    BY <2>1, <2>2, <2>3
<1>10. ASSUME NEW c \in Cards, NEW h \in {{}, {HomeOf[c]}}
      PROVE  /\ RowShape(UpdateStatus(c, h).steps)
             /\ RowShape(ClaimTask(c).steps)
             /\ RowShape(ListTaskEntries(c).steps)
  <2>1. RowShape(UpdateStatus(c, h).steps)
    BY DEF RowShape, UpdateStatus
  <2>2. RowShape(ClaimTask(c).steps)
    BY DEF RowShape, ClaimTask
  <2>3. RowShape(ListTaskEntries(c).steps)
    BY DEF RowShape, ListTaskEntries
  <2> QED
    BY <2>1, <2>2, <2>3
<1>11. ASSUME NEW a \in Agents
      PROVE  /\ RowShape(DeleteAgent(a).steps)
  BY DEF RowShape, DeleteAgent
<1>12. ASSUME NEW p \in Plans PROVE WellFormed(p.steps)
  <2> HIDE LocksDiffer, RowSets
  <2> HIDE DEF Numbered, Plan
  <2>1. Inbox \in Lists /\ {} \in MaybeAgent
    BY LockAssumptions DEF MaybeAgent
  <2>2. CASE p \in ListPlans
    BY <1>4, <1>5, <2>2, ShapesAreWellFormed DEF ListPlans
  <2>3. CASE p \in CreatePlans
    <3>1. \/ \E k \in MaybeKey, l \in Lists, a \in MaybeAgent : p = CreateTask(k, l, a)
          \/ \E k \in MaybeKey, a \in MaybeAgent : p = CreateInboxTask(k, a)
          \/ \E k \in MaybeKey, c \in Cards, a \in MaybeAgent : p = CreateSubtask(k, c, a)
          \/ \E k \in MaybeKey, c \in Cards : p = CreateTaskEntry(k, c)
      BY <2>3 DEF CreatePlans
    <3> QED
      BY <1>6, <1>7, <2>1, <3>1, ShapesAreWellFormed
  <2>4. CASE p \in MovePlans
    <3>1. \/ \E c \in Cards, l \in Lists : p = MoveTask(c, l) \/ p = UpdateList(c, l)
          \/ \E c \in Cards : p \in {UpdateText(c, {}), UpdateText(c, {HomeOf[c]}), ReorderSubtasks(c), DeleteTask(c)}
      BY <2>4 DEF MovePlans
    <3> QED
      BY <1>8, <1>9, <2>1, <3>1, ShapesAreWellFormed
  <2>5. CASE p \in RowPlans
    <3>1. \/ \E c \in Cards : p \in {UpdateStatus(c, {}), UpdateStatus(c, {HomeOf[c]}), ClaimTask(c), ListTaskEntries(c)}
          \/ \E a \in Agents : p = DeleteAgent(a)
      BY <2>5 DEF RowPlans
    <3> QED
      BY <1>10, <1>11, <3>1, ShapesAreWellFormed
  <2> QED
    BY <2>2, <2>3, <2>4, <2>5 DEF Plans
<1> QED
  BY <1>12

-----------------------------------------------------------------------------
(* The invariant.                                                           *)

Transaction == [plan : Plans, held : SUBSET Locks, asks : Locks \cup {NoLock}]

\* What a transaction wants depends on its own record only.
WantsOf(r) ==
  LET pending == {i \in DOMAIN r.plan.steps : ~(r.plan.steps[i] \subseteq r.held)}
  IN  UNION {r.plan.steps[i] \ r.held : i \in {j \in pending : \A n \in pending : j <= n}}

TakesAccountOf(r) == \E i \in DOMAIN r.plan.steps : Account \in r.plan.steps[i]

\* A transaction asks for what comes next, holds its first set when it holds
\* anything, and holds the account when it holds a row.
RecordInv(r) ==
  /\ r \in Transaction
  /\ r.asks # NoLock => r.asks \in WantsOf(r)
  /\ r.held # {} => r.plan.steps[1] \subseteq r.held
  /\ TakesAccountOf(r) /\ r.held \cap Rows # {} => Account \in r.held

LocksInv ==
  /\ txns = [t \in Txns |-> txns[t]]
  /\ \A t \in Txns : Open(t) => RecordInv(txns[t])
  /\ \A t, h \in Txns : Holds(t, Account) /\ Holds(h, Account) => t = h

\* What a waiting transaction holds.
LEMMA WaitingHolds ==
  ASSUME NEW r, RecordInv(r), r.asks # NoLock
  PROVE  /\ r.asks \in Locks /\ r.asks \notin r.held
         /\ TakesAccountOf(r) /\ r.asks \in Rows => Account \in r.held
         /\ TakesAccountOf(r) /\ r.asks \in TakesFirst => r.held = {}
<1> DEFINE steps == r.plan.steps
<1>1. WellFormed(steps)
  BY PlansAreWellFormed DEF RecordInv, Transaction
<1>2. PICK i \in DOMAIN steps :
        /\ r.asks \in steps[i] \ r.held
        /\ \A j \in DOMAIN steps : j < i => steps[j] \subseteq r.held
  <2>1. PICK i \in DOMAIN steps :
          /\ r.asks \in steps[i] \ r.held
          /\ \A n \in DOMAIN steps : ~(steps[n] \subseteq r.held) => i <= n
    BY DEF RecordInv, WantsOf
  <2>2. \A n \in DOMAIN steps : n \in Int
    BY <1>1 DEF WellFormed
  <2> QED
    BY <2>1, <2>2
<1>3. r.asks \in Locks /\ r.asks \notin r.held
  BY <1>1, <1>2 DEF WellFormed
<1>4. ASSUME TakesAccountOf(r), r.asks \in Rows PROVE Account \in r.held
  <2>1. AccountFirst(steps)
    BY <1>1, <1>4 DEF WellFormed, TakesAccountOf
  <2> QED
    BY <1>2, <1>4, <2>1 DEF AccountFirst
<1>5. ASSUME TakesAccountOf(r), r.asks \in TakesFirst PROVE r.held = {}
  <2>1. AccountFirst(steps)
    BY <1>1, <1>5 DEF WellFormed, TakesAccountOf
  <2>2. i = 1
    BY <1>2, <1>5, <2>1 DEF AccountFirst
  <2> QED
    BY <1>2, <2>2 DEF RecordInv
<1> QED
  BY <1>3, <1>4, <1>5

\* A grant keeps what is said of the record.
LEMMA GrantKeepsRecord ==
  ASSUME NEW r, RecordInv(r), r.asks # NoLock
  PROVE  RecordInv([r EXCEPT !.held = @ \cup {r.asks}, !.asks = NoLock])
<1> DEFINE s == [r EXCEPT !.held = @ \cup {r.asks}, !.asks = NoLock]
           steps == r.plan.steps
<1>1. r \in Transaction /\ WellFormed(steps)
  BY PlansAreWellFormed DEF RecordInv, Transaction
<1>2. s \in Transaction /\ s.plan = r.plan /\ s.held = r.held \cup {r.asks} /\ s.asks = NoLock
  BY <1>1, WaitingHolds DEF Transaction
<1>3. steps[1] \subseteq s.held
  <2>1. CASE r.held # {}
    BY <1>2, <2>1 DEF RecordInv
  <2>2. CASE r.held = {} /\ steps[1] # {}
    <3>1. PICK i \in DOMAIN steps :
            r.asks \in steps[i] /\ \A n \in DOMAIN steps : ~(steps[n] \subseteq r.held) => i <= n
      BY DEF RecordInv, WantsOf
    <3>2. 1 \in DOMAIN steps /\ i \in Nat \ {0} /\ i <= 1
      BY <1>1, <2>2, <3>1 DEF WellFormed
    <3>3. i = 1
      BY <3>2
    <3> QED
      BY <1>1, <1>2, <3>1, <3>3 DEF WellFormed
  <2> QED
    BY <2>1, <2>2
<1>4. ASSUME TakesAccountOf(s), s.held \cap Rows # {} PROVE Account \in s.held
  <2>1. TakesAccountOf(r)
    BY <1>2, <1>4 DEF TakesAccountOf
  <2>2. r.held \cap Rows # {} \/ r.asks \in Rows
    BY <1>2, <1>4
  <2> QED
    BY <1>2, <2>1, <2>2, WaitingHolds DEF RecordInv
<1> QED
  BY <1>2, <1>3, <1>4 DEF RecordInv

\* Nothing is open at the start.
LEMMA InitLocks == Init => LocksInv
BY DEF Init, LocksInv, Open, Holds

\* A transaction that ends takes its locks with it.
LEMMA EndKeepsLocks ==
  ASSUME LocksInv, NEW t \in Txns, txns' = [txns EXCEPT ![t] = Ended]
  PROVE  LocksInv'
<1>1. /\ txns' = [u \in Txns |-> txns'[u]]
      /\ \A u \in Txns : u # t => txns'[u] = txns[u]
      /\ txns'[t] = Ended
  BY DEF LocksInv
<1>2. ~Open(t)' /\ \A u \in Txns : u # t => (Open(u)' <=> Open(u))
  BY <1>1 DEF Open
<1>3. \A u \in Txns : Open(u)' => RecordInv(txns'[u])
  BY <1>1, <1>2 DEF LocksInv
<1>4. \A u, h \in Txns : Holds(u, Account)' /\ Holds(h, Account)' => u = h
  BY <1>1, <1>2 DEF LocksInv, Holds
<1> QED
  BY <1>1, <1>3, <1>4 DEF LocksInv

\* Every step keeps the invariant.
LEMMA NextLocks == LocksInv /\ [Next]_vars => LocksInv'
<1> SUFFICES ASSUME LocksInv, [Next]_vars PROVE LocksInv'
  OBVIOUS
<1>1. ASSUME NEW t \in Txns, NEW p \in Plans, Begin(t, p) PROVE LocksInv'
  <2> DEFINE r == [plan |-> p, held |-> {}, asks |-> NoLock]
  <2>1. /\ txns' = [u \in Txns |-> txns'[u]] /\ txns'[t] = r
        /\ \A u \in Txns : u # t => txns'[u] = txns[u]
    BY <1>1 DEF LocksInv, Begin
  <2>2. RecordInv(r)
    BY DEF RecordInv, Transaction
  <2>3. \A u \in Txns : Open(u)' => RecordInv(txns'[u])
    BY <2>1, <2>2 DEF LocksInv, Open
  <2>4. ~Holds(t, Account)' /\ \A u \in Txns : u # t => (Holds(u, Account)' <=> Holds(u, Account))
    BY <2>1 DEF Holds, Open
  <2> QED
    BY <2>1, <2>3, <2>4 DEF LocksInv
<1>2. ASSUME NEW t \in Txns, Ask(t) PROVE LocksInv'
  <2>1. PICK x \in Wants(t) : txns' = [txns EXCEPT ![t].asks = x]
    BY <1>2 DEF Ask
  <2> DEFINE r == txns[t]
             s == [r EXCEPT !.asks = x]
  <2>2. /\ txns' = [u \in Txns |-> txns'[u]] /\ txns'[t] = s
        /\ \A u \in Txns : u # t => txns'[u] = txns[u]
    BY <2>1 DEF LocksInv
  <2>3. Open(t) /\ RecordInv(r) /\ x \in WantsOf(r)
    BY <1>2, <2>1 DEF Ask, LocksInv, Wants, WantsOf
  <2>4. r \in Transaction /\ WellFormed(r.plan.steps)
    BY <2>3, PlansAreWellFormed DEF RecordInv, Transaction
  <2>5. x \in Locks
    BY <2>3, <2>4 DEF WantsOf, WellFormed
  <2>6. s \in Transaction /\ s.plan = r.plan /\ s.held = r.held /\ s.asks = x
    BY <2>4, <2>5 DEF Transaction
  <2>7. WantsOf(s) = WantsOf(r) /\ (TakesAccountOf(s) <=> TakesAccountOf(r))
    BY <2>6 DEF WantsOf, TakesAccountOf
  <2>8. RecordInv(s)
    BY <2>3, <2>6, <2>7 DEF RecordInv
  <2>9. \A u \in Txns : Open(u)' => RecordInv(txns'[u])
    BY <2>2, <2>8 DEF LocksInv, Open
  <2>10. \A u \in Txns : Holds(u, Account)' => Holds(u, Account)
    BY <2>2, <2>3, <2>6 DEF Holds, Open
  <2> QED
    BY <2>2, <2>9, <2>10 DEF LocksInv
<1>3. ASSUME NEW t \in Txns, Grant(t) PROVE LocksInv'
  <2> DEFINE r == txns[t]
             s == [r EXCEPT !.held = @ \cup {r.asks}, !.asks = NoLock]
  <2>1. Open(t) /\ r.asks # NoLock /\ RecordInv(r)
    BY <1>3 DEF Grant, Asks, LocksInv
  <2>2. /\ txns' = [u \in Txns |-> txns'[u]] /\ txns'[t] = s
        /\ \A u \in Txns : u # t => txns'[u] = txns[u]
    BY <1>3 DEF LocksInv, Grant
  <2>3. RecordInv(s)
    BY <2>1, GrantKeepsRecord
  <2>4. \A u \in Txns : Open(u)' => RecordInv(txns'[u])
    BY <2>2, <2>3 DEF LocksInv, Open
  <2>5. s.held = r.held \cup {r.asks}
    BY <2>1 DEF RecordInv, Transaction
  <2>6. ASSUME NEW h \in Txns, h # t, Holds(h, Account), Holds(t, Account)' PROVE FALSE
    <3>1. CASE Holds(t, Account)
      BY <2>6, <3>1 DEF LocksInv
    <3>2. CASE r.asks = Account
      <4>1. ~Shares(t, Account)
        BY LockAssumptions DEF Shares, Rows
      <4>2. Conflict(t, h, r.asks)
        BY <2>6, <3>2, <4>1 DEF Conflict
      <4>3. h \in Blockers(t)
        BY <1>3, <4>2 DEF Blockers, Grant
      <4> QED
        BY <1>3, <4>3 DEF Grant
    <3> QED
      BY <2>1, <2>2, <2>5, <2>6, <3>1, <3>2 DEF Holds
  <2>7. \A u \in Txns : u # t => (Holds(u, Account)' <=> Holds(u, Account))
    BY <2>2 DEF Holds, Open
  <2>8. \A u, h \in Txns : Holds(u, Account)' /\ Holds(h, Account)' => u = h
    BY <2>6, <2>7 DEF LocksInv
  <2> QED
    BY <2>2, <2>4, <2>8 DEF LocksInv
<1>4. ASSUME NEW t \in Txns, Commit(t) \/ Return(t) \/ Abort(t) PROVE LocksInv'
  BY <1>4, EndKeepsLocks DEF Commit, Return, Abort, AfterReturn
<1>5. CASE UNCHANGED vars
  BY <1>5 DEF vars, LocksInv, Open, Holds, RecordInv, WantsOf, TakesAccountOf
<1> QED
  BY <1>1, <1>2, <1>3, <1>4, <1>5 DEF Next

-----------------------------------------------------------------------------
(* The theorem.                                                             *)

\* What blocks a transaction is open, another, and holds what it asks for.
LEMMA BlockersHold ==
  ASSUME NEW t, NEW h \in Blockers(t)
  PROVE  t # h /\ h \in Txns /\ Open(h) /\ txns[t].asks \in txns[h].held
BY DEF Blockers, Conflict, Holds

\* The invariant leaves no room for a cycle of transactions that take the account.
LEMMA NoAccountCycle == LocksInv => AccountLockersNeverDeadlock
<1> SUFFICES ASSUME LocksInv, NEW S \in Deadlocks, \A t \in S : TakesAccount(t)
             PROVE  FALSE
  BY DEF AccountLockersNeverDeadlock
<1>1. /\ S # {}
      /\ \A t \in S : t \in Txns /\ Asks(t) /\ \E h \in S : h \in Blockers(t)
  BY DEF Deadlocks
<1>2. ASSUME NEW t \in S
      PROVE  /\ RecordInv(txns[t]) /\ txns[t].asks # NoLock /\ TakesAccountOf(txns[t])
             /\ Open(t) /\ t \in Txns
  BY <1>1, <1>2 DEF LocksInv, Asks, TakesAccount, TakesAccountOf
<1>3. ASSUME NEW t \in S PROVE txns[t].asks \notin Rows
  <2> SUFFICES ASSUME txns[t].asks \in Rows PROVE FALSE
    OBVIOUS
  <2>1. PICK h \in S : h \in Blockers(t)
    BY <1>1
  <2>2. Account \in txns[t].held
    BY <1>2, WaitingHolds
  <2>3. t # h /\ txns[t].asks \in txns[h].held
    BY <2>1, BlockersHold
  <2>4. Account \in txns[h].held
    BY <1>2, <2>3 DEF RecordInv
  <2> QED
    BY <1>2, <2>2, <2>3, <2>4 DEF LocksInv, Holds
<1>4. ASSUME NEW t \in S PROVE txns[t].asks = Account
  <2>1. PICK u \in S : u \in Blockers(t)
    BY <1>1
  <2>2. txns[t].asks \in Locks
    BY <1>2, WaitingHolds
  <2>3. CASE txns[t].asks \in TakesFirst
    <3>1. txns[t].asks \in txns[u].held
      BY <2>1, BlockersHold
    <3>2. txns[u].asks \notin TakesFirst
      BY <1>2, <3>1, WaitingHolds
    <3>3. txns[u].asks = Account
      BY <1>2, <1>3, <3>2, WaitingHolds, LocksDiffer
    <3>4. PICK h \in S : h \in Blockers(u)
      BY <1>1
    <3>5. Account \in txns[h].held
      BY <3>3, <3>4, BlockersHold
    <3>6. txns[h].asks \notin TakesFirst /\ txns[h].asks # Account
      BY <1>2, <3>5, WaitingHolds
    <3> QED
      BY <1>2, <1>3, <3>6, WaitingHolds, LocksDiffer
  <2> QED
    BY <1>3, <2>2, <2>3, LocksDiffer
<1>5. PICK t \in S : TRUE
  BY <1>1
<1>6. PICK h \in S : h \in Blockers(t)
  BY <1>1
<1>7. Account \in txns[h].held
  BY <1>4, <1>6, BlockersHold
<1> QED
  BY <1>2, <1>4, <1>7, WaitingHolds

\* Operations that lock the account never deadlock among themselves (createTask,
\* createInboxTask, createSubtask, MoveTask and the others of store.go that take the
\* storage lock), however many run at once and whatever they share.
THEOREM AccountLockersAreSafe == Spec => []AccountLockersNeverDeadlock
<1>1. Spec => []LocksInv
  BY InitLocks, NextLocks, PTL DEF Spec
<1> QED
  BY <1>1, NoAccountCycle, PTL

=============================================================================
