SPECIFICATION Spec
CONSTANTS
  l1 = l1
  l2 = l2
  c1 = c1
  c2 = c2
  a1 = a1
  Txns = {t1, t2}
  Lists = {l1, l2}
  Cards = {c1, c2}
  Agents = {a1}
  Keys = {k1}
  HomeOf <- MCHomeOf
  ParentOf <- MCParentOf
  AssigneeOf <- MCAssigneeOf
  Inbox = l1
  NoCard = NoCard
  NoLock = NoLock
  NoTxn = NoTxn
  Ended = Ended
  Account = Account
  Move = Move
 
PROPERTY TransactionsEnd
CHECK_DEADLOCK FALSE
