------------------------------- MODULE Lists -------------------------------
(***************************************************************************)
(* The lists of one account and where its cards are in them                *)
(* (server/internal/boards/store.go, storage_quota.go): the Inbox marker,  *)
(* the list, parent and position of every card, the storage counters, and  *)
(* the idempotency keys of card creation.                                  *)
(*                                                                         *)
(* Every operation here locks the account row before it reads anything it  *)
(* decides on (accountLimitsForUpdate, lockStorageQuota), so each one is   *)
(* an action.  Two are not covered by that lock.  CreateSubtask reads the  *)
(* parent and the lists before its transaction: what it read is an input   *)
(* of the action that may be arbitrarily old.  And an update of a card's   *)
(* position alone locks only its row, of which it reads nothing else.      *)
(*                                                                         *)
(* Lists and cards are numbered in the order they are created, which is    *)
(* the order of created_at.  Status and assignment are in TaskWorkflow.    *)
(***************************************************************************)
EXTENDS Integers, FiniteSets, FiniteSetsExt, Functions

CONSTANTS
  MaxLists,   \* bound: lists created in a behaviour
  MaxCards,   \* bound: cards created in a behaviour
  MaxPlace,   \* bound: positions a client asks for by number
  Sizes,      \* bytes of a title with its description, and of an entry
  Keys,       \* idempotency keys
  Plans,      \* what entitlements.Resolve answers for an account
  Limits,     \* [Plans -> [lists, tasks, bytes]]
  NoKey, Keep \* no key sent; an optional field not sent

\* Init has accounts of two lists and two cards.
ASSUME ListBounds ==
  /\ MaxLists \in Nat \ {0, 1} /\ MaxCards \in Nat \ {0, 1} /\ MaxPlace \in Nat
  /\ Sizes \subseteq Nat \ {0} /\ Sizes # {} /\ IsFiniteSet(Sizes)
  /\ Limits \in [Plans -> [lists : Nat, tasks : Nat, bytes : Nat]]
  /\ NoKey \notin Keys
  /\ Keep \notin Int

VARIABLES
  lists,   \* the lists: [inbox, pos] by number
  cards,   \* the cards: [list, parent, pos, bytes, said] by number
  usage,   \* account_storage_usage: [tasks, bytes]
  keys,    \* task_idempotency_keys: [fingerprint, request, card] by key
  plan,    \* the account's plan
  made     \* how many lists and cards were ever created

vars == <<lists, cards, usage, keys, plan, made>>

-----------------------------------------------------------------------------
None == 0    \* no parent, no list, a deleted card
ListIds == 1..MaxLists
CardIds == 1..MaxCards
Places == 0..MaxPlace

ListRow == [inbox : BOOLEAN, pos : Int]
CardRow == [list : ListIds, parent : CardIds \cup {None}, pos : Int,
            bytes : Nat, said : Nat]

\* A creation request: the endpoint (a list, the Inbox, a parent), the parent
\* (which the other two endpoints also accept), the text, and whether it gives a
\* status or priority, which older clients do not send.
Request == [via : {"list", "inbox", "parent"}, list : ListIds \cup {None},
            parent : CardIds \cup {None}, text : Sizes, strict : BOOLEAN]

KeyRow == [fingerprint : {"list", "inbox", "parent"} \X (ListIds \cup CardIds \cup {None})
                           \X Sizes \X (CardIds \cup {None}),
           request : Request, card : CardIds \cup {None}]

TypeOK ==
  /\ DOMAIN lists \subseteq ListIds /\ \A l \in DOMAIN lists : lists[l] \in ListRow
  /\ DOMAIN cards \subseteq CardIds /\ \A c \in DOMAIN cards : cards[c] \in CardRow
  /\ \A c \in DOMAIN cards : cards[c].list \in DOMAIN lists
                            /\ cards[c].parent \in DOMAIN cards \cup {None}
  /\ usage \in [tasks : Nat, bytes : Nat]
  /\ DOMAIN keys \subseteq Keys /\ \A k \in DOMAIN keys : keys[k] \in KeyRow
                                         /\ keys[k].card \in DOMAIN cards \cup {None}
  /\ plan \in Plans
  /\ made \in [lists : 0..MaxLists, cards : 0..MaxCards]

-----------------------------------------------------------------------------
(* Rows, their order, and what they occupy.                                 *)

\* ORDER BY sort_order, created_at, id
Before(rows, x, y) == rows[x].pos < rows[y].pos \/ (rows[x].pos = rows[y].pos /\ x < y)

\* The index of x in the sorted list of the members of S.
Rank(rows, x, S) == Cardinality({y \in S : Before(rows, y, x)})

InList(l) == {c \in DOMAIN cards : cards[c].list = l}
Children(c) == {k \in DOMAIN cards : cards[k].parent = c}
Group(c) == {c} \cup Children(c)

\* COALESCE(max(sort_order) + 1, 0)
NextPos(rows, S) == IF S = {} THEN 0 ELSE Max({rows[x].pos : x \in S}) + 1

Weight == [c \in DOMAIN cards |-> cards[c].bytes + cards[c].said]
WeightOf(S) == SumFunctionOnSet(Weight, S)

\* Fault: the last card of the plan is one too many.
QuotaAllowsOneMore(tasks, bytes) ==
  /\ tasks > 0 => usage.tasks <= Limits[plan].tasks
  /\ bytes > 0 => usage.bytes + bytes <= Limits[plan].bytes

\* storageQuota.apply: growth is checked against the plan, anything else is not.
QuotaAllows(tasks, bytes) ==
  /\ tasks > 0 => usage.tasks + tasks <= Limits[plan].tasks
  /\ bytes > 0 => usage.bytes + bytes <= Limits[plan].bytes

ApplyQuota(tasks, bytes) ==
  /\ QuotaAllows(tasks, bytes)
  /\ usage.tasks + tasks >= 0 /\ usage.bytes + bytes >= 0
  /\ usage' = [tasks |-> usage.tasks + tasks, bytes |-> usage.bytes + bytes]

-----------------------------------------------------------------------------
(* Lists and the Inbox.                                                     *)

HasInbox(ls) == \E l \in DOMAIN ls : ls[l].inbox

\* releaseInboxMarker
Released(ls, except) ==
  [l \in DOMAIN ls |-> IF l = except THEN ls[l] ELSE [ls[l] EXCEPT !.inbox = FALSE]]

\* Fault: the check that an Inbox remains counts the list itself.
InboxSurvivesSelf(ls, except) == \E l \in DOMAIN ls : ls[l].inbox

\* ensureInboxSurvives
InboxSurvives(ls, except) == \E l \in DOMAIN ls \ {except} : ls[l].inbox

WithList(ls, l, row) == [m \in DOMAIN ls \cup {l} |-> IF m = l THEN row ELSE ls[m]]

First(ls) == CHOOSE l \in DOMAIN ls : \A m \in DOMAIN ls \ {l} : Before(ls, l, m)

\* ensureInboxBucketID: what the lists are once there is an Inbox.
Ensured ==
  IF HasInbox(lists) THEN lists
  ELSE IF DOMAIN lists # {} THEN [lists EXCEPT ![First(lists)].inbox = TRUE]
  ELSE [l \in {made.lists + 1} |-> [inbox |-> TRUE, pos |-> 0]]

\* How many lists exist by then, under the bound.
ListsMade == IF DOMAIN lists = {} THEN made.lists + 1 ELSE made.lists

InboxOf(ls) == CHOOSE l \in DOMAIN ls : ls[l].inbox

EnsureInbox ==
  /\ ListsMade <= MaxLists
  /\ lists' = Ensured
  /\ made' = [made EXCEPT !.lists = ListsMade]
  /\ UNCHANGED <<cards, usage, keys, plan>>

CreateBucket(inbox) ==
  LET l    == made.lists + 1
      rest == IF inbox THEN Released(lists, None) ELSE lists
  IN  /\ l <= MaxLists
      /\ Cardinality(DOMAIN lists) < Limits[plan].lists
      /\ lists' = WithList(rest, l, [inbox |-> inbox, pos |-> NextPos(lists, DOMAIN lists)])
      /\ made' = [made EXCEPT !.lists = l]
      /\ UNCHANGED <<cards, usage, keys, plan>>

UpdateBucket(l, inbox, pos) ==
  LET row  == [inbox |-> IF inbox = Keep THEN lists[l].inbox ELSE inbox,
               pos   |-> IF pos = Keep THEN lists[l].pos ELSE pos]
      rest == IF row.inbox /\ ~lists[l].inbox THEN Released(lists, l) ELSE lists
  IN  /\ lists[l].inbox /\ ~row.inbox => InboxSurvives(lists, l)
      /\ lists' = WithList(rest, l, row)
      /\ UNCHANGED <<cards, usage, keys, plan, made>>

\* ReorderBuckets: the lists named, then the others in their old order.
ReorderBuckets(ids) ==
  LET named == Range(ids)
      index(l) == CHOOSE i \in DOMAIN ids : ids[i] = l
      rest == DOMAIN lists \ named
  IN  /\ named \subseteq DOMAIN lists /\ IsInjective(ids)
      /\ lists' = [l \in DOMAIN lists |->
                     [lists[l] EXCEPT !.pos = IF l \in named THEN index(l) - 1
                                              ELSE Cardinality(named) + Rank(lists, l, rest)]]
      /\ UNCHANGED <<cards, usage, keys, plan, made>>

\* ON DELETE CASCADE from list to card and from card to child.
Cascade(S) == S \cup UNION {Children(c) : c \in S}

\* Fault: a key keeps pointing at a card that is gone.
ForgetNothing(gone) == keys

\* task_idempotency_keys.task_id is ON DELETE SET NULL.
Forget(gone) == [k \in DOMAIN keys |->
                   IF keys[k].card \in gone THEN [keys[k] EXCEPT !.card = None] ELSE keys[k]]

RemoveCards(gone) ==
  /\ cards' = Restrict(cards, DOMAIN cards \ gone)
  /\ keys' = Forget(gone)

\* Fault: subtasks that are in another list are not counted.
MeasuredInList(l) == InList(l)

\* lockedBucketTaskStorage: the cards whose storage a deletion gives back.
Measured(l) == Cascade(InList(l))

DeleteBucket(l) ==
  /\ lists[l].inbox => InboxSurvives(lists, l)
  /\ ApplyQuota(-Cardinality(Measured(l)), -WeightOf(Measured(l)))
  /\ lists' = Restrict(lists, DOMAIN lists \ {l})
  /\ RemoveCards(Cascade(InList(l)))
  /\ UNCHANGED <<plan, made>>

-----------------------------------------------------------------------------
(* Creating cards.                                                          *)

\* Fault: capture is fingerprinted with the list that is the Inbox.
FingerprintResolved(r, l) ==
  <<r.via, IF r.via = "parent" THEN r.parent ELSE l, r.text, r.parent>>

\* The fingerprint of a request that is given list l: the target is the list,
\* a constant for capture into the Inbox, or the parent.
Fingerprint(r, l) ==
  <<r.via, CASE r.via = "list" -> l [] r.via = "inbox" -> None [] r.via = "parent" -> r.parent,
    r.text, r.parent>>

\* A subtask request also accepts the fingerprint it would have had through any
\* list of the account (compatibleFingerprints).
Compatible(r) ==
  IF r.via = "parent" THEN {<<"list", l, r.text, r.parent>> : l \in DOMAIN lists} ELSE {}

\* request_data_hash: the request without its target.
SameData(r, s) == r.text = s.text /\ r.parent = s.parent /\ r.strict = s.strict

\* Whether the stored key k answers request r, which would use list l.
Answers(k, r, l) ==
  LET row == keys[k] IN
  \/ /\ row.fingerprint \in {Fingerprint(r, l)} \cup Compatible(r)
     /\ r.strict => SameData(r, row.request)
  \/ r.parent # None /\ row.card # None /\ SameData(r, row.request)

\* insertTask
NewCard(l, r) ==
  [list |-> l, parent |-> r.parent, pos |-> NextPos(cards, InList(l)),
   bytes |-> r.text, said |-> 0]

\* Fault: the list read before the transaction is used.
HomeAsRead(r, l) == l

\* The list a new card goes into: its parent's, read under the account's lock,
\* whatever list the request named or was read before.
Home(r, l) == IF r.parent = None THEN l ELSE cards[r.parent].list

\* createTask, in a transaction that sees the lists ls.  A key that was used ends
\* it with the stored card, or with a conflict, which changes nothing.
Create(r, k, l, ls) ==
  IF k # NoKey /\ k \in DOMAIN keys
  THEN /\ Answers(k, r, l) /\ keys[k].card # None
       /\ UNCHANGED <<cards, usage, keys>>
  ELSE LET c == made.cards + 1 IN
       /\ c <= MaxCards
       /\ r.parent # None => r.parent \in DOMAIN cards /\ cards[r.parent].parent = None
       /\ Home(r, l) \in DOMAIN ls
       /\ ApplyQuota(1, r.text)
       /\ cards' = [d \in DOMAIN cards \cup {c} |-> IF d = c THEN NewCard(Home(r, l), r) ELSE cards[d]]
       /\ keys' = IF k = NoKey THEN keys
                  ELSE [j \in DOMAIN keys \cup {k} |->
                          IF j = k THEN [fingerprint |-> Fingerprint(r, l), request |-> r, card |-> c]
                          ELSE keys[j]]

MadeCards == IF DOMAIN cards' = DOMAIN cards THEN made.cards ELSE made.cards + 1

\* POST /buckets/{id}/tasks, with an optional parent.
CreateTask(l, parent, text, strict, k) ==
  /\ Create([via |-> "list", list |-> l, parent |-> parent, text |-> text, strict |-> strict], k, l, lists)
  /\ made' = [made EXCEPT !.cards = MadeCards]
  /\ UNCHANGED <<lists, plan>>

\* POST /tasks: capture into the Inbox, which is repaired first.
CreateInboxTask(parent, text, strict, k) ==
  /\ ListsMade <= MaxLists
  /\ Create([via |-> "inbox", list |-> None, parent |-> parent, text |-> text, strict |-> strict],
            k, InboxOf(Ensured), Ensured)
  /\ lists' = Ensured
  /\ made' = [lists |-> ListsMade, cards |-> MadeCards]
  /\ UNCHANGED plan

\* POST /tasks/{id}/subtasks.  The list was read with the parent, before the
\* transaction: any list the parent may have been in.
CreateSubtask(parent, read, text, strict, k) ==
  /\ cards[parent].parent = None
  /\ Create([via |-> "parent", list |-> None, parent |-> parent, text |-> text, strict |-> strict],
            k, read, lists)
  /\ made' = [made EXCEPT !.cards = MadeCards]
  /\ UNCHANGED <<lists, plan>>

-----------------------------------------------------------------------------
(* Moving and ordering cards.                                               *)

\* Card c and its children, in their order, are inserted at position p among the
\* other cards of list l; the list they leave closes up.  Children that are
\* elsewhere follow only when the card changes its list.
Placed(c, l, p) ==
  LET from == cards[c].list
      rest == InList(l) \ Group(c)
      left == InList(from) \ Group(c)
      size == Cardinality(Group(c))
      shifted(d) == LET r == Rank(cards, d, rest) IN IF r < p THEN r ELSE r + size
      pos(d) == CASE d = c             -> p
                  [] d \in Children(c)   -> p + 1 + Rank(cards, d, Children(c))
                  [] d \in rest          -> shifted(d)
                  [] d \in left \ rest   -> Rank(cards, d, left)
                  [] OTHER               -> cards[d].pos
      list(d) == IF d \in Group(c) /\ from # l THEN l ELSE cards[d].list
  IN  [d \in DOMAIN cards |-> [cards[d] EXCEPT !.pos = pos(d), !.list = list(d)]]

\* Fault: right after the card, among its subtasks.
FollowingCard(r, rest) == 1 + Rank(cards, r, rest)

\* The position after card r and those of its subtasks that follow it.
Following(r, rest) == 1 + Max({Rank(cards, d, rest) : d \in Group(r) \cap rest})

\* The positions a request can name: by number, at the end, where the card is
\* now, before a card, and after a card and its subtasks.
Position(c, l, how) ==
  LET rest == InList(l) \ Group(c)
      here == Rank(cards, c, InList(cards[c].list) \ Children(c))
  IN  CASE how.mode = "at"       -> how.n
        [] how.mode = "append"   -> Cardinality(rest)
        [] how.mode = "preserve" -> Min({here, Cardinality(rest)})
        [] how.mode = "before"   -> Rank(cards, how.n, rest)
        [] how.mode = "after"    -> Following(how.n, rest)

Ways == [mode : {"at"}, n : Places] \cup [mode : {"append", "preserve"}, n : {0}]
          \cup [mode : {"before", "after"}, n : CardIds]

MoveTask(c, l, how) ==
  LET parent == cards[c].parent
      rest   == InList(l) \ Group(c)
  IN  /\ parent # None => cards[c].list # cards[parent].list /\ cards[parent].list = l
      /\ how.mode \in {"before", "after"} => how.n \in rest
      /\ Position(c, l, how) <= Cardinality(rest)
      /\ cards' = Placed(c, l, Position(c, l, how))
      /\ UNCHANGED <<lists, usage, keys, plan, made>>

\* updateTask: a new text, a new position, or a new list, whose top it goes to.
UpdateTask(c, l, pos, text) ==
  LET moves == l # Keep /\ l # cards[c].list
      placed == IF moves THEN Placed(c, l, 0) ELSE cards
      parent == cards[c].parent
  IN  /\ moves => pos = Keep /\ (parent # None => cards[parent].list = l)
      /\ ApplyQuota(0, IF text = Keep THEN 0 ELSE text - cards[c].bytes)
      /\ cards' = [placed EXCEPT ![c].pos = IF pos = Keep THEN @ ELSE pos,
                                 ![c].bytes = IF text = Keep THEN @ ELSE text]
      /\ UNCHANGED <<lists, keys, plan, made>>

\* ReorderTasks: each card named gets its index; the others keep their position.
ReorderTasks(l, ids) ==
  /\ Range(ids) \subseteq InList(l)
  /\ cards' = [c \in DOMAIN cards |->
                 IF c \in Range(ids)
                 THEN [cards[c] EXCEPT !.pos = Max({i \in DOMAIN ids : ids[i] = c}) - 1]
                 ELSE cards[c]]
  /\ UNCHANGED <<lists, usage, keys, plan, made>>

\* ReorderSubtasks: every child, in the order given, right after the parent and
\* in its list; the lists they come from close up.
ReorderSubtasks(p, ids) ==
  LET home  == cards[p].list
      rest  == InList(home) \ Children(p)
      after == Rank(cards, p, rest) + 1
      index(k) == CHOOSE i \in DOMAIN ids : ids[i] = k
      touched == {cards[k].list : k \in Children(p)} \ {home}
      pos(d) == CASE d \in Children(p) -> after + index(d) - 1
                  [] d \in rest -> LET r == Rank(cards, d, rest) IN
                                   IF r < after THEN r ELSE r + Cardinality(Children(p))
                  [] d \notin Children(p) /\ cards[d].list \in touched ->
                       Rank(cards, d, InList(cards[d].list) \ Children(p))
                  [] OTHER -> cards[d].pos
  IN  /\ cards[p].parent = None
      /\ cards' = [d \in DOMAIN cards |->
                     [cards[d] EXCEPT !.pos = pos(d),
                                      !.list = IF d \in Children(p) THEN home ELSE @]]
      /\ UNCHANGED <<lists, usage, keys, plan, made>>

-----------------------------------------------------------------------------
(* What else changes storage.                                               *)

\* CreateTaskEntry, for what it adds to the account.
CreateTaskEntry(c, bytes) ==
  /\ ApplyQuota(0, bytes)
  /\ cards' = [cards EXCEPT ![c].said = @ + bytes]
  /\ UNCHANGED <<lists, keys, plan, made>>

\* What DeleteTask gives back: the cards, with their conversations.
ReturnedBytes(c) == WeightOf(Group(c))

DeleteTask(c) ==
  /\ ApplyQuota(-Cardinality(Group(c)), -ReturnedBytes(c))
  /\ RemoveCards(Cascade({c}))
  /\ UNCHANGED <<lists, plan, made>>

\* Keys are removed when they are a week old (cleanup, rule task_idempotency_keys).
ExpireKey(k) ==
  /\ keys' = Restrict(keys, DOMAIN keys \ {k})
  /\ UNCHANGED <<lists, cards, usage, plan, made>>

\* Someone gives the account another plan, also a smaller one.
ChangePlan(p) ==
  /\ p # plan
  /\ plan' = p
  /\ UNCHANGED <<lists, cards, usage, keys, made>>

-----------------------------------------------------------------------------
\* Accounts left by earlier versions: no list, lists without an Inbox marker,
\* and a subtask outside its parent's list (which two operations repair).
Init ==
  /\ \E n \in 0..2, inbox \in {None, 1} :
       lists = [l \in 1..n |-> [inbox |-> l = inbox, pos |-> l - 1]]
  /\ \/ cards = [c \in {} |-> None]
     \/ /\ DOMAIN lists = {1, 2}
        /\ cards = [c \in {1, 2} |-> [list |-> c, parent |-> c - 1, pos |-> 0,
                                      bytes |-> Min(Sizes), said |-> 0]]
  /\ usage = [tasks |-> Cardinality(DOMAIN cards), bytes |-> WeightOf(DOMAIN cards)]
  /\ keys = [k \in {} |-> None]
  /\ plan \in Plans
  /\ made = [lists |-> Cardinality(DOMAIN lists), cards |-> Cardinality(DOMAIN cards)]

\* The orders a client may send: sequences without repetition, not always complete.
Orders(S) == UNION {Injection(1..n, S) : n \in 1..Cardinality(S)}

ListStep ==
  \/ EnsureInbox
  \/ \E inbox \in BOOLEAN : CreateBucket(inbox)
  \/ \E l \in DOMAIN lists, inbox \in BOOLEAN \cup {Keep}, pos \in Places \cup {Keep} :
       UpdateBucket(l, inbox, pos)
  \/ \E l \in DOMAIN lists : DeleteBucket(l)
  \/ \E ids \in Orders(DOMAIN lists) : ReorderBuckets(ids)

CreateStep ==
  \E text \in Sizes, strict \in BOOLEAN, k \in Keys \cup {NoKey} :
    \/ \E l \in ListIds, parent \in DOMAIN cards \cup {None} : CreateTask(l, parent, text, strict, k)
    \/ \E parent \in DOMAIN cards \cup {None} : CreateInboxTask(parent, text, strict, k)
    \/ \E parent \in DOMAIN cards, read \in ListIds : CreateSubtask(parent, read, text, strict, k)

MoveStep(c) ==
  \E l \in DOMAIN lists, how \in Ways : MoveTask(c, l, how)

CardStep ==
  \/ \E c \in DOMAIN cards : MoveStep(c)
  \/ \E c \in DOMAIN cards, l \in DOMAIN lists \cup {Keep}, pos \in Places \cup {Keep},
        text \in Sizes \cup {Keep} : UpdateTask(c, l, pos, text)
  \/ \E l \in DOMAIN lists : \E ids \in Orders(InList(l)) : ReorderTasks(l, ids)
  \/ \E p \in DOMAIN cards : \E ids \in Bijection(1..Cardinality(Children(p)), Children(p)) :
       ReorderSubtasks(p, ids)
  \/ \E c \in DOMAIN cards, bytes \in Sizes : CreateTaskEntry(c, bytes)
  \/ \E c \in DOMAIN cards : DeleteTask(c)

Next ==
  \/ ListStep
  \/ CreateStep
  \/ CardStep
  \/ \E k \in DOMAIN keys : ExpireKey(k)
  \/ \E p \in Plans : ChangePlan(p)

Spec == Init /\ [][Next]_vars

-----------------------------------------------------------------------------
(* What holds.                                                              *)

\* An account that has an Inbox never loses it, and never has two: whichever
\* list takes the marker, gives it up, is deleted, or is created with it.
InboxIsKept ==
  [][HasInbox(lists) => \E l \in DOMAIN lists' :
                          /\ lists'[l].inbox
                          /\ \A m \in DOMAIN lists' \ {l} : ~lists'[m].inbox]_vars

\* The counters an account is charged by are exactly what its rows occupy.
UsageIsExact ==
  usage = [tasks |-> Cardinality(DOMAIN cards), bytes |-> WeightOf(DOMAIN cards)]

\* What is stored grows only up to the plan in force, also after a downgrade.
StorageIsBounded ==
  [][/\ Cardinality(DOMAIN cards') > Cardinality(DOMAIN cards)
          => Cardinality(DOMAIN cards') <= Limits[plan].tasks
     /\ WeightOf(DOMAIN cards)' > WeightOf(DOMAIN cards)
          => WeightOf(DOMAIN cards)' <= Limits[plan].bytes]_vars

Together(cs, c) == cs[c].parent # None => cs[cs[c].parent].list = cs[c].list

\* Subtasks are one level deep and stay with their parent: a new one is created
\* in the list the parent is in by then, and no move, update or reordering of
\* either separates the two.
SubtasksStay ==
  [][\A c \in DOMAIN cards' :
       (c \in DOMAIN cards => Together(cards, c))
         => /\ Together(cards', c)
            /\ cards'[c].parent # None => cards'[cards'[c].parent].parent = None]_vars

\* A repeated creation request finds the card it created, wherever that card, its
\* parent or the Inbox marker went since, and a key answers no other request.
\* (A request without status and priority is told apart only by the rest.)
KeyFindsItsCard ==
  \A k \in DOMAIN keys :
    LET r == keys[k].request
        l == IF r.via = "list" THEN r.list ELSE IF HasInbox(lists) THEN InboxOf(lists) ELSE None
        other(s) == [r EXCEPT !.text = s]
    IN  /\ Answers(k, r, l)
        /\ \A s \in Sizes : Answers(k, other(s), l) => s = r.text
        /\ ~r.strict => ~Answers(k, [r EXCEPT !.strict = TRUE], l)

\* A card and its subtasks stand together, the card first.
Whole(cs, r) ==
  LET list == {d \in DOMAIN cs : cs[d].list = cs[r].list}
      kids == {k \in list : cs[k].parent = r}
  IN  \A k \in kids : \A d \in list \ kids : Before(cs, r, k) /\ ~(Before(cs, r, d) /\ Before(cs, d, k))

Swapped(d, e) ==
  /\ {d, e} \subseteq DOMAIN cards'
  /\ cards[d].list = cards[e].list /\ cards'[d].list = cards'[e].list
  /\ Before(cards, d, e) # Before(cards', d, e)

\* Moving a card changes the order of no two others, in the list it leaves or in
\* the one it enters, and asked to go after a card it goes after its subtasks too
\* instead of between them.
MovesLeaveOthersAlone ==
  [][/\ \A d \in DOMAIN cards : \A e \in DOMAIN cards \ 1..d :
          Swapped(d, e) =>
            \A c \in DOMAIN cards : {d, e} \cap Group(c) = {} => ~MoveStep(c)
     /\ \A r \in DOMAIN cards :
          r \in DOMAIN cards' /\ Whole(cards, r) /\ ~Whole(cards', r) =>
            \A c \in DOMAIN cards \ Group(r) :
              ~MoveTask(c, cards[r].list, [mode |-> "after", n |-> r])]_vars

=============================================================================
