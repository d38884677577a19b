---------------------------- MODULE TaskWorkflow ----------------------------
(***************************************************************************)
(* The workflow of a Slate card as the server stores it                    *)
(* (server/internal/boards/store.go): its status, the agent it is assigned *)
(* to, the managed run that owns it (tasks.execution_run_id), why it is in *)
(* review, and its conversation (card_entries).                            *)
(*                                                                         *)
(* Every store operation is one PostgreSQL transaction that locks the card *)
(* row before it reads it, so it is one action here, except                *)
(* CreateTaskEntry: it looks for a replay before it locks the card, so the *)
(* card can change in between (BeginEntry, FinishEntry).                   *)
(*                                                                         *)
(* The columns that place a card in a list, and the storage counters, are  *)
(* not state of this module.                                               *)
(***************************************************************************)
EXTENDS Naturals, Sequences

CONSTANTS
  Tasks,           \* card identifiers
  Agents,          \* agent identities
  Runs,            \* managed run identifiers a watcher may send
  Keys,            \* idempotency keys of entries
  Conns,           \* database transactions that can be open at once
  MaxTaskEntries,  \* conversation limit of one card (200 in the code)
  NoAgent, NoRun, NoKey,  \* NULL in the three columns
  Human,           \* author of entries written with an account credential
  Keep,            \* an optional input field that was not sent
  NoRequest        \* a connection without an open transaction

ASSUME ConstantsDiffer ==
  /\ NoAgent \notin Agents /\ Human \notin Agents /\ Human # NoAgent
  /\ Keep \notin Agents \cup {NoAgent}
  /\ NoRun \notin Runs
  /\ NoKey \notin Keys

ASSUME EntryLimit == MaxTaskEntries \in Nat

VARIABLES
  tasks,    \* [Tasks -> Row]: the workflow columns of every card
  entries,  \* [Tasks -> Seq(Entry)]: conversations, oldest first
  agents,   \* the agents that exist
  pending   \* [Conns -> Request]: CreateTaskEntry calls past their replay lookup

vars == <<tasks, entries, agents, pending>>

-----------------------------------------------------------------------------
Statuses == {"new", "queued", "working", "needs_review", "done"}

\* A card that was not created yet, or was deleted, has no row.
Row == [status   : Statuses \cup {"unborn", "deleted"},
        assignee : Agents \cup {NoAgent},
        run      : Runs \cup {NoRun},
        reason   : {"", "output"}]

NoRow(status) == [status |-> status, assignee |-> NoAgent, run |-> NoRun, reason |-> ""]

Authors == Agents \cup {Human}

\* An entry's text decides only between two answers to a replay (the entry or a
\* conflict), neither of which changes anything, and is left out.
Entry == [kind : {"comment", "output"}, author : Authors,
          key : Keys \cup {NoKey}, run : Runs \cup {NoRun}]

\* The request is validated first: only an agent's request carries a run, and
\* a managed entry needs a key.
ValidEntry(e) ==
  /\ e.author = Human => e.run = NoRun
  /\ e.run # NoRun => e.key # NoKey

Request == [task : Tasks, entry : Entry] \cup {NoRequest}

TypeOK ==
  /\ tasks \in [Tasks -> Row]
  /\ entries \in [Tasks -> Seq(Entry)]
  /\ agents \subseteq Agents
  /\ pending \in [Conns -> Request]

Exists(t) == tasks[t].status \in Statuses

Init ==
  /\ tasks = [t \in Tasks |-> NoRow("unborn")]
  /\ entries = [t \in Tasks |-> <<>>]
  /\ agents = Agents
  /\ pending = [c \in Conns |-> NoRequest]

SetRow(t, row) ==
  /\ tasks' = [tasks EXCEPT ![t] = row]
  /\ UNCHANGED <<entries, agents, pending>>

-----------------------------------------------------------------------------
(* Creating cards.                                                         *)

\* Fault: an explicit status wins over the assignment.
InsertedStatusAsGiven(status, a) ==
  IF status # "unset" THEN status ELSE IF a # NoAgent THEN "queued" ELSE "new"

\* Fault: a missing status is stored as it came.
InsertedStatusNoDefault(status, a) == IF a # NoAgent THEN "queued" ELSE status

\* insertTask: an assigned card starts queued whatever status was asked for.
InsertedStatus(status, a) ==
  IF a # NoAgent THEN "queued" ELSE IF status = "unset" THEN "new" ELSE status

CreateTask(t, status, a) ==
  /\ tasks[t].status = "unborn"
  /\ a # NoAgent => a \in agents
  /\ SetRow(t, [NoRow(InsertedStatus(status, a)) EXCEPT !.assignee = a])

-----------------------------------------------------------------------------
(* updateTask: status, the former completion boolean and the assignee, in   *)
(* the order the code applies them.                                         *)

\* The status the request asks for, before the assignment is reconciled.
AppliedStatus(row, status, done) ==
  LET given == IF status = "unset" THEN row.status ELSE status IN
  CASE done = "true"                      -> "done"
    [] done = "false" /\ given = "done"   -> IF row.assignee = NoAgent
                                             THEN "new" ELSE "queued"
    [] OTHER                              -> given

\* The status of a card whose assignee goes from old to a.
ReconciledStatus(old, a, status) ==
  LET taken    == a # old /\ a # NoAgent /\ status \in {"working", "needs_review"}
      released == a # old /\ a = NoAgent /\ status = "queued"
  IN  IF released THEN "new"
      ELSE IF taken \/ (a # NoAgent /\ status = "new") THEN "queued"
      ELSE status

\* Fault: the review reason survives until something else is reported.
UpdatedRowKeepsReason(row, status, a) ==
  [status |-> status, assignee |-> a, reason |-> row.reason,
   run |-> IF status = "queued" \/ a # row.assignee THEN NoRun ELSE row.run]

\* The UPDATE statement: queueing or reassigning a card ends its run.
UpdatedRow(row, status, a) ==
  [status   |-> status,
   assignee |-> a,
   run      |-> IF status = "queued" \/ a # row.assignee THEN NoRun ELSE row.run,
   reason   |-> IF status = "needs_review" /\ row.status = "needs_review"
                THEN row.reason ELSE ""]

UpdateTask(t, status, done, assignee) ==
  LET row  == tasks[t]
      a    == IF assignee = Keep THEN row.assignee ELSE assignee
      next == ReconciledStatus(row.assignee, a, AppliedStatus(row, status, done))
  IN  /\ Exists(t)
      /\ a # NoAgent /\ (assignee # Keep \/ next \in {"queued", "working"}) => a \in agents
      /\ SetRow(t, UpdatedRow(row, next, a))

\* PATCH /tasks/{id} and the agent endpoints with an account credential:
\* "working" is refused, it takes a claim.
HumanUpdate(t, status, done, assignee) ==
  /\ status # "working"
  /\ UpdateTask(t, status, done, assignee)

\* PATCH /tasks/{id}/status, the board's drag and drop: any status.
HumanStatus(t, status, assignee) ==
  /\ status # "unset"
  /\ UpdateTask(t, status, "unset", assignee)

\* Fault: the former completion boolean escapes the status lock.
AgentMayUpdateUnlocked(t, agent, run, status, done) ==
  /\ tasks[t].assignee = agent
  /\ tasks[t].run = run
  /\ status # "working"

\* The fence of updateTask: an agent reaches only cards assigned to it, with
\* the run that owns the card, and a managed card's status is locked.
AgentMayUpdate(t, agent, run, status, done) ==
  /\ tasks[t].assignee = agent
  /\ tasks[t].run = run
  /\ run # NoRun => status = "unset" /\ done = "unset"
  /\ status # "working"

AgentUpdate(t, agent, run, status, done) ==
  /\ AgentMayUpdate(t, agent, run, status, done)
  /\ UpdateTask(t, status, done, Keep)

\* Fault: the board's UPDATE forgets the run of a card it queues.
MovedRowKeepsRun(row, status) ==
  [row EXCEPT !.status = status,
              !.reason = IF status = "needs_review" /\ row.status = "needs_review"
                         THEN @ ELSE ""]

\* MoveTask with a status: the board's own UPDATE of the three columns. (A move
\* without a status leaves them alone.)
MovedRow(row, status) ==
  [row EXCEPT !.status = status,
              !.run    = IF status = "queued" THEN NoRun ELSE @,
              !.reason = IF status = "needs_review" /\ row.status = "needs_review"
                         THEN @ ELSE ""]

MoveTask(t, status) ==
  LET row  == tasks[t]
      next == IF row.assignee # NoAgent /\ status = "new" THEN "queued" ELSE status
  IN  /\ Exists(t)
      /\ row.assignee # NoAgent /\ next \in {"queued", "working"} => row.assignee \in agents
      /\ SetRow(t, MovedRow(row, next))

-----------------------------------------------------------------------------
(* claimTask: one conditional UPDATE.  A person claims for nobody; an agent *)
(* without a run makes a legacy claim; a managed claim records its run.     *)

ClaimedRow(row, run) == [row EXCEPT !.status = "working", !.reason = "", !.run = run]

MayClaim(t, claimant) ==
  /\ tasks[t].status = "queued"
  /\ claimant # Human => tasks[t].assignee = claimant

ClaimTask(t, claimant, run) ==
  /\ claimant = Human => run = NoRun
  /\ MayClaim(t, claimant)
  /\ SetRow(t, ClaimedRow(tasks[t], run))

-----------------------------------------------------------------------------
(* CreateTaskEntry.                                                         *)

SameKey(e, f) == e.author = f.author /\ e.key = f.key /\ e.key # NoKey

EntriesOf(t) == {entries[t][i] : i \in DOMAIN entries[t]}

\* The replay lookup.  For an agent it joins the card on its assignee and its
\* current run (no run meaning NULL), as well as matching author and key.
Replay(t, e) ==
  {f \in EntriesOf(t) :
     /\ SameKey(e, f)
     /\ e.author # Human => tasks[t].assignee = e.author /\ tasks[t].run = e.run}

\* The advisory lock taken on task, author and key, before the lookup.
KeyLockFree(c, t, e) ==
  \A d \in Conns \ {c} :
    pending[d] # NoRequest =>
      ~(pending[d].task = t /\ SameKey(pending[d].entry, e))

\* A lookup that finds an entry answers from it (the entry, or a conflict when
\* run or text differ) and ends the transaction.
BeginEntry(c, t, e) ==
  /\ pending[c] = NoRequest
  /\ ValidEntry(e)
  /\ KeyLockFree(c, t, e)
  /\ Replay(t, e) = {}
  /\ pending' = [pending EXCEPT ![c] = [task |-> t, entry |-> e]]
  /\ UNCHANGED <<tasks, entries, agents>>

\* Fault: only requests with a run header are compared with the card's run,
\* and a run that lost the card keeps writing on it.
MayWriteAfterLoss(t, e) ==
  e.author # Human =>
    /\ tasks[t].assignee = e.author
    /\ tasks[t].status = "working" \/ e.run = NoRun
    /\ e.author \in agents

\* The fence of CreateTaskEntry, evaluated under the card's row lock.
MayWrite(t, e) ==
  e.author # Human =>
    /\ tasks[t].assignee = e.author
    /\ tasks[t].run = e.run
    /\ tasks[t].run # NoRun => tasks[t].status = "working"
    /\ e.author \in agents

\* Besides the fence: the card exists, its conversation has room, and the
\* unique index on task, author and key has no such row.
EntryAccepted(t, e) ==
  /\ Exists(t)
  /\ MayWrite(t, e)
  /\ Len(entries[t]) < MaxTaskEntries
  /\ \A f \in EntriesOf(t) : ~SameKey(e, f)

\* An output moves the card to review in the transaction that stores it.
ReportedRow(row, e) ==
  IF e.kind = "output"
  THEN [row EXCEPT !.status = "needs_review", !.reason = "output"]
  ELSE row

\* The transaction commits, or it is rolled back: refused by one of the
\* conditions above or by the storage quota, or its connection was lost.
FinishEntry(c) ==
  LET t == pending[c].task
      e == pending[c].entry
  IN  /\ pending[c] # NoRequest
      /\ pending' = [pending EXCEPT ![c] = NoRequest]
      /\ UNCHANGED agents
      /\ \/ /\ EntryAccepted(t, e)
            /\ entries' = [entries EXCEPT ![t] = Append(@, e)]
            /\ tasks' = [tasks EXCEPT ![t] = ReportedRow(@, e)]
         \/ UNCHANGED <<tasks, entries>>

-----------------------------------------------------------------------------
(* Deletions.                                                               *)

\* DeleteTask removes a card with its subtasks, DeleteBucket every card of a
\* list: some set of cards, their entries by cascade.
DeleteTasks(S) ==
  /\ \A t \in S : Exists(t)
  /\ tasks' = [t \in Tasks |-> IF t \in S THEN NoRow("deleted") ELSE tasks[t]]
  /\ entries' = [t \in Tasks |-> IF t \in S THEN <<>> ELSE entries[t]]
  /\ UNCHANGED <<agents, pending>>

\* Fault: the assignments of a deleted agent stay.
DeleteAgentKeepsAssignments(a) ==
  /\ a \in agents
  /\ agents' = agents \ {a}
  /\ UNCHANGED <<tasks, entries, pending>>

\* The foreign key of tasks.assignee_agent_id is ON DELETE SET NULL: it clears
\* the assignee and nothing else.
DeleteAgent(a) ==
  /\ a \in agents
  /\ agents' = agents \ {a}
  /\ tasks' = [t \in Tasks |-> IF tasks[t].assignee = a
                               THEN [tasks[t] EXCEPT !.assignee = NoAgent]
                               ELSE tasks[t]]
  /\ UNCHANGED <<entries, pending>>

-----------------------------------------------------------------------------
StatusInput == Statuses \cup {"unset"}
DoneInput == {"unset", "true", "false"}

\* What a person does, from the web application or with a personal token.
PersonStep ==
  \/ \E t \in Tasks, s \in StatusInput, a \in Agents \cup {NoAgent} : CreateTask(t, s, a)
  \/ \E t \in Tasks, s \in StatusInput, d \in DoneInput, a \in Agents \cup {NoAgent, Keep} :
       HumanUpdate(t, s, d, a)
  \/ \E t \in Tasks, s \in StatusInput, a \in Agents \cup {NoAgent, Keep} : HumanStatus(t, s, a)
  \/ \E t \in Tasks, s \in Statuses : MoveTask(t, s)
  \/ \E t \in Tasks : ClaimTask(t, Human, NoRun)
  \/ \E S \in SUBSET Tasks \ {{}} : DeleteTasks(S)
  \/ \E a \in agents : DeleteAgent(a)

\* What an agent credential does, with or without a run header.  The request was
\* authenticated before the transaction began, so the agent may be gone.
AgentStep ==
  \E t \in Tasks, agent \in Agents, run \in Runs \cup {NoRun} :
    \/ ClaimTask(t, agent, run)
    \/ \E s \in StatusInput, d \in DoneInput : AgentUpdate(t, agent, run, s, d)

\* Anyone's entry.
EntryStep ==
  \E c \in Conns :
    \/ \E t \in Tasks, e \in Entry : BeginEntry(c, t, e)
    \/ FinishEntry(c)

Next == PersonStep \/ AgentStep \/ EntryStep

Spec == Init /\ [][Next]_vars

-----------------------------------------------------------------------------
(* What the workflow guarantees.                                            *)

\* A card waiting in an agent's queue belongs to no run, whichever of the four
\* statements (insert, update, move, claim) wrote the row last: otherwise a
\* claim would take the card from a run that still believes it owns it.  And an
\* assigned card is never left in "new", where no agent would find it.
QueueIsFree ==
  \A t \in Tasks :
    /\ tasks[t].status = "queued" => tasks[t].run = NoRun
    /\ tasks[t].assignee # NoAgent => tasks[t].status # "new"

\* A card that says it is in review because of an output is in review, and the
\* output is in its conversation.
ReviewIsBacked ==
  \A t \in Tasks :
    tasks[t].reason = "output" =>
      /\ tasks[t].status = "needs_review"
      /\ \E e \in EntriesOf(t) : e.kind = "output"

ManagedExit(t) ==
  tasks[t].status = "working" /\ tasks[t].run # NoRun /\ tasks'[t].status # "working"

OutputStored(t) ==
  /\ tasks'[t].status = "needs_review"
  /\ \E e \in Entry :
       /\ entries'[t] = Append(entries[t], e)
       /\ e.kind = "output"
       /\ e.author # Human => e.run = tasks[t].run

ReportedExits ==
  \A t \in Tasks : ManagedExit(t) /\ (AgentStep \/ EntryStep) => OutputStored(t)

\* No request of an agent, and nobody's entry, takes a card that a managed run
\* works on out of "working" unless the same transaction stores an output, the
\* run's own or a person's.  (People may change the card otherwise.)
ManagedWorkEndsInOutput == [][ReportedExits]_vars

\* Fencing: the workflow implements single ownership.
WritersOf(t) == {e.run : e \in EntriesOf(t)} \ {NoRun}

Ownership == INSTANCE RunOwnership WITH
  owner   <- [t \in Tasks |-> tasks[t].run],
  writers <- [t \in Tasks |-> WritersOf(t)]

ImplementsOwnership == Ownership!Spec

\* What the inductive proofs need besides them: assignees exist (the foreign
\* key), a card without a row holds nothing, and open requests were validated.
StateIsSound ==
  /\ \A t \in Tasks :
       /\ tasks[t].assignee # NoAgent => tasks[t].assignee \in agents
       /\ ~Exists(t) => tasks[t] = NoRow(tasks[t].status) /\ entries[t] = <<>>
  /\ \A c \in Conns : pending[c] # NoRequest => ValidEntry(pending[c].entry)

=============================================================================
