------------------------ MODULE TaskWorkflow_proofs ------------------------
(***************************************************************************)
(* Proofs about TaskWorkflow, for every set of cards, agents, runs, keys   *)
(* and connections and every conversation limit.                           *)
(*                                                                         *)
(* The invariant is a statement about one card at a time: CardOK relates a *)
(* row to the card's conversation and to the agents that exist.  Every     *)
(* statement of the store writes rows through one of the row operators     *)
(* (InsertedStatus, UpdatedRow, MovedRow, ClaimedRow, ReportedRow), so a    *)
(* lemma on each of them, and one on what writing a row does to the state, *)
(* carry the induction.                                                    *)
(***************************************************************************)
EXTENDS TaskWorkflow, TLAPS

HasOutput(conv) == \E i \in DOMAIN conv : conv[i].kind = "output"

CardOK(row, conv, ags) ==
  /\ row.status = "queued" => row.run = NoRun
  /\ row.assignee # NoAgent => row.status # "new"
  /\ row.reason = "output" => row.status = "needs_review" /\ HasOutput(conv)
  /\ row.assignee # NoAgent => row.assignee \in ags
  /\ row.status \notin Statuses => row = NoRow(row.status) /\ conv = <<>>

RequestsValid == \A c \in Conns : pending[c] # NoRequest => ValidEntry(pending[c].entry)

\* The inductive invariant.
IInv ==
  /\ TypeOK
  /\ \A t \in Tasks : CardOK(tasks[t], entries[t], agents)
  /\ RequestsValid

\* The three invariants that TLC checks are the inductive one, card by card.
LEMMA InvariantByCard ==
  IInv <=> TypeOK /\ QueueIsFree /\ ReviewIsBacked /\ StateIsSound
BY DEF IInv, CardOK, HasOutput, RequestsValid, QueueIsFree, ReviewIsBacked, StateIsSound,
       Exists, EntriesOf

LEMMA InitOK == Init => IInv
<1> SUFFICES ASSUME Init PROVE IInv
  OBVIOUS
<1>1. NoRow("unborn") \in Row
  BY DEF NoRow, Row
<1>2. TypeOK
  BY <1>1 DEF Init, TypeOK, Request
<1>3. ASSUME NEW t \in Tasks PROVE CardOK(tasks[t], entries[t], agents)
  BY DEF Init, CardOK, NoRow, Statuses
<1>4. RequestsValid
  BY DEF Init, RequestsValid
<1> QED BY <1>2, <1>3, <1>4 DEF IInv

\* Writing one sound row keeps the invariant.
LEMMA SetRowOK ==
  ASSUME IInv, NEW t \in Tasks, NEW row \in Row, CardOK(row, entries[t], agents),
         SetRow(t, row)
  PROVE  IInv'
<1>1. TypeOK'
  BY DEF IInv, TypeOK, SetRow
<1>2. ASSUME NEW u \in Tasks
      PROVE  CardOK(tasks[u], entries[u], agents)'
  <2>1. CASE u = t
    BY <2>1 DEF IInv, TypeOK, SetRow, CardOK, HasOutput
  <2>2. CASE u # t
    BY <2>2 DEF IInv, TypeOK, SetRow, CardOK, HasOutput
  <2> QED BY <2>1, <2>2
<1>3. RequestsValid'
  BY DEF IInv, RequestsValid, SetRow
<1> QED BY <1>1, <1>2, <1>3 DEF IInv

-----------------------------------------------------------------------------
(* The row operators.                                                      *)

LEMMA CreateTaskOK ==
  ASSUME IInv, NEW t \in Tasks, NEW s \in StatusInput, NEW a \in Agents \cup {NoAgent},
         CreateTask(t, s, a)
  PROVE  IInv'
<1> DEFINE row == [NoRow(InsertedStatus(s, a)) EXCEPT !.assignee = a]
<1>1. row \in Row
  BY DEF Row, NoRow, InsertedStatus, StatusInput, Statuses
<1>2. CardOK(row, entries[t], agents)
  BY ConstantsDiffer
  DEF CardOK, NoRow, InsertedStatus, StatusInput, Statuses, CreateTask
<1>3. SetRow(t, row)
  BY DEF CreateTask
<1> HIDE DEF row
<1> QED BY <1>1, <1>2, <1>3, SetRowOK

\* What reconciling a status with an assignment yields for an existing card.
LEMMA ReconciledOK ==
  ASSUME NEW old \in Agents \cup {NoAgent}, NEW a \in Agents \cup {NoAgent},
         NEW s \in Statuses
  PROVE  /\ ReconciledStatus(old, a, s) \in Statuses
         /\ a # NoAgent => ReconciledStatus(old, a, s) # "new"
BY DEF ReconciledStatus, Statuses

LEMMA AppliedOK ==
  ASSUME NEW row \in Row, row.status \in Statuses,
         NEW s \in StatusInput, NEW d \in DoneInput
  PROVE  AppliedStatus(row, s, d) \in Statuses
BY DEF AppliedStatus, StatusInput, DoneInput, Statuses, Row

\* The UPDATE of updateTask, for an existing assignee and any status but "new"
\* on an assigned card.
LEMMA UpdatedRowOK ==
  ASSUME IInv, NEW t \in Tasks, NEW s \in Statuses, NEW a \in Agents \cup {NoAgent},
         a # NoAgent => s # "new", a # NoAgent => a \in agents
  PROVE  /\ UpdatedRow(tasks[t], s, a) \in Row
         /\ CardOK(UpdatedRow(tasks[t], s, a), entries[t], agents)
<1>1. tasks[t] \in Row /\ CardOK(tasks[t], entries[t], agents)
  BY DEF IInv, TypeOK
<1>2. UpdatedRow(tasks[t], s, a) \in Row
  BY <1>1 DEF UpdatedRow, Row
<1>3. CardOK(UpdatedRow(tasks[t], s, a), entries[t], agents)
  BY <1>1 DEF UpdatedRow, CardOK, Row
<1> QED BY <1>2, <1>3

LEMMA UpdateTaskOK ==
  ASSUME IInv, NEW t \in Tasks, NEW s \in StatusInput, NEW d \in DoneInput,
         NEW assignee \in Agents \cup {NoAgent, Keep},
         UpdateTask(t, s, d, assignee)
  PROVE  IInv'
<1> DEFINE old  == tasks[t].assignee
           a    == IF assignee = Keep THEN old ELSE assignee
           next == ReconciledStatus(old, a, AppliedStatus(tasks[t], s, d))
<1>1. tasks[t] \in Row /\ CardOK(tasks[t], entries[t], agents) /\ tasks[t].status \in Statuses
  BY DEF IInv, TypeOK, UpdateTask, Exists
<1>2. old \in Agents \cup {NoAgent} /\ a \in Agents \cup {NoAgent}
  BY <1>1 DEF Row
<1>3. next \in Statuses /\ (a # NoAgent => next # "new")
  BY <1>1, <1>2, AppliedOK, ReconciledOK
<1>4. a # NoAgent => a \in agents
  \* An assignee that was sent was looked up; one that was kept exists already.
  BY <1>1 DEF CardOK, UpdateTask
<1>5. SetRow(t, UpdatedRow(tasks[t], next, a))
  BY DEF UpdateTask
<1> HIDE DEF old, a, next
<1>6. UpdatedRow(tasks[t], next, a) \in Row
      /\ CardOK(UpdatedRow(tasks[t], next, a), entries[t], agents)
  BY <1>2, <1>3, <1>4, UpdatedRowOK
<1> QED BY <1>5, <1>6, SetRowOK

LEMMA MoveTaskOK ==
  ASSUME IInv, NEW t \in Tasks, NEW s \in Statuses, MoveTask(t, s)
  PROVE  IInv'
<1> DEFINE next == IF tasks[t].assignee # NoAgent /\ s = "new" THEN "queued" ELSE s
           row  == MovedRow(tasks[t], next)
<1>1. tasks[t] \in Row /\ CardOK(tasks[t], entries[t], agents) /\ tasks[t].status \in Statuses
  BY DEF IInv, TypeOK, MoveTask, Exists
<1>2. next \in Statuses
  BY DEF Statuses
<1>3. row \in Row
  BY <1>1, <1>2 DEF MovedRow, Row
<1>4. CardOK(row, entries[t], agents)
  BY <1>1, <1>2 DEF MovedRow, CardOK, Row, Statuses
<1>5. SetRow(t, row)
  BY DEF MoveTask
<1> HIDE DEF row
<1> QED BY <1>3, <1>4, <1>5, SetRowOK

LEMMA ClaimTaskOK ==
  ASSUME IInv, NEW t \in Tasks, NEW claimant \in Authors, NEW run \in Runs \cup {NoRun},
         ClaimTask(t, claimant, run)
  PROVE  IInv'
<1> DEFINE row == ClaimedRow(tasks[t], run)
<1>1. tasks[t] \in Row /\ CardOK(tasks[t], entries[t], agents) /\ tasks[t].status = "queued"
  BY DEF IInv, TypeOK, ClaimTask, MayClaim
<1>2. row \in Row
  BY <1>1 DEF ClaimedRow, Row, Statuses
<1>3. CardOK(row, entries[t], agents)
  BY <1>1 DEF ClaimedRow, CardOK, Row, Statuses
<1>4. SetRow(t, row)
  BY DEF ClaimTask
<1> HIDE DEF row
<1> QED BY <1>2, <1>3, <1>4, SetRowOK

-----------------------------------------------------------------------------
(* Entries and deletions.                                                  *)

LEMMA BeginEntryOK ==
  ASSUME IInv, NEW c \in Conns, NEW t \in Tasks, NEW e \in Entry, BeginEntry(c, t, e)
  PROVE  IInv'
<1>1. TypeOK'
  BY DEF IInv, TypeOK, BeginEntry, Request
<1>2. \A u \in Tasks : CardOK(tasks[u], entries[u], agents)'
  BY DEF IInv, BeginEntry, CardOK, HasOutput
<1>3. RequestsValid'
  BY DEF IInv, TypeOK, BeginEntry, RequestsValid, ValidEntry
<1> QED BY <1>1, <1>2, <1>3 DEF IInv

\* What appending to a conversation leaves and adds.
LEMMA AppendedEntry ==
  ASSUME NEW conv \in Seq(Entry), NEW e \in Entry
  PROVE  /\ \A i \in DOMAIN conv :
              i \in DOMAIN Append(conv, e) /\ Append(conv, e)[i] = conv[i]
         /\ \A i \in DOMAIN Append(conv, e) : i \in DOMAIN conv \/ Append(conv, e)[i] = e
         /\ \E i \in DOMAIN Append(conv, e) : Append(conv, e)[i] = e
<1>1. /\ Len(conv) \in Nat
      /\ DOMAIN conv = 1..Len(conv)
      /\ DOMAIN Append(conv, e) = 1..Len(conv) + 1
      /\ \A i \in 1..Len(conv) : Append(conv, e)[i] = conv[i]
      /\ Append(conv, e)[Len(conv) + 1] = e
  OBVIOUS
<1> QED BY <1>1

\* An output is stored and the card moved to review together.
LEMMA StoredEntryOK ==
  ASSUME NEW row \in Row, NEW conv \in Seq(Entry), NEW e \in Entry,
         CardOK(row, conv, agents), row.status \in Statuses
  PROVE  /\ ReportedRow(row, e) \in Row
         /\ Append(conv, e) \in Seq(Entry)
         /\ CardOK(ReportedRow(row, e), Append(conv, e), agents)
<1>1. ReportedRow(row, e) \in Row
  BY DEF ReportedRow, Row, Statuses
<1>2. Append(conv, e) \in Seq(Entry)
  OBVIOUS
<1>3. /\ HasOutput(conv) => HasOutput(Append(conv, e))
      /\ e.kind = "output" => HasOutput(Append(conv, e))
  BY AppendedEntry DEF HasOutput
<1>4. CardOK(ReportedRow(row, e), Append(conv, e), agents)
  <2>1. CASE e.kind = "output"
    BY <1>3, <2>1 DEF CardOK, ReportedRow, Row, Statuses
  <2>2. CASE e.kind # "output"
    BY <1>3, <2>2 DEF CardOK, ReportedRow
  <2> QED BY <2>1, <2>2
<1> QED BY <1>1, <1>2, <1>4

LEMMA FinishEntryOK ==
  ASSUME IInv, NEW c \in Conns, FinishEntry(c)
  PROVE  IInv'
<1> DEFINE t == pending[c].task
           e == pending[c].entry
<1>1. t \in Tasks /\ e \in Entry
  BY DEF IInv, TypeOK, Request, FinishEntry
<1>2. pending' \in [Conns -> Request] /\ RequestsValid'
  BY DEF IInv, TypeOK, Request, FinishEntry, RequestsValid, ValidEntry
<1>3. CASE UNCHANGED <<tasks, entries>>
  BY <1>2, <1>3 DEF IInv, TypeOK, FinishEntry, CardOK, HasOutput
<1>4. CASE /\ EntryAccepted(t, e)
           /\ entries' = [entries EXCEPT ![t] = Append(@, e)]
           /\ tasks' = [tasks EXCEPT ![t] = ReportedRow(@, e)]
  <2>1. /\ tasks[t] \in Row /\ entries[t] \in Seq(Entry)
        /\ CardOK(tasks[t], entries[t], agents) /\ tasks[t].status \in Statuses
    BY <1>1, <1>4 DEF IInv, TypeOK, EntryAccepted, Exists
  <2>2. /\ ReportedRow(tasks[t], e) \in Row
        /\ Append(entries[t], e) \in Seq(Entry)
        /\ CardOK(ReportedRow(tasks[t], e), Append(entries[t], e), agents)
    BY <1>1, <2>1, StoredEntryOK
  <2> HIDE DEF t, e
  <2>3. TypeOK'
    BY <1>1, <1>2, <1>4, <2>2 DEF IInv, TypeOK, FinishEntry
  <2>4. ASSUME NEW u \in Tasks PROVE CardOK(tasks[u], entries[u], agents)'
    <3>0. CardOK(tasks'[u], entries'[u], agents)
      <4>1. CASE u = t
        BY <1>1, <1>4, <2>2, <4>1 DEF IInv, TypeOK
      <4>2. CASE u # t
        BY <1>1, <1>4, <4>2 DEF IInv, TypeOK
      <4> QED BY <4>1, <4>2
    <3> QED BY <3>0 DEF FinishEntry, CardOK, HasOutput
  <2> QED BY <1>2, <2>3, <2>4 DEF IInv
<1> QED BY <1>3, <1>4 DEF FinishEntry

LEMMA DeleteTasksOK ==
  ASSUME IInv, NEW S \in SUBSET Tasks, DeleteTasks(S)
  PROVE  IInv'
<1>1. NoRow("deleted") \in Row
  BY DEF NoRow, Row
<1>2. TypeOK'
  BY <1>1 DEF IInv, TypeOK, DeleteTasks
<1>3. ASSUME NEW u \in Tasks PROVE CardOK(tasks[u], entries[u], agents)'
  <2>1. CASE u \in S
    BY <2>1 DEF DeleteTasks, CardOK, NoRow, Statuses, HasOutput
  <2>2. CASE u \notin S
    BY <2>2 DEF IInv, DeleteTasks, CardOK, HasOutput
  <2> QED BY <2>1, <2>2
<1>4. RequestsValid'
  BY DEF IInv, RequestsValid, DeleteTasks
<1> QED BY <1>2, <1>3, <1>4 DEF IInv

LEMMA DeleteAgentOK ==
  ASSUME IInv, NEW a \in agents, DeleteAgent(a)
  PROVE  IInv'
<1>1. a \in Agents
  BY DEF IInv, TypeOK
<1>2. TypeOK'
  <2>1. ASSUME NEW t \in Tasks, tasks[t] \in Row
        PROVE  [tasks[t] EXCEPT !.assignee = NoAgent] \in Row
    BY <2>1 DEF Row
  <2>2. tasks' \in [Tasks -> Row]
    BY <2>1 DEF IInv, TypeOK, DeleteAgent
  <2> QED BY <2>2 DEF IInv, TypeOK, DeleteAgent
<1>3. ASSUME NEW u \in Tasks PROVE CardOK(tasks[u], entries[u], agents)'
  <2>1. tasks[u] \in Row /\ CardOK(tasks[u], entries[u], agents)
    BY DEF IInv, TypeOK
  <2>2. CASE tasks[u].assignee = a
    <3> DEFINE row == [tasks[u] EXCEPT !.assignee = NoAgent]
    <3>1. tasks'[u] = row
      BY <2>2 DEF DeleteAgent
    <3>2. tasks[u].status \in Statuses
      <4>1. NoRow(tasks[u].status).assignee = NoAgent
        BY DEF NoRow
      <4> QED BY <1>1, <2>1, <2>2, <4>1, ConstantsDiffer DEF CardOK
    <3>3. CardOK(row, entries[u], agents \ {a})
      BY <2>1, <3>2 DEF CardOK, Row
    <3> QED BY <3>1, <3>3 DEF DeleteAgent, CardOK, HasOutput
  <2>3. CASE tasks[u].assignee # a
    BY <2>1, <2>3 DEF DeleteAgent, CardOK, HasOutput
  <2> QED BY <2>2, <2>3
<1>4. RequestsValid'
  BY DEF IInv, RequestsValid, DeleteAgent
<1> QED BY <1>2, <1>3, <1>4 DEF IInv

-----------------------------------------------------------------------------
(* The invariant.                                                          *)

LEMMA NextOK == IInv /\ [Next]_vars => IInv'
<1> SUFFICES ASSUME IInv, [Next]_vars PROVE IInv'
  OBVIOUS
<1>1. CASE UNCHANGED vars
  BY <1>1 DEF vars, IInv, TypeOK, CardOK, HasOutput, RequestsValid, Request
<1>2. CASE PersonStep
  <2>1. CASE \E t \in Tasks, s \in StatusInput, a \in Agents \cup {NoAgent} :
               CreateTask(t, s, a)
    BY <2>1, CreateTaskOK
  <2>2. CASE \E t \in Tasks, s \in StatusInput, d \in DoneInput,
                a \in Agents \cup {NoAgent, Keep} : HumanUpdate(t, s, d, a)
    BY <2>2, UpdateTaskOK DEF HumanUpdate
  <2>3. CASE \E t \in Tasks, s \in StatusInput, a \in Agents \cup {NoAgent, Keep} :
               HumanStatus(t, s, a)
    BY <2>3, UpdateTaskOK DEF HumanStatus, DoneInput
  <2>4. CASE \E t \in Tasks, s \in Statuses : MoveTask(t, s)
    BY <2>4, MoveTaskOK
  <2>5. CASE \E t \in Tasks : ClaimTask(t, Human, NoRun)
    BY <2>5, ClaimTaskOK DEF Authors
  <2>6. CASE \E S \in SUBSET Tasks \ {{}} : DeleteTasks(S)
    BY <2>6, DeleteTasksOK
  <2>7. CASE \E a \in agents : DeleteAgent(a)
    BY <2>7, DeleteAgentOK
  <2> QED BY <1>2, <2>1, <2>2, <2>3, <2>4, <2>5, <2>6, <2>7 DEF PersonStep
<1>3. CASE AgentStep
  <2> PICK t \in Tasks, agent \in Agents, run \in Runs \cup {NoRun} :
        \/ ClaimTask(t, agent, run)
        \/ \E s \in StatusInput, d \in DoneInput : AgentUpdate(t, agent, run, s, d)
    BY <1>3 DEF AgentStep
  <2>1. CASE ClaimTask(t, agent, run)
    BY <2>1, ClaimTaskOK DEF Authors
  <2>2. CASE \E s \in StatusInput, d \in DoneInput : AgentUpdate(t, agent, run, s, d)
    BY <2>2, UpdateTaskOK DEF AgentUpdate
  <2> QED BY <2>1, <2>2
<1>4. CASE EntryStep
  BY <1>4, BeginEntryOK, FinishEntryOK DEF EntryStep
<1> QED BY <1>1, <1>2, <1>3, <1>4 DEF Next

\* Type correctness, the freedom of queued cards, the backing of cards in review
\* and the soundness of rows and open requests hold in every reachable state of
\* the store.
THEOREM WorkflowInvariant ==
  Spec => [](TypeOK /\ QueueIsFree /\ ReviewIsBacked /\ StateIsSound)
<1>1. Init => IInv
  BY InitOK
<1>2. IInv /\ [Next]_vars => IInv'
  BY NextOK
<1>3. IInv => TypeOK /\ QueueIsFree /\ ReviewIsBacked /\ StateIsSound
  BY InvariantByCard
<1> QED BY <1>1, <1>2, <1>3, PTL DEF Spec

\* In particular: rows, conversations and open requests have their types.
THEOREM WorkflowTypes == Spec => []TypeOK
BY WorkflowInvariant, PTL

\* In particular: no queued card belongs to a run, and no assigned card is "new".
THEOREM QueuedCardsAreFree == Spec => []QueueIsFree
BY WorkflowInvariant, PTL

\* In particular: a card in review for an output has an output.
THEOREM ReviewsAreBacked == Spec => []ReviewIsBacked
BY WorkflowInvariant, PTL

-----------------------------------------------------------------------------
(* Fencing: every step of the workflow is a step of RunOwnership, or leaves *)
(* the owners and the writers alone.                                        *)

Owner == [t \in Tasks |-> tasks[t].run]
Writers == [t \in Tasks |-> WritersOf(t)]

\* Steps that write one row and no entry.
LEMMA RowStepOwnership ==
  ASSUME IInv, NEW t \in Tasks, NEW row, row.run \in Runs \cup {NoRun}, SetRow(t, row),
         \/ row.run = tasks[t].run
         \/ row.run = NoRun
         \/ tasks[t].run = NoRun
  PROVE  [Ownership!Next]_(Ownership!vars)
<1>1. tasks' = [tasks EXCEPT ![t] = row] /\ tasks \in [Tasks -> Row]
  BY DEF SetRow, IInv, TypeOK
<1>2. Owner' = [Owner EXCEPT ![t] = row.run]
  BY <1>1 DEF Owner
<1>3. Writers' = Writers
  BY DEF SetRow, Writers, WritersOf, EntriesOf
<1>4. CASE row.run = tasks[t].run
  <2>1. Owner' = Owner
    BY <1>2, <1>4 DEF Owner
  <2> QED BY <1>3, <2>1 DEF Owner, Writers, Ownership!vars
<1>5. CASE row.run = NoRun
  <2>1. Ownership!Release(t)
    BY <1>2, <1>3, <1>5 DEF Ownership!Release, Owner, Writers
  <2> QED BY <2>1 DEF Ownership!Next
<1>6. CASE tasks[t].run = NoRun /\ row.run # NoRun
  <2>1. row.run \in Runs
    BY <1>6
  <2>2. Ownership!Acquire(t, row.run)
    BY <1>2, <1>3, <1>6 DEF Ownership!Acquire, Owner, Writers
  <2> QED BY <2>1, <2>2 DEF Ownership!Next
<1> QED BY <1>4, <1>5, <1>6

LEMMA UpdateTaskOwnership ==
  ASSUME IInv, NEW t \in Tasks, NEW s, NEW d, NEW a, UpdateTask(t, s, d, a)
  PROVE  [Ownership!Next]_(Ownership!vars)
<1>1. PICK st, b : SetRow(t, UpdatedRow(tasks[t], st, b))
  BY DEF UpdateTask
<1>2. tasks[t].run \in Runs \cup {NoRun}
  BY DEF IInv, TypeOK, Row
<1>3. UpdatedRow(tasks[t], st, b).run \in {NoRun, tasks[t].run}
  BY DEF UpdatedRow
<1> QED BY <1>1, <1>2, <1>3, RowStepOwnership

LEMMA MoveTaskOwnership ==
  ASSUME IInv, NEW t \in Tasks, NEW s, MoveTask(t, s)
  PROVE  [Ownership!Next]_(Ownership!vars)
<1>1. PICK st : SetRow(t, MovedRow(tasks[t], st))
  BY DEF MoveTask
<1>2. tasks[t] \in Row
  BY DEF IInv, TypeOK
<1>3. MovedRow(tasks[t], st).run \in {NoRun, tasks[t].run} /\ tasks[t].run \in Runs \cup {NoRun}
  BY <1>2 DEF MovedRow, Row
<1> QED BY <1>1, <1>3, RowStepOwnership

\* A claim takes a queued card, and a queued card has no owner: this is where
\* the invariant is needed.
LEMMA ClaimTaskOwnership ==
  ASSUME IInv, NEW t \in Tasks, NEW claimant, NEW run \in Runs \cup {NoRun},
         ClaimTask(t, claimant, run)
  PROVE  [Ownership!Next]_(Ownership!vars)
<1>1. tasks[t] \in Row /\ tasks[t].run = NoRun
  BY DEF IInv, TypeOK, CardOK, ClaimTask, MayClaim
<1>2. ClaimedRow(tasks[t], run).run = run
  BY <1>1 DEF ClaimedRow, Row
<1> QED BY <1>1, <1>2, RowStepOwnership DEF ClaimTask

LEMMA CreateTaskOwnership ==
  ASSUME IInv, NEW t \in Tasks, NEW s, NEW a, CreateTask(t, s, a)
  PROVE  [Ownership!Next]_(Ownership!vars)
<1>1. [NoRow(InsertedStatus(s, a)) EXCEPT !.assignee = a].run = NoRun
  BY DEF NoRow
<1> QED BY <1>1, RowStepOwnership DEF CreateTask

\* The fence of CreateTaskEntry lets only the owner's entries through.
LEMMA FinishEntryOwnership ==
  ASSUME IInv, NEW c \in Conns, FinishEntry(c)
  PROVE  [Ownership!Next]_(Ownership!vars)
<1>1. PICK t \in Tasks, e \in Entry :
        t = pending[c].task /\ e = pending[c].entry /\ ValidEntry(e)
  BY DEF IInv, TypeOK, Request, FinishEntry, RequestsValid
<1>2. CASE UNCHANGED <<tasks, entries>>
  BY <1>2 DEF Ownership!vars, WritersOf, EntriesOf
<1>3. CASE /\ EntryAccepted(t, e)
           /\ entries' = [entries EXCEPT ![t] = Append(@, e)]
           /\ tasks' = [tasks EXCEPT ![t] = ReportedRow(@, e)]
  <2>1. /\ tasks \in [Tasks -> Row] /\ tasks[t] \in Row
        /\ entries \in [Tasks -> Seq(Entry)] /\ entries[t] \in Seq(Entry)
    BY <1>1 DEF IInv, TypeOK
  <2>2. ReportedRow(tasks[t], e).run = tasks[t].run
    BY <2>1 DEF ReportedRow, Row
  <2>3. Owner' = Owner
    BY <1>3, <2>1, <2>2 DEF Owner
  <2>4. ASSUME NEW u \in Tasks, u # t PROVE EntriesOf(u)' = EntriesOf(u)
    BY <1>3, <2>1, <2>4 DEF EntriesOf
  <2>5. EntriesOf(t)' = EntriesOf(t) \cup {e}
    <3>1. entries'[t] = Append(entries[t], e)
      BY <1>1, <1>3, <2>1
    <3> DEFINE old == entries[t]
               new == Append(old, e)
    <3>2. /\ \A i \in DOMAIN old : i \in DOMAIN new /\ new[i] = old[i]
          /\ \A i \in DOMAIN new : i \in DOMAIN old \/ new[i] = e
          /\ \E i \in DOMAIN new : new[i] = e
      BY <2>1, AppendedEntry, Zenon
    <3> HIDE DEF old, new
    <3>3. {new[i] : i \in DOMAIN new} = {old[i] : i \in DOMAIN old} \cup {e}
      BY <3>2
    <3> QED BY <3>1, <3>3 DEF old, new, EntriesOf
  <2>6. CASE e.run = NoRun
    <3>1. \A u \in Tasks : WritersOf(u)' = WritersOf(u)
      <4>1. ASSUME NEW u \in Tasks PROVE WritersOf(u)' = WritersOf(u)
        <5>1. EntriesOf(u)' = EntriesOf(u) \/ EntriesOf(u)' = EntriesOf(u) \cup {e}
          BY <2>4, <2>5
        <5> QED BY <2>6, <5>1 DEF WritersOf
      <4> QED BY <4>1
    <3> QED BY <2>3, <3>1 DEF Ownership!vars, Owner
  <2>7. CASE e.run # NoRun
    <3>1. e.run \in Runs /\ e.author # Human
      BY <1>1, <2>7 DEF Entry, ValidEntry
    <3>2. Owner[t] = e.run
      BY <1>1, <1>3, <3>1 DEF EntryAccepted, MayWrite, Owner
    <3>3. WritersOf(t)' = WritersOf(t) \cup {e.run}
      BY <2>5, <2>7 DEF WritersOf
    <3>4. Writers' = [Writers EXCEPT ![t] = @ \cup {e.run}]
      <4>1. \A u \in Tasks : u # t => WritersOf(u)' = WritersOf(u)
        BY <2>4 DEF WritersOf
      <4> QED BY <1>1, <3>3, <4>1 DEF Writers
    <3>5. Ownership!Write(t, e.run)
      BY <2>3, <3>2, <3>4 DEF Ownership!Write, Owner, Writers
    <3> QED BY <1>1, <3>1, <3>5 DEF Ownership!Next
  <2> QED BY <2>6, <2>7
<1> QED BY <1>1, <1>2, <1>3 DEF FinishEntry

LEMMA DeleteTasksOwnership ==
  ASSUME IInv, NEW S \in SUBSET Tasks, DeleteTasks(S)
  PROVE  [Ownership!Next]_(Ownership!vars)
<1>1. \A u \in Tasks : tasks'[u].run = IF u \in S THEN NoRun ELSE tasks[u].run
  BY DEF DeleteTasks, NoRow
<1>2. \A u \in Tasks : WritersOf(u)' = IF u \in S THEN {} ELSE WritersOf(u)
  BY DEF DeleteTasks, WritersOf, EntriesOf
<1>3. Ownership!Forget(S)
  BY <1>1, <1>2 DEF Ownership!Forget
<1> QED BY <1>3 DEF Ownership!Next

LEMMA DeleteAgentOwnership ==
  ASSUME IInv, NEW a, DeleteAgent(a)
  PROVE  UNCHANGED Ownership!vars
<1>1. \A u \in Tasks : tasks'[u].run = tasks[u].run
  BY DEF IInv, TypeOK, Row, DeleteAgent
<1> QED BY <1>1 DEF Ownership!vars, DeleteAgent, WritersOf, EntriesOf

LEMMA NextOwnership == IInv /\ [Next]_vars => [Ownership!Next]_(Ownership!vars)
<1> SUFFICES ASSUME IInv, [Next]_vars PROVE [Ownership!Next]_(Ownership!vars)
  OBVIOUS
<1>1. CASE UNCHANGED vars
  BY <1>1 DEF vars, Ownership!vars, WritersOf, EntriesOf
<1>2. CASE PersonStep
  BY <1>2, CreateTaskOwnership, UpdateTaskOwnership, MoveTaskOwnership, ClaimTaskOwnership,
     DeleteTasksOwnership, DeleteAgentOwnership
  DEF PersonStep, HumanUpdate, HumanStatus
<1>3. CASE AgentStep
  BY <1>3, ClaimTaskOwnership, UpdateTaskOwnership DEF AgentStep, AgentUpdate
<1>4. CASE EntryStep
  <2>1. ASSUME NEW c \in Conns, NEW t \in Tasks, NEW e \in Entry, BeginEntry(c, t, e)
        PROVE  UNCHANGED Ownership!vars
    BY <2>1 DEF BeginEntry, Ownership!vars, WritersOf, EntriesOf
  <2> QED BY <1>4, <2>1, FinishEntryOwnership DEF EntryStep
<1> QED BY <1>1, <1>2, <1>3, <1>4 DEF Next

\* The card workflow implements single ownership: a managed run takes only a
\* card that no run owns, and whatever carries a run's name on a card was
\* written while that run owned it.
THEOREM WorkflowImplementsOwnership == Spec => ImplementsOwnership
<1>1. Init => Ownership!Init
  <2>1. ASSUME Init, NEW t \in Tasks PROVE tasks[t].run = NoRun /\ WritersOf(t) = {}
    <3>1. tasks[t].run = NoRun
      BY <2>1 DEF Init, NoRow
    <3>2. EntriesOf(t) = {}
      BY <2>1 DEF Init, EntriesOf
    <3> QED BY <3>1, <3>2 DEF WritersOf
  <2> QED BY <2>1 DEF Ownership!Init
<1>2. Init => IInv
  BY InitOK
<1>3. IInv /\ [Next]_vars => IInv'
  BY NextOK
<1>4. IInv /\ [Next]_vars => [Ownership!Next]_(Ownership!vars)
  BY NextOwnership
<1> QED BY <1>1, <1>2, <1>3, <1>4, PTL DEF Spec, ImplementsOwnership, Ownership!Spec

-----------------------------------------------------------------------------
(* What ends managed work.                                                 *)

\* The status lock: an agent that passes the fence of a managed card leaves its
\* status alone.
LEMMA AgentUpdateKeepsManagedStatus ==
  ASSUME IInv, NEW t \in Tasks, NEW agent \in Agents, NEW run \in Runs \cup {NoRun},
         NEW s \in StatusInput, NEW d \in DoneInput, AgentUpdate(t, agent, run, s, d),
         NEW u \in Tasks, tasks[u].status = "working", tasks[u].run # NoRun
  PROVE  tasks'[u].status = "working"
<1>1. tasks \in [Tasks -> Row]
  BY DEF IInv, TypeOK
<1>2. CASE u # t
  BY <1>1, <1>2 DEF AgentUpdate, UpdateTask, SetRow
<1>3. CASE u = t
  <2>1. s = "unset" /\ d = "unset"
    BY <1>3 DEF AgentUpdate, AgentMayUpdate
  <2>2. AppliedStatus(tasks[t], s, d) = "working"
    BY <1>3, <2>1 DEF AppliedStatus
  <2>3. ReconciledStatus(tasks[t].assignee, tasks[t].assignee, "working") = "working"
    BY DEF ReconciledStatus
  <2>4. tasks' = [tasks EXCEPT ![t] = UpdatedRow(tasks[t], "working", tasks[t].assignee)]
    BY <2>2, <2>3 DEF AgentUpdate, UpdateTask, SetRow
  <2> QED BY <1>1, <1>3, <2>4 DEF UpdatedRow
<1> QED BY <1>2, <1>3

LEMMA FinishEntryReports ==
  ASSUME IInv, NEW c \in Conns, FinishEntry(c), NEW u \in Tasks, ManagedExit(u)
  PROVE  OutputStored(u)
<1>1. PICK t \in Tasks, e \in Entry :
        t = pending[c].task /\ e = pending[c].entry
  BY DEF IInv, TypeOK, Request, FinishEntry
<1>2. /\ tasks \in [Tasks -> Row] /\ entries \in [Tasks -> Seq(Entry)]
      /\ EntryAccepted(t, e)
      /\ entries' = [entries EXCEPT ![t] = Append(@, e)]
      /\ tasks' = [tasks EXCEPT ![t] = ReportedRow(@, e)]
  BY <1>1 DEF IInv, TypeOK, FinishEntry, ManagedExit
<1>3. u = t /\ e.kind = "output"
  BY <1>2 DEF ManagedExit, ReportedRow
<1>4. tasks'[u].status = "needs_review" /\ entries'[u] = Append(entries[u], e)
  BY <1>2, <1>3 DEF ReportedRow, Row
<1>5. e.author # Human => e.run = tasks[u].run
  BY <1>2, <1>3 DEF EntryAccepted, MayWrite
<1> QED BY <1>3, <1>4, <1>5 DEF OutputStored

\* No agent request ends managed work except by storing an output in the same
\* transaction (the status lock and the report of CreateTaskEntry).
THEOREM ManagedWorkIsReported == Spec => ManagedWorkEndsInOutput
<1>1. IInv /\ [Next]_vars => [ReportedExits]_vars
  <2> SUFFICES ASSUME IInv, AgentStep \/ EntryStep, NEW u \in Tasks, ManagedExit(u)
               PROVE  OutputStored(u)
    BY DEF ReportedExits
  <2>1. CASE AgentStep
    <3> PICK t \in Tasks, agent \in Agents, run \in Runs \cup {NoRun} :
          \/ ClaimTask(t, agent, run)
          \/ \E s \in StatusInput, d \in DoneInput : AgentUpdate(t, agent, run, s, d)
      BY <2>1 DEF AgentStep
    <3>1. ~ClaimTask(t, agent, run)
      BY DEF ClaimTask, MayClaim, SetRow, ManagedExit, IInv, TypeOK
    <3> QED BY <3>1, AgentUpdateKeepsManagedStatus DEF ManagedExit
  <2>2. CASE EntryStep
    <3>1. ASSUME NEW c \in Conns, NEW t \in Tasks, NEW e \in Entry, BeginEntry(c, t, e)
          PROVE  FALSE
      BY <3>1 DEF BeginEntry, ManagedExit
    <3> QED BY <2>2, <3>1, FinishEntryReports DEF EntryStep
  <2> QED BY <2>1, <2>2
<1>2. Init => IInv
  BY InitOK
<1>3. IInv /\ [Next]_vars => IInv'
  BY NextOK
<1> QED BY <1>1, <1>2, <1>3, PTL DEF Spec, ManagedWorkEndsInOutput

=============================================================================
