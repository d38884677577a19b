# Slate in TLA+

Slate is a task board shared by people and coding agents. A Go server keeps
lists of cards in PostgreSQL; a command line client, run beside an agent, watches
the agent's queue, starts an executor in a Git worktree for each card, and
supervises it until it has reported. This directory holds TLA+ models of that
system, TLC configurations that check them on small instances, and TLAPS proofs
of what matters most for every instance. `PROJECT.json` maps each definition to
the lines it models, and each property to a plausible bug that breaks it.

## 1. Inventory

| component | state | operations | hard behaviour | what makes it correct |
|---|---|---|---|---|
| card workflow (`server/internal/boards/store.go`) | status, assignee, `execution_run_id`, `review_reason` of a card; its entries | create, update, status, move, claim, entry, delete; agent deletion by foreign key | four statements write the same columns; an entry's replay lookup precedes the row lock | queued cards are free, managed work ends in an output, a review is backed by one, one owner at a time |
| run supervision (`cli/cmd/slate/watch.go`) | what one run was ever seen to do, whether its executor is gone | two reads per inspection, decide, wait, retry, stop the group | reads are not a snapshot; the executor exits, people act and process IDs are reused in between | verdicts agree with the server; nothing is left when it says so; it ends |
| run registry (`registry.go`, `gitrepo.go`, `runs.go`, `watch.go` attempt) | record files, worktrees, process groups | count, create, save, recount, launch, save, discard, remove, clean | no lock; every step can fail; crashes | retention bound, nothing on disk without a record, one group per watcher, clean never hits a live run |
| executor contract (`prompt.go`) | none | claim first, one comment key, one output key | requests answered after the executor is gone | part of supervision |
| lists, inbox, subtasks, order (`store.go`) | lists and the Inbox marker, list, parent and position of a card, creation keys | create, update, reorder, move, delete; three creation endpoints | order rewrites, reads before the transaction, row locks in different orders | one Inbox that is never lost, subtasks stay with their parent, a move disturbs no other order, a repeated creation finds its card, no deadlock behind the account's lock |
| storage quota (`storage_quota.go`) | per-account counters | apply deltas | counters, rows and cascades in one transaction; a plan that shrinks | counters equal the rows; nothing grows past the plan |
| rate limiting (`ratelimit/ratelimit.go`, `server/app.go`) | request times per key, reservations of a request | allow, reserve, finalize, cancel, expire | the clock is read before the lock; several calls per request, each of which can fail | what counts is what was let through, and it is never more than the limit; Retry-After is exact |
| agents and credentials (`agents/`, `auth/pgstore.go`) | agents, tokens, rotation keys | create, rotate, revoke, delete, purge | retried rotations; requests authenticated before the account was disabled | one live credential, one rotation per key, limits |
| accounts, sessions, password reset (`auth/`) | password, sessions, reset links, an outbox | log in, request, claim, issue, mail, complete, retry, redeem, disable | workers with leases; two rows locked in two orders | a request is neither lost nor put back; sessions and links follow the password |
| retention cleanup (`cleanup/`) | what a run has deleted, per rule | batch, backlog check, report | budgets, a deadline, rows the server holds | rules take turns, the report is honest, a run ends |
| database pool (`database/`) | connection slots | acquire, release | timeouts | transactions are closed |
| HTTP routing, configuration, entitlements, migrations, other CLI commands | none of interest | | | |

The parts meet in three places. The watcher and its executor call the server over
HTTP, as the same agent; a run identifier in a header makes a request "managed".
The watcher and its executor share the process table. Watchers of a profile and
the operator share the registry directory and the repository's worktrees.

## 2. Modules

* `TaskWorkflow` is the server. `tasks[t]` is a card's row (workflow columns only),
  `entries[t]` its conversation, `agents` the existing agents, `pending[c]` the
  `CreateTaskEntry` transaction a connection has open. Each store operation is one
  action because the code locks the row before it reads it; `CreateTaskEntry` is
  two (`BeginEntry` up to its replay lookup, `FinishEntry` from the row lock on)
  because the lookup is not covered by that lock. A refused request changes
  nothing and is no step. `PersonStep` is what an account credential may do,
  `AgentStep` what an agent credential may do.
* `RunOwnership` is the abstract specification: a card has at most one owner, a
  run takes only a free card, only the owner adds to its writers.
  `TaskWorkflow!ImplementsOwnership` maps `execution_run_id` to the owner and the
  runs of the stored entries to the writers.
* `RunSupervision` composes one instance of `TaskWorkflow` (one card, one agent,
  the run and a rival) with the executor, the process table and the locals of
  `superviseRun` and `inspectRun`. `watcher.pc` is the program point; the start and
  the answer of each read are separate steps, and so are the goroutine that reaps
  the executor, and the signals. `Environment` selects what else happens. `history`
  remembers what the watcher forgets, among it whether the run's output was stored when
  the watcher last looked at the card (`inTime`).
* `RunRegistry` is the bookkeeping of several watchers and an operator. Each file,
  Git or process operation is one step, each of which can fail as `Faults` says;
  a crash can come at any step. A count sees one of the `Listings`: `registry.list` passes
  over records it cannot load, any of them when `Faults` has "skip". `excess` is a history
  variable with the runs that a wrong or failing second count let through over the limit.
  How a run ends is left open here (either a disposable or a retained outcome).
* `Lists` is one account's board: `lists`, `cards` (where each card is, and what it
  occupies), `usage` (the storage counters), `keys` (creation keys with the request
  they were stored for), `plan`. Every operation takes the account's row lock before
  it reads what it decides on, so each is one action; the two that read earlier get
  what they read as an input (`CreateSubtask`'s list) or read nothing else (a
  position). `Placed` is the arithmetic of a move, `Cascade` what the foreign keys
  delete, `Fingerprint`, `Compatible` and `Answers` the matching of a repeated
  request. `Init` includes what migrations and earlier versions left behind.
* `LockOrder` is the same operations seen as what they lock and in which order. A
  plan is a sequence of sets of locks; asking, being granted, returning early and
  being chosen as a deadlock's victim are actions.
* `RateLimit` is the window rows and the requests that go through them: reading the
  clock and deciding under the row's lock are two actions, a request's reservation,
  lookup, cancellations and finalization one action each. `charged` is a history
  variable with what was counted for good. Sorting is stated by what it returns:
  `OldestFirst` gives, at position i, the first moment by which i of the times had come.
  Its specification is `RateSpec` (`RateInit`, `RateNext`, `RateTypeOK`), so that the
  module can be extended together with `Cleanup`.
* `PasswordReset` is one account's password, sessions, links and outbox, with
  workers, redemptions and logins as processes; the row locks that a transaction
  holds between two statements are explicit.
* `Credentials` is a member's session, API tokens, agents and agent credentials.
  `Authenticate` and the work of a request are separate actions. `SetMemberDisabled`
  is three, because its last statement waits for rows with the snapshot it started
  with.
* `Cleanup` is one run of the retention job over rows that are counted, beside a
  server that locks, releases, renews and deletes them. The job's moment is fixed, and of
  most rules no row becomes eligible for it later; but `removeReservation` sets
  `expires_at` of `api_rate_limit_state` back, so the rules of `Lapsing` have an action
  `Lapse`, at any time and any number of times. `late` is a history variable: the rows
  that became eligible after their rule's backlog was denied.
* `MCTaskWorkflow`, `MCRunRegistry`, `MCLists`, `MCRateLimit`, `MCLockOrder` and
  `MCCredentials` add symmetry sets and the functions that a configuration cannot
  write.
* `TaskWorkflow_proofs`, `RunSupervision_proofs`, `RunRegistry_proofs`, `Lists_proofs`,
  `LockOrder_proofs`, `PasswordReset_proofs` and `Credentials_proofs` extend the module
  they are named after with its inductive invariant, lemmas and theorems (section 4);
  `LimitsAndCleanup_proofs` does it for `RateLimit` and `Cleanup`, two specifications
  with no constant and no variable in common that rest on the same facts about finite
  sets of integers.

`TaskWorkflow`, `Lists` and `LockOrder` are three views of the same transactions:
the workflow columns, the place and size columns, and the locks. They share no
variable, and no condition of one reads a column of another (`checkTaskCapacity`, which
would join lists and statuses, refuses nothing).

What is abstracted: texts (their sizes are kept in `Lists`), names, dates and
priorities; the answer to a replay (the stored entry or a conflict, neither changes state); the lengths of
waits; branches (a branch is removed with its worktree or, in a failed discard,
may be what remains). There is one kind of card, `action`, in the code and in the
model. `DeleteTasks` takes any set of existing cards: `DeleteTask` with its
subtasks, or all the cards of a deleted list.

## 3. Runs

| run | what is asked | bounds, and why they are enough |
|---|---|---|
| `TaskWorkflow` | invariants, action property and refinement of the server | 1 card, 2 agents, 2 runs, 1 key, 1 connection, 1 entry. Two of each contender is what reassignment and reclaiming need; cards do not interact in this module. The theorems cover the rest |
| `RunVerdicts` | verdicts against what the server stored | people, rival and failing reads; one failing read tolerated after the exit. About 1.5 million states |
| `RunEnding` | termination and group shutdown | failures, refusals, interrupt, descendants, reused IDs; the code's five tolerated reads |
| `Retention` | bound, orphans, one group, clean against launches | 2 watchers, 3 runs, limit 2, every fault, unreadable records among them. The limit is reached with both watchers in flight; 399 491 states |
| `Lists` | Inbox, subtasks, order | 2 lists, 3 cards: a card, its subtask and a third card to be disturbed; a move with a group of two into a list that has another |
| `CardStorage` | counters, limits, creation keys | 2 lists, 2 cards of 1 or 2 bytes, 1 key, two plans of which one is too small for what the other allows; deadlock is checked |
| `RateLimit` | counting, reservations, Retry-After | 2 requests at once and 3 in all, one session and one token of one account, limits 1 and 2, window 1, clock up to 2: calls cross, windows end, the limit is lowered below what is recorded. About 1.5 million states |
| `LockOrder` | deadlocks, termination | 2 transactions over every pair of plans, 2 lists, a card with its subtask, 1 agent, 1 key. Cycles of two are the ones PostgreSQL meets here; the theorem covers any number |
| `PasswordReset` | sessions, links, outbox | 2 workers, 1 request, 3 links, 2 redemptions, 1 login, 3 attempts (5 in the code), 1 crash. Both workers on one request is the hard case; 214 434 states |
| `Credentials` | one live credential, one rotation, limits, disabling | 2 requests, 2 agents, 2 keys, 3 credentials, limits of 1; deadlock is checked |
| `Cleanup` | turns, report, termination | 2 rules of up to 4 rows, one of which lapses, batches of 2, budget 3, 1 failing statement, 2 rows that lapse after the backlog was denied. A rule with a backlog beyond its budget stands beside one that is refilled; 295 861 states |

`CleanAfterCrash` expects a violation: clean "refuses if anything from the run is still
running", and a crash between launch and record hides the group.

Other sentences of the repository that the code does not quite keep, met while
modelling and not run as violations:

* INV-6 of the watcher design says an exact repetition of an entry returns the stored
  one before ownership is looked at; the lookup joins on the current owner, so after a
  requeue the repetition is refused instead.
* "Human changes do not clear the stored correlation ID": queueing and reassigning do,
  and `QueuedCardsAreFree` depends on it.
* The watcher "can prove" that a disposable run never held its task; it samples, and a
  claim may land after its last look. What does hold is `DisposableWroteNothing`.
* `docs/cli.md`: "If an output reaches Review before the watcher observes the comment, the
  output result takes precedence". An inspection reads the card, then the conversation: a
  card read as working, whose run then stores its comment and its output before the second
  read, is reported as blocked and supervision ends. `DeliveredIsReported` states exactly
  what is left: success when the output was there at the last look at the card; success
  or blocked when it came after that look while the executor ran; and whenever it came, no
  outcome that gives the worktree up (`DisposableWroteNothing`).
* "Each profile keeps at most ten" worktrees: `registry.list` passes over a record it cannot
  load, and a second count that fails is ignored, so either may let one more run through.
  `RetentionIsBounded` holds for all the others.
* A process group "never" gets a signal after its ID was reused; the path for an
  interrupted read uses an old `exited`.
* A run that "could not be recorded, so watching stops": the error is classified as
  recoverable and the loop goes on (the next round still refuses while a card of the
  agent is in progress).
* `docs/deploy.md`: "Disabling a member immediately deletes all sessions and revokes all
  API and agent tokens". `RotateCredential` does not look at the account again, so a
  rotation authenticated before can leave a live credential; authentication refuses it
  while the account is disabled, and it works again when the account is enabled.
  `DisablingRevokes` states exactly what is left.
* A cleanup report keeps `backlog: true` from a short batch when a later batch of the
  same rule cleared it. And `backlog: false` is about the moment of its query: a row of
  `api_rate_limit_state` may lapse before the report is out.

Deadlock is checked for the server's workflow, `CardStorage` and `Credentials`. In the
others processes end, and a bound (cards, the clock, requests) stops the behaviour, so
those configurations turn it off.

Fairness, only where a liveness property needs it:

* `RunSupervision`: the watcher's own steps (every request carries the client timeout,
  every wait a deadline) and `Reap` (`Wait` returns for an exited child). The executor,
  people and the server owe nothing. `SupervisionEnds` asks for the end only once the
  executor is gone or the watcher was told to stop: an executor that neither reports
  nor exits is watched for ever, by design.
* `LockOrder`: each transaction's steps and PostgreSQL's deadlock detector. `Return` is
  not fair: an early return is never owed.
* `PasswordReset`: workers and redemptions go on, leases run out and delays pass. Nobody
  has to log in, redeem or crash. The number of crashes is bounded, which a promise to
  settle every request needs.
* `Cleanup`: the job's own steps. The deadline need not come and the server need not let
  go of a row, which is what `RunsEnd` is about.

## 4. Proofs

`TaskWorkflow_proofs`, for every set of cards, agents, runs, keys and connections
and every conversation limit, from `ConstantsDiffer` (NULL and the special values
are none of the identifiers) and `EntryLimit`:

* `WorkflowInvariant`: `TypeOK`, `QueueIsFree`, `ReviewIsBacked`, `StateIsSound`;
  `WorkflowTypes`, `QueuedCardsAreFree` and `ReviewsAreBacked` name its parts;
* `WorkflowImplementsOwnership`: the refinement;
* `ManagedWorkIsReported`: a step that an agent's request or an entry can take
  moves a managed card out of `working` only by storing an output with it.

The inductive invariant `IInv` is `TypeOK`, `CardOK(t)` for every card (the facts of
`QueueIsFree`, `ReviewIsBacked` and `StateIsSound` about one card) and the validity
of the open requests. `QueueIsFree` alone is not inductive: a move to `queued` keeps
the assignee, so the assignee must exist; a card that was deleted must have lost its
reason with its entries. Stating it card by card lets every action that touches one
row be proved by `SetRowOK` from facts about that row, and only entries and
deletions need a proof of their own. The refinement needs the invariant in one
place: a claim maps to `Acquire` only because a queued card has no run.

`LockOrder_proofs`, for every number of transactions, lists, cards, agents and keys and
every layout of the board, from `LockAssumptions` (rows, keys and the two special locks
are told apart, and the layout is well typed): `AccountLockersAreSafe`. First each plan
is shown to have one of three shapes (`PlansAreWellFormed`): at most one key or the lock
of moves, then the account, then rows; the account, then rows; or rows only. The
inductive invariant `LocksInv` says that a transaction asks for the next lock of its
plan, holds its first set when it holds anything, holds the account when it holds a
row, and that only one holds the account. The property alone is not inductive: a set
that waits says nothing of what its members hold. From the invariant, nobody waits for
a row of another account locker, whoever waits for a key holds nothing, and the holder
of the account does not wait for it: no cycle is left (`NoAccountCycle`).

`PasswordReset_proofs`, for every number of workers, requests, links, logins,
redemptions, attempts and faults: `SessionsAreCurrent` and `LinksAreCurrent` (inductive
together with `AccountTypes`; `StepsOfTheAccount` first reduces a step to the few that
touch the account), and `ProcessedStays`, an action property (from `OutboxTypes`, which
says that a busy worker has a request; `OutboxWrites` says what each statement does to
a row).

`RunSupervision_proofs`, for every environment (any subset of `Hazards`) and every
number of tolerated reads, from `EnvironmentKnown` and `AttemptLimit`:
`SupervisionTypes`, `ClearedGroupsAreGone`, `DisposableRunsWroteNothing`,
`VerdictsAreBacked` and `DeliveredRunsAreReported`. None of the last three is inductive,
since a verdict rests on answers that are old when it is given. Two facts about the
server carry over: `Silent` (the executor does not run, and no open request of it can be
accepted) and `Settled` (its output was stored and does not wait for a reviewer, or the
card is gone); both last once they hold (`Lasting`, from `ServerKeeps`). `AnswersMean`
says what an answer that is still in the watcher's hands implies about them, given that
the executor's exit was noticed before the first read; `VerdictMeans` says it of the
verdict. Both tell an output that was stored before the last look at the card
(`history.inTime`: the card was then read in review, or the output is `Settled`) from one
that came after it, which leaves blocked as the one other verdict while the executor runs.
The proof first reduces every step of the server to what it does to the one
card (`Takes`, `Rewrites`, `Deletes`, `Opens`, `Drops`, `Stores`), then shows that the
steps of everybody else keep what the watcher knows (`EnvironmentKeeps`) and that each
step of the watcher knows enough (`DecideKeeps` is where the verdicts are given).
"Exactly one output" needs that no entry is stored twice, which the unique key gives.

`RunRegistry_proofs`, for every number of watchers and runs, every limit and every set of
faults, from `FaultsKnown`, `LimitIsNatural`, `RunsFinite` and `NoRecordIsNone` (a missing
record is no record): `RegistryTypes`, `CheckoutsAreFound`, `WatchersRunOneGroup`,
`LiveRunsKeepTheirs`, `RetentionBound`. The invariant ties each program point of a
watcher to the record, the worktree and the group of the run it has in hand
(`WatcherOK`), each run to somebody who knows of it (`RunOK`), and gives the operator what
it read (`CleanerOK`); identifiers are fresh, so no two watchers have the same run in
hand, and a step of one touches nothing of another's (`BusyStep`). The bound is about
`Approved`, the runs that passed the recount: a run is approved by a count that includes
every approved one, so the limit holds although two watchers may count at once. A count
of fewer records than there are approves a run only while the registry is within its limit
all the same; otherwise the run is in `excess`, which the bound leaves out. Nothing is
assumed about which records can be read, or that the same ones can be read twice.

`Credentials_proofs`, for every number of requests, tokens, agents, keys and credentials
and every limit, from `CredentialAssumptions` and `NoneIsNoCredential`:
`CredentialsAreSingle`, `RotationsAreSingle`, `DisabledMeansRevoked`, `PlanLimits`. The
invariant says who holds which row lock between two statements (`Inserting`, `Rotating`,
`KeyHeld`) and that what was read under the lock still holds: the account that was
counted has room, the key that was looked up is still unused, the agent whose row is
locked still exists. `Linked` ties a remembered rotation to the one credential it made. `DisabledMeansRevoked` rests on `Shut`, which follows the three
statements of `SetMemberDisabled`.

`LimitsAndCleanup_proofs`, part one: the limiter, for every number of requests under way,
sessions, tokens, accounts and addresses, every window and every set of limits, from
`RateAssumptions`, `ScopesAreDisjoint` (keys are stored under their scope, and a
credential begins with its kind) and `NoRowIsNone`: `RateTypesHold`,
`PublicRequestsAreCounted`, `NoDoubleCharge` and `RetryAfterHolds`. The bounds on the
clock and on requests are arbitrary naturals.

* The lists come first. `OrderStatistic` says when the i-th of the sorted times has come;
  from it, sorting and cutting off what left the window keep how often each later time is
  recorded (`SortingKeepsTimes`), and the last of a sorted list is the latest
  (`LastIsLatest`). `AppendingCounts` and `RemovingCounts` do the same for the other two
  changes a row can see. All count positions, with injections between finite sets, where
  an induction along the list would be the usual way.
* `RetryAfterHolds` needs types only: `WaitingIsExact` says that fewer than m times are
  after the one at position n - m + 1, and that at least m are after any earlier moment.
  It holds for rows that are not sorted (`ReserveCredential` and `FinalizeCredential`
  append), because every reader sorts.
* `PublicRequestsCount` is not inductive: a row might be deleted while a time in it still
  counts, and a late call might prune what another still needs. `AddressRowsLast` adds
  that a row of an address expires no earlier than each of its times leaves the window,
  which is where the second sort of `Allow` is needed, and `CallsLookBack` that a call's
  time has passed. Its second half, that no row gets longer than a limit, is `RowsAreShort`,
  inductive beside that invariant: a call that finds room writes what it found in the
  window and one more, all others shorten (`WrittenLengths`, `WithoutShortens`). Together
  the two are the limiter's promise to public endpoints: within the last window no more
  requests were let through than the highest limit allows.
* `NothingIsChargedTwice` needs to know of each request what it may hold
  (`RequestsAreSound`): at most one reservation of a credential, none of one it has yet
  to try, and, when the account is charged, that of the credential found and no other. A
  step is then checked by `Balanced`: a count grows only by what the request now holds,
  and what it lets go is charged or taken off the count. A reservation whose time
  was dropped in the meantime (its row expired, or a later call pruned it) counts nothing
  any more, the one case in which giving it back takes nothing off.

Part two: the retention job, for every number of rules and rows, batch size, budget and
number of faults, and every set of rules whose rows may lapse, from `CleanupAssumptions`:
`FairBatches` and `HonestReport`. The invariant `Rounds` counts the rounds: rules that are
still active and had their turn in this round are one batch ahead of the active rules that
wait for it. `LeftGrows` says that a rule's rows, those in the job's own open transaction
included, get more only by `Lapse`: not when a batch fails after its commit was sent, and
not when the server lets go of what it held. So what is left where a backlog was denied is
at most what lapsed since.

`Lists_proofs`, for every number of lists, cards and keys, all sizes and all plans, from
`ListBounds` (sizes are positive, limits natural, "no key" and "keep" are no keys and no
numbers): `ListTypes`, `UsageStaysExact`, `KeysFindTheirCards`, `InboxKept`,
`SubtasksStayTogether`, `StorageBound`, `OrderOfOthersIsKept`. The invariant adds to the types that numbers were
given out (`Numbered`), that one list is the Inbox (`OneInbox`), that subtasks have none
(`Nested`) and that keys carry the fingerprint of their request (`Stamped`).
`UsageStaysExact` compares counters with a sum over the rows, for which the module
develops the sums it needs (`SumIs`, `SumTake`, `SumMinus`, `SumSame`, `SumChange`). The
library's induction theorems cannot be instantiated here; these lemmas take a minimal
counterexample among the finite sets instead (`SmallestSet`), which the well-founded
order of subsets provides. `OrderOfOthersIsKept` follows from `RankOrders` (a card's rank
in a finite set grows along the order, ties included) and from the positions that
`Placed` gives: shifting ranks by the size of the group keeps their order, and a group
placed after a card starts past the highest rank of that card's subtasks.

Only model-checked: liveness (`SupervisionEnds`, `RunsEnd`, `RequestsAreSettled`,
`TransactionsEnd`), since fairness is outside the prover's reach. Every invariant and every
action property that a passing run checks, and the refinement, is also a theorem.

## 5. Not modelled, and the plan

Not modelled in the parts that are:

* creation keys stored before request hashes existed (`legacyParentFallback`), which
  expire within a week of the migration;
* the fixed-window limits of registration and reset requests, and registration itself
  (one insert that creates account, list and session);
* `RevokeAgentToken` and archived agents, which no route reaches or writes;
* rate limit metrics; the connection slots, released once by a `sync.Once`; the lengths
  of waits.

Left out for good: HTTP decoding and routing, static files, configuration, argument
parsing, mail delivery, hashing, applying migrations, and the SQL that only reads
(listing, paging).

What could be added: the parts above, and a single outbox invariant from which the theorems
of `PasswordReset` would follow together.
