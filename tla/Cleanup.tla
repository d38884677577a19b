------------------------------ MODULE Cleanup ------------------------------
(***************************************************************************)
(* The retention job (server/internal/cleanup/cleanup.go): rules take      *)
(* turns deleting batches of rows that were past their retention when the  *)
(* job started, each under a row budget, all under one deadline.           *)
(*                                                                         *)
(* Rows are counted, not named.  The server locks rows, releases them,     *)
(* renews or deletes them at any time, and so does another job that runs   *)
(* at the same time.  Of most rules no row becomes eligible for a moment   *)
(* that is past; but the limiter sets expires_at of api_rate_limit_state   *)
(* back when it drops a reservation, and a row of that table may become    *)
(* eligible while the job runs, and after its backlog was read.            *)
(***************************************************************************)
EXTENDS Integers, FiniteSets, FiniteSetsExt

CONSTANTS
  NRules,       \* len(rules)
  Lapsing,      \* the rules whose rows may become eligible for a moment that is past
  Rows,         \* bound: rows that are eligible at a time, for each rule
  BatchSize, RowBudget,
  MaxFaults,    \* bound: statements that fail
  MaxBatches,   \* bound: batches that are counted
  MaxLate,      \* bound: rows that become eligible after their rule's backlog was denied
  None

ASSUME CleanupAssumptions ==
  /\ NRules \in Nat \ {0} /\ Rows \in Nat /\ MaxFaults \in Nat /\ MaxBatches \in Nat
  /\ BatchSize \in Nat \ {0} /\ RowBudget \in Nat \ {0}
  /\ MaxLate \in Nat /\ Lapsing \subseteq 1 .. NRules
  /\ None \notin BOOLEAN

Rules == 1 .. NRules

VARIABLES
  free,    \* [Rules -> Nat]: eligible rows no transaction holds
  held,    \* [Rules -> Nat]: eligible rows the server's transactions hold
  job,     \* Job
  faults,  \* statements that failed
  late     \* history, [Rules -> Nat]: rows that became eligible after a result denied a backlog

vars == <<free, held, job, faults, late>>

\* One Result of the report, its text aside; Backlog is nil until it is read.
Result == [affected : 0 .. RowBudget, batches : 0 .. MaxBatches, backlog : BOOLEAN \cup {None}, budgetReached : BOOLEAN, error : BOOLEAN]

\* The locals of RunWithBudget: the rule whose turn it is, what its transaction
\* holds, and whether the deadline has passed.
Job == [pc : {"idle", "batch", "commit", "check", "report", "done"}, rule : Rules, active : SUBSET Rules,
        taken : Nat, expired : BOOLEAN, results : [Rules -> Result]]

TypeOK ==
  /\ free \in [Rules -> Nat] /\ held \in [Rules -> Nat]
  /\ job \in Job
  /\ faults \in 0 .. MaxFaults
  /\ late \in [Rules -> Nat]

NewResult == [affected |-> 0, batches |-> 0, backlog |-> None, budgetReached |-> FALSE, error |-> FALSE]

Init ==
  /\ free \in [Rules -> 0 .. Rows]
  /\ held = [r \in Rules |-> 0]
  /\ job = [pc |-> "idle", rule |-> 1, active |-> Rules, taken |-> 0, expired |-> FALSE,
            results |-> [r \in Rules |-> NewResult]]
  /\ faults = 0
  /\ late = [r \in Rules |-> 0]

-----------------------------------------------------------------------------
(* The server beside the job.                                               *)

Hold(r) ==
  /\ free[r] > 0
  /\ free' = [free EXCEPT ![r] = @ - 1]
  /\ held' = [held EXCEPT ![r] = @ + 1]
  /\ UNCHANGED <<job, faults, late>>

\* Committed or rolled back: the row is as it was, or it is gone or renewed.
LetGo(r) ==
  /\ held[r] > 0
  /\ held' = [held EXCEPT ![r] = @ - 1]
  /\ free' \in {free, [free EXCEPT ![r] = @ + 1]}
  /\ UNCHANGED <<job, faults, late>>

\* Rows that are not gone: rows a transaction holds are not.
Left(r) == free[r] + held[r] + (IF job.pc = "commit" /\ job.rule = r THEN job.taken ELSE 0)

\* removeReservation commits: the row's last time is gone, and the time before it
\* is more than a window older than the moment the job started.
Lapse(r) ==
  LET denied == job.results[r].backlog = FALSE IN
  /\ Left(r) < Rows /\ (denied => late[r] < MaxLate)
  /\ free' = [free EXCEPT ![r] = @ + 1]
  /\ late' = IF denied THEN [late EXCEPT ![r] = @ + 1] ELSE late
  /\ UNCHANGED <<held, job, faults>>

-----------------------------------------------------------------------------
(* The job.                                                                 *)

\* Fault: a rule keeps its turn until it is through.
NextRuleDrains(A, r) == IF r \in A THEN r ELSE Min(A)

\* The inner loop goes through the rules in order, and round again.
NextRule(A, r) == IF \E s \in A : s > r THEN Min({s \in A : s > r}) ELSE Min(A)

\* The job after this turn: the rule's result, and whether the rule goes on.
TurnOver(result, goesOn) ==
  LET A == IF goesOn THEN job.active ELSE job.active \ {job.rule} IN
  [job EXCEPT !.results[job.rule] = result, !.taken = 0, !.active = A,
              !.pc = IF A = {} THEN "report" ELSE "batch",
              !.rule = IF A = {} THEN @ ELSE NextRule(A, @)]

Current == job.results[job.rule]

Start ==
  /\ job.pc = "idle"
  /\ job' = [job EXCEPT !.pc = "batch"]
  /\ UNCHANGED <<free, held, faults, late>>

Limit == Min({BatchSize, RowBudget - Current.affected})

\* boundedDelete: up to the limit, of the rows no one holds (SKIP LOCKED).
TakeBatch ==
  LET n == Min({Limit, free[job.rule]}) IN
  /\ job.pc = "batch" /\ ~job.expired
  /\ free' = [free EXCEPT ![job.rule] = @ - n]
  /\ job' = [job EXCEPT !.pc = "commit", !.taken = n]
  /\ UNCHANGED <<held, faults, late>>

\* A full batch ends the turn, and the rule when its budget is used up.
CommitBatch ==
  LET total == Current.affected + job.taken
      full == job.taken = Limit
      new == [Current EXCEPT !.batches = Min({@ + 1, MaxBatches}), !.affected = total, !.budgetReached = full /\ total >= RowBudget]
  IN  /\ job.pc = "commit"
      /\ job' = IF full THEN TurnOver(new, ~new.budgetReached)
                        ELSE [job EXCEPT !.pc = "check", !.results[job.rule] = new]
      /\ UNCHANGED <<free, held, faults, late>>

\* A statement fails; when the deadline has passed it always may.
Fault == IF job.expired THEN UNCHANGED faults ELSE faults < MaxFaults /\ faults' = faults + 1

\* Begin, the statement or the commit fails, and the rule is left; after a commit
\* that was cut off the rows may be gone all the same.
BatchFails ==
  /\ job.pc = "commit" \/ (job.pc = "batch" /\ ~job.expired)
  /\ Fault
  /\ free' \in {free, [free EXCEPT ![job.rule] = @ + job.taken]}
  /\ job' = TurnOver([Current EXCEPT !.error = TRUE], FALSE)
  /\ UNCHANGED <<held, late>>

\* Fault: rows that are locked are not looked at here either.
BacklogUnlocked(r) == free[r] > 0

\* The backlog query sees the rows others hold.
Backlog(r) == Left(r) > 0

\* Fault: the rule goes on as long as anything is left.
GoesOnAlways(backlog, affected) == backlog

\* "Keep making progress when possible, but stop spinning when every eligible
\* row is currently locked".
GoesOn(backlog, affected) == backlog /\ affected # 0

\* After a short batch.
CheckBacklog ==
  LET b == Backlog(job.rule) IN
  /\ job.pc = "check" /\ ~job.expired
  /\ job' = TurnOver([Current EXCEPT !.backlog = b], GoesOn(b, job.taken))
  /\ UNCHANGED <<free, held, faults, late>>

CheckFails ==
  /\ job.pc = "check"
  /\ Fault
  /\ job' = TurnOver([Current EXCEPT !.error = TRUE], FALSE)
  /\ UNCHANGED <<free, held, late>>

\* The deadline of the run.
Expire ==
  /\ job.pc \notin {"idle", "done"} /\ ~job.expired
  /\ job' = [job EXCEPT !.expired = TRUE]
  /\ UNCHANGED <<free, held, faults, late>>

\* The loops are left with rules still active.
LeaveLoop ==
  /\ job.pc = "batch" /\ job.expired
  /\ job' = [job EXCEPT !.pc = "report"]
  /\ UNCHANGED <<free, held, faults, late>>

Unread == {r \in Rules : job.results[r].backlog = None /\ ~job.results[r].error}

\* The last loop reads the backlog of the rules that have none yet ...
ReadBacklog ==
  /\ job.pc = "report" /\ ~job.expired /\ Unread # {}
  /\ LET r == Min(Unread) IN job' = [job EXCEPT !.results[r].backlog = Backlog(r)]
  /\ UNCHANGED <<free, held, faults, late>>

ReadFails ==
  /\ job.pc = "report" /\ Unread # {}
  /\ Fault
  /\ job' = [job EXCEPT !.results[Min(Unread)].error = TRUE]
  /\ UNCHANGED <<free, held, late>>

\* ... unless the deadline has passed.
Complete ==
  /\ job.pc = "report" /\ (job.expired \/ Unread = {})
  /\ job' = [job EXCEPT !.pc = "done"]
  /\ UNCHANGED <<free, held, faults, late>>

JobStep ==
  \/ TakeBatch \/ CommitBatch \/ BatchFails \/ CheckBacklog \/ CheckFails
  \/ LeaveLoop \/ ReadBacklog \/ ReadFails \/ Complete

Next ==
  \/ \E r \in Rules : Hold(r) \/ LetGo(r)
  \/ \E r \in Lapsing : Lapse(r)
  \/ Start \/ Expire \/ JobStep

\* A statement returns or fails; the deadline need not come, and rows that are
\* held need not be let go.
Spec == Init /\ [][Next]_vars /\ WF_vars(JobStep)

-----------------------------------------------------------------------------
(* What holds.                                                              *)

\* While two rules have work the run gives them the same number of batches, but
\* for the turn under way: no backlog, failure or locked row of one rule keeps
\* another waiting.  And none deletes more than its budget.
BatchesAreFair ==
  /\ \A r, s \in job.active : job.results[r].batches - job.results[s].batches <= 1
  /\ \A r \in Rules : job.results[r].affected <= RowBudget

\* Once a report says that a rule has no backlog, every row of it that is eligible
\* and not gone, locked or not, became eligible after the query that said so: the
\* batches, failures and transactions around it hide none.  For a rule whose rows
\* do not lapse that is no row at all, for good.  And a report says nothing of a
\* rule only when it failed or the deadline passed.
ReportIsHonest ==
  /\ \A r \in Rules : job.results[r].backlog = FALSE => Left(r) <= late[r] /\ (r \notin Lapsing => Left(r) = 0)
  /\ job.pc = "done" /\ Unread # {} => job.expired

\* A run that was started ends without its deadline, though rows it may not
\* delete stay locked for ever and others become eligible all the time.
RunsEnd == job.pc = "batch" ~> job.pc = "done"

=============================================================================
