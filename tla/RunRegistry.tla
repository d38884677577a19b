---------------------------- MODULE RunRegistry ----------------------------
(***************************************************************************)
(* The local bookkeeping of the watchers of one profile: run records (one  *)
(* file each), Git worktrees, executor process groups, and the operator    *)
(* who cleans retained runs (cli/cmd/slate: watch.go run and attempt,      *)
(* registry.go, gitrepo.go, runs.go cleanRun).                             *)
(*                                                                         *)
(* Nothing locks the registry: a watcher counts records, creates a         *)
(* checkout, writes its record, counts again, launches and rewrites the    *)
(* record in separate steps, and other watchers, the operator and crashes  *)
(* come in between.  How a supervised run ends is RunSupervision's         *)
(* business; here any outcome is possible.                                 *)
(***************************************************************************)
EXTENDS Naturals, FiniteSets

CONSTANTS
  Watchers,     \* watcher processes, over time
  Runs,         \* run identifiers
  MaxRetained,  \* maxRetainedRuns (10 in the code)
  Faults,       \* what can fail: a subset of FaultKinds
  NoRun, NoRecord

\* "save", "remove": writing or removing a record file.  "discard": removing a
\* worktree.  "survive": a process group outlives SIGKILL.  "crash": a watcher
\* dies at any point.  "count": the registry directory cannot be read.  "skip": a
\* record in it cannot be read or parsed, now or for good.
FaultKinds == {"save", "remove", "discard", "survive", "crash", "count", "skip"}

ASSUME FaultsKnown == Faults \subseteq FaultKinds
ASSUME LimitIsNatural == MaxRetained \in Nat
ASSUME RunsFinite == IsFiniteSet(Runs) /\ NoRun \notin Runs

VARIABLES
  records,    \* [Runs -> Record]: the registry directory
  worktrees,  \* runs whose checkout is on disk
  groups,     \* runs whose process group is alive
  launcher,   \* [Runs -> Watchers \cup {NoRun}]: which watcher started an executor
  used,       \* run identifiers drawn so far
  excess,     \* history: runs let through over the limit by an incomplete count
  watchers,   \* [Watchers -> [pc, run]]: where each watcher is in attempt
  cleaner     \* [pc, run]: where slate runs clean is

vars == <<records, worktrees, groups, launcher, used, excess, watchers, cleaner>>

\* The four retained states are one here; group: ProcessGroupID is recorded.
Record == [state : {"launching", "working", "retained"}, group : BOOLEAN,
           watcher : Watchers] \cup {NoRecord}

ASSUME NoRecordIsNone ==
  NoRecord \notin [state : {"launching", "working", "retained"}, group : BOOLEAN,
                   watcher : Watchers]

\* "stopped": the process is gone.  "lost": gone, and its last checkout was never
\* recorded.
Positions == {"round", "create", "created", "unrecorded", "recount", "launch", "started",
              "supervise", "discard", "forget", "stopped", "lost"}

TypeOK ==
  /\ records \in [Runs -> Record]
  /\ worktrees \subseteq Runs
  /\ groups \subseteq Runs
  /\ launcher \in [Runs -> Watchers \cup {NoRun}]
  /\ used \subseteq Runs /\ excess \subseteq Runs
  /\ watchers \in [Watchers -> [pc : Positions, run : Runs \cup {NoRun}]]
  /\ cleaner \in [pc : {"idle", "release", "remove"}, run : Runs \cup {NoRun}]

Init ==
  /\ records = [r \in Runs |-> NoRecord]
  /\ worktrees = {}
  /\ groups = {}
  /\ launcher = [r \in Runs |-> NoRun]
  /\ used = {} /\ excess = {}
  /\ watchers = [w \in Watchers |-> [pc |-> "round", run |-> NoRun]]
  /\ cleaner = [pc |-> "idle", run |-> NoRun]

Recorded == {r \in Runs : records[r] # NoRecord}

\* list and retainedCount: a record that cannot be loaded is passed over without
\* an error; every other one names a worktree, so it counts.
Listings == IF "skip" \in Faults THEN SUBSET Recorded ELSE {Recorded}

At(w, pc) == watchers[w].pc = pc
Goto(w, pc) == watchers' = [watchers EXCEPT ![w].pc = pc]
RecordOf(state, group, w) == [state |-> state, group |-> group, watcher |-> w]
Save(r, record) == records' = [records EXCEPT ![r] = record]

-----------------------------------------------------------------------------
(* run: one round.  A watcher also ends here when it is interrupted, has    *)
(* failed to launch too often, cannot count the records, or finds a card of *)
(* its agent in progress (refuseWhileWorkTaskExists).                       *)

BeginRound(w) ==
  /\ At(w, "round")
  /\ \E listed \in Listings :
       Goto(w, IF Cardinality(listed) >= MaxRetained THEN "stopped" ELSE "create")
  /\ UNCHANGED <<records, worktrees, groups, launcher, used, excess, cleaner>>

Leave(w) ==
  /\ At(w, "round")
  /\ Goto(w, "stopped")
  /\ UNCHANGED <<records, worktrees, groups, launcher, used, excess, cleaner>>

-----------------------------------------------------------------------------
(* attempt, up to the launch.                                               *)

\* newRunID and createRunWorktree: a fresh identifier, path and branch.  One that
\* fails cleans up after itself, and at worst leaves a partial checkout that no
\* executor is started in; that is not counted among the worktrees.
CreateWorktree(w, r) ==
  /\ At(w, "create") /\ r \notin used
  /\ used' = used \cup {r}
  /\ \/ /\ worktrees' = worktrees \cup {r}
        /\ watchers' = [watchers EXCEPT ![w] = [pc |-> "created", run |-> r]]
     \/ /\ Goto(w, "round")
        /\ UNCHANGED worktrees
  /\ UNCHANGED <<records, groups, launcher, excess, cleaner>>

SaveLaunching(w) ==
  /\ At(w, "created")
  /\ \/ /\ Save(watchers[w].run, RecordOf("launching", FALSE, w))
        /\ Goto(w, "recount")
     \/ /\ "save" \in Faults
        /\ Goto(w, "unrecorded")
        /\ UNCHANGED records
  /\ UNCHANGED <<worktrees, groups, launcher, used, excess, cleaner>>

\* The first record could not be written: the checkout is removed again, or
\* retained after all, or given up (errUndiscoverableRun, the watcher ends).
UndoUnrecorded(w) ==
  LET r == watchers[w].run IN
  /\ At(w, "unrecorded")
  /\ \/ /\ worktrees' = worktrees \ {r}
        /\ Goto(w, "round")
        /\ UNCHANGED records
     \/ /\ "discard" \in Faults
        /\ worktrees' \in {worktrees, worktrees \ {r}}
        /\ \/ Save(r, RecordOf("retained", FALSE, w)) /\ Goto(w, "round")
           \/ UNCHANGED records /\ Goto(w, "lost")
  /\ UNCHANGED <<groups, launcher, used, excess, cleaner>>

\* Fault: the limit is only checked at the start of a round.
OverLimitUnchecked(listed) == FALSE

OverLimit(listed) == Cardinality(listed) > MaxRetained

\* The run goes on to its launch, after a second count of the records listed.
LetThrough(w, listed) ==
  /\ Goto(w, "launch")
  /\ excess' = IF listed # Recorded /\ OverLimit(Recorded)
               THEN excess \cup {watchers[w].run} ELSE excess

\* Several watchers can pass the first check; with the record written, the
\* second count sees every reservation that can be read.  A count that fails is
\* ignored.
Recount(w) ==
  /\ At(w, "recount")
  /\ \/ \E listed \in Listings :
          IF OverLimit(listed) THEN Goto(w, "discard") /\ UNCHANGED excess
                               ELSE LetThrough(w, listed)
     \/ "count" \in Faults /\ LetThrough(w, {})
  /\ UNCHANGED <<records, worktrees, groups, launcher, used, cleaner>>

StartExecutor(w) ==
  LET r == watchers[w].run IN
  /\ At(w, "launch")
  /\ \/ /\ groups' = groups \cup {r}
        /\ launcher' = [launcher EXCEPT ![r] = w]
        /\ Goto(w, "started")
     \/ /\ Goto(w, "discard")
        /\ UNCHANGED <<groups, launcher>>
  /\ UNCHANGED <<records, worktrees, used, excess, cleaner>>

-----------------------------------------------------------------------------
(* attempt, from the launch on.                                             *)

\* stopProcessGroup: the group ends, or is reported as surviving.
GroupStopped(r) == r \notin groups

\* When the record cannot be rewritten the executor is stopped and the launching
\* record stays.  The error is a local one, so the caller carries on.
SaveWorking(w) ==
  LET r == watchers[w].run IN
  /\ At(w, "started")
  /\ \/ /\ Save(r, RecordOf("working", TRUE, w))
        /\ Goto(w, "supervise")
     \/ /\ "save" \in Faults
        /\ UNCHANGED records
        /\ \/ GroupStopped(r) /\ Goto(w, "round")
           \/ "survive" \in Faults /\ ~GroupStopped(r) /\ Goto(w, "stopped")
  /\ UNCHANGED <<worktrees, groups, launcher, used, excess, cleaner>>

\* The run never held the card and its group is gone.
EndDisposable(w) ==
  /\ At(w, "supervise") /\ GroupStopped(watchers[w].run)
  /\ Goto(w, "discard")
  /\ UNCHANGED <<records, worktrees, groups, launcher, used, excess, cleaner>>

\* Fault: a watcher whose group survived goes on to its next card.
AfterSurvivorGoesOn(w) == Goto(w, "round")

AfterSurvivor(w) == Goto(w, "stopped")

\* Every other outcome keeps the worktree; a failing save is only logged.  After
\* a success or an ambiguous outcome the watcher goes on, after the others, and
\* after a surviving group, it ends.
EndRetained(w) ==
  LET r    == watchers[w].run
      gone == GroupStopped(r)
  IN  /\ At(w, "supervise")
      /\ gone \/ "survive" \in Faults
      /\ \/ Save(r, RecordOf("retained", ~gone, w))
         \/ "save" \in Faults /\ UNCHANGED records
      /\ IF gone THEN Goto(w, "round") \/ Goto(w, "stopped") ELSE AfterSurvivor(w)
      /\ UNCHANGED <<worktrees, groups, launcher, used, excess, cleaner>>

-----------------------------------------------------------------------------
(* Disposing of a checkout: after the second count, after a failed launch   *)
(* and after a disposable outcome.                                          *)

\* Fault: the record goes although the checkout stays.
KeepAfterFailureForgets(r, w) == Save(r, NoRecord)

\* Fault: the record keeps the disposable outcome as its state, which is none of
\* the states a record on disk may have.
KeepAfterFailureOutcome(r, w) == Save(r, RecordOf("lost_race", FALSE, w))

KeepAfterFailure(r, w) ==
  \/ Save(r, RecordOf("retained", FALSE, w))
  \/ "save" \in Faults /\ UNCHANGED records

\* discardRunWorktree removes the checkout, then the branch; when either fails
\* the record stays.
Discard(w) ==
  LET r == watchers[w].run IN
  /\ At(w, "discard")
  /\ \/ /\ worktrees' = worktrees \ {r}
        /\ Goto(w, "forget")
        /\ UNCHANGED records
     \/ /\ "discard" \in Faults
        /\ KeepAfterFailure(r, w)
        /\ Goto(w, "round")
        /\ worktrees' \in {worktrees, worktrees \ {r}}
  /\ UNCHANGED <<groups, launcher, used, excess, cleaner>>

\* registry.remove; a failure ends the watcher (errRunRecordRemoval).
Forget(w) ==
  /\ At(w, "forget")
  /\ \/ Save(watchers[w].run, NoRecord) /\ Goto(w, "round")
     \/ "remove" \in Faults /\ UNCHANGED records /\ Goto(w, "stopped")
  /\ UNCHANGED <<worktrees, groups, launcher, used, excess, cleaner>>

-----------------------------------------------------------------------------
(* Processes.                                                               *)

\* An executor ends on its own or is stopped by its watcher.
GroupEnds(r) ==
  /\ r \in groups
  /\ groups' = groups \ {r}
  /\ UNCHANGED <<records, worktrees, launcher, used, excess, watchers, cleaner>>

ProcessAlive(w) == watchers[w].pc \notin {"stopped", "lost"}

Crash(w) ==
  /\ "crash" \in Faults
  /\ ProcessAlive(w)
  /\ Goto(w, IF watchers[w].pc \in {"created", "unrecorded"} THEN "lost" ELSE "stopped")
  /\ UNCHANGED <<records, worktrees, groups, launcher, used, excess, cleaner>>

-----------------------------------------------------------------------------
(* slate runs clean.                                                        *)

\* Fault: only the recorded group protects a run.
MayCleanByGroup(record, r) == ~(record.group /\ r \in groups)

MayClean(record, r) ==
  /\ ~(record.group /\ r \in groups)
  /\ record.state # "retained" => ~ProcessAlive(record.watcher)

\* The record is loaded and judged; a refusal changes nothing.
BeginClean(r) ==
  /\ cleaner.pc = "idle" /\ records[r] # NoRecord
  /\ MayClean(records[r], r)
  /\ cleaner' = [pc |-> "release", run |-> r]
  /\ UNCHANGED <<records, worktrees, groups, launcher, used, excess, watchers>>

\* releaseRetainedWorktree, which may refuse (uncommitted changes).
ReleaseWorktree ==
  /\ cleaner.pc = "release"
  /\ \/ /\ worktrees' = worktrees \ {cleaner.run}
        /\ cleaner' = [cleaner EXCEPT !.pc = "remove"]
     \/ /\ cleaner.run \in worktrees
        /\ cleaner' = [pc |-> "idle", run |-> NoRun]
        /\ UNCHANGED worktrees
  /\ UNCHANGED <<records, groups, launcher, used, excess, watchers>>

RemoveRecord ==
  /\ cleaner.pc = "remove"
  /\ cleaner' = [pc |-> "idle", run |-> NoRun]
  /\ \/ Save(cleaner.run, NoRecord)
     \/ "remove" \in Faults /\ UNCHANGED records
  /\ UNCHANGED <<worktrees, groups, launcher, used, excess, watchers>>

-----------------------------------------------------------------------------
WatcherStep(w) ==
  \/ BeginRound(w) \/ Leave(w)
  \/ \E r \in Runs : CreateWorktree(w, r)
  \/ SaveLaunching(w) \/ UndoUnrecorded(w) \/ Recount(w) \/ StartExecutor(w)
  \/ SaveWorking(w) \/ EndDisposable(w) \/ EndRetained(w)
  \/ Discard(w) \/ Forget(w) \/ Crash(w)

CleanerStep == (\E r \in Runs : BeginClean(r)) \/ ReleaseWorktree \/ RemoveRecord

Next ==
  \/ \E w \in Watchers : WatcherStep(w)
  \/ \E r \in Runs : GroupEnds(r)
  \/ CleanerStep

Spec == Init /\ [][Next]_vars

-----------------------------------------------------------------------------
(* What the registry guarantees.                                            *)

\* "Each profile keeps at most ten": however many watchers share the registry, and
\* whatever crashes or fails but the count itself, no more checkouts are on disk
\* that an executor worked in than the limit allows.  A second count that fails,
\* or passes over a record it cannot load, may let a run through over the limit;
\* those runs come on top, and nothing else does.  (So may a checkout that could
\* not be removed again before its launch.)
RetentionIsBounded ==
  Cardinality({r \in worktrees \ excess : launcher[r] # NoRun}) <= MaxRetained

\* Every checkout on disk has a record in the registry, by which an operator can
\* find and release it, except between its creation and its first record.
NoOrphans ==
  \A r \in worktrees :
    \/ records[r] # NoRecord
    \/ \E w \in Watchers :
         watchers[w].run = r /\ watchers[w].pc \in {"created", "unrecorded", "lost"}

\* INV-3: one watcher runs one process group; a group that would not stop is the
\* watcher's last.
OneGroupPerWatcher ==
  \A q, r \in groups : launcher[q] = launcher[r] => q = r

\* No live executor loses the checkout it works in, to the operator or to its
\* watcher, at whatever step of the launch clean comes and whatever failed, while
\* its watcher lives or its process group is on record.
LiveRunKeepsWorktree ==
  \A r \in groups :
    ProcessAlive(launcher[r]) \/ (records[r] # NoRecord /\ records[r].group) => r \in worktrees

\* docs/watcher.md: slate runs clean "refuses if anything from the run is still
\* running".
CleanRefusesLiveRuns == groups \subseteq worktrees

=============================================================================
