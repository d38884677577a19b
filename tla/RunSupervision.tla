--------------------------- MODULE RunSupervision ---------------------------
(***************************************************************************)
(* One supervised run: the server of TaskWorkflow, the executor a watcher  *)
(* started for a queued card, and the watcher that polls the server to     *)
(* find out how the run ended (cli/cmd/slate/watch.go, superviseRun).      *)
(*                                                                         *)
(* The watcher learns about the run from two requests that do not see the  *)
(* same state (the card, then the run's entries), and about the executor   *)
(* from a goroutine that waits for it.  People, another run, the executor, *)
(* its descendants and the operating system act between any two of these   *)
(* steps.                                                                  *)
(***************************************************************************)
EXTENDS Naturals, FiniteSets

CONSTANTS
  Environment,           \* what else happens: a subset of Hazards
  PostExitReadAttempts,  \* failing reads tolerated after the executor's exit (5)
  NoRequest

\* "person": people change the card.  "rival": another run works for the same
\* agent.  "failures": reads fail.  "refusals": the server answers a read with
\* an error that repeating cannot change.  "interrupt": Ctrl-C.  "descendants":
\* the executor starts processes that outlive it.  "recycling": the operating
\* system hands the group ID to somebody else once nothing holds it.
Hazards == {"person", "rival", "failures", "refusals", "interrupt", "descendants", "recycling"}

ASSUME EnvironmentKnown == Environment \subseteq Hazards
ASSUME AttemptLimit == PostExitReadAttempts \in Nat

Card == "card"
Agent == "agent"
Run == "run"
Rival == "rival"
Kinds == {"comment", "output"}

VARIABLES
  tasks, entries, agents, pending,  \* the server: see TaskWorkflow
  claim,      \* the executor's claim: "none", "sent", "won", "lost"
  process,    \* the executor's process group, as the operating system has it
  cancelled,  \* the watcher's context was cancelled
  watcher,    \* the local state of superviseRun and inspectRun
  history     \* what the properties ask about and no code records

server == <<tasks, entries, agents, pending>>
vars == <<tasks, entries, agents, pending, claim, process, cancelled, watcher, history>>

\* The keys the prompt gives a run: one for its comment, one for its output.
Server == INSTANCE TaskWorkflow WITH
  Tasks <- {Card}, Agents <- {Agent}, Runs <- {Run, Rival}, Keys <- {Run, Rival} \X Kinds,
  Conns <- {Run, Rival}, MaxTaskEntries <- 4,
  NoAgent <- "nobody", NoRun <- "none", NoKey <- <<>>, Human <- "human", Keep <- "keep",
  NoRequest <- NoRequest

EntryOf(run, kind) ==
  [kind |-> kind, author |-> Agent, key |-> <<run, kind>>, run |-> run]

Verdicts == {"success", "blocked", "interrupted", "ambiguous", "lost_race", "never_claimed"}

\* pc: where superviseRun is.  alive: the executor was alive when the current
\* read began.  seen, has: the answers of the two reads.  The next four are
\* runSupervision; exited, attempts are locals of superviseRun; err, cleared its
\* other results.
Watcher ==
  [pc : {"inspect", "readTask", "gotTask", "readEntries", "gotEntries",
         "wait", "grace", "stop", "term", "kill", "done"},
   alive : BOOLEAN,
   seen : [status : Server!Statuses \cup {""}, run : {Run, Rival, "none"}],
   has : SUBSET Kinds,
   everOwned : BOOLEAN, everWrote : BOOLEAN, observed : BOOLEAN, readFailed : BOOLEAN,
   exited : BOOLEAN, attempts : 0..PostExitReadAttempts + 1,
   verdict : Verdicts \cup {"undecided"}, err : BOOLEAN, cleared : BOOLEAN]

\* leader: the process the watcher started, a zombie until Wait reaps it.
\* finished, remnant: what the waiting goroutine published.  recycled: the group
\* ID belongs to somebody else.
Process ==
  [leader : {"running", "zombie", "reaped"}, descendants : BOOLEAN,
   finished : BOOLEAN, remnant : BOOLEAN, recycled : BOOLEAN]

\* delivered: the run's output was stored while the executor ran.  inTime: it
\* had been stored when the watcher last read the card.
History == [delivered : BOOLEAN, inTime : BOOLEAN]

TypeOK ==
  /\ Server!TypeOK
  /\ claim \in {"none", "sent", "won", "lost"}
  /\ process \in Process
  /\ cancelled \in BOOLEAN
  /\ watcher \in Watcher
  /\ history \in History

NothingSeen == [status |-> "", run |-> "none"]

\* The executor has just started; the card was read as queued before.
Init ==
  /\ tasks = [t \in {Card} |-> [status |-> "queued", assignee |-> Agent,
                                run |-> "none", reason |-> ""]]
  /\ entries = [t \in {Card} |-> <<>>]
  /\ agents = {Agent}
  /\ pending = [c \in {Run, Rival} |-> NoRequest]
  /\ claim = "none"
  /\ process = [leader |-> "running", descendants |-> FALSE, finished |-> FALSE,
                remnant |-> FALSE, recycled |-> FALSE]
  /\ cancelled = FALSE
  /\ watcher = [pc |-> "inspect", alive |-> FALSE, seen |-> NothingSeen, has |-> {},
                everOwned |-> FALSE, everWrote |-> FALSE, observed |-> FALSE,
                readFailed |-> FALSE, exited |-> FALSE, attempts |-> 0,
                verdict |-> "undecided", err |-> FALSE, cleared |-> FALSE]
  /\ history = [delivered |-> FALSE, inTime |-> FALSE]

-----------------------------------------------------------------------------
(* The executor, as the prompt tells it to behave: claim first, stop when   *)
(* the claim is refused, post a comment or an output under its own key,     *)
(* repeat what is uncertain, and exit at any time.                          *)

Running == process.leader = "running"

SendClaim ==
  /\ Running /\ claim = "none"
  /\ claim' = "sent"
  /\ UNCHANGED <<server, process, cancelled, watcher, history>>

\* The server answers the claim, perhaps after the executor is gone.
AnswerClaim ==
  /\ claim = "sent"
  /\ IF Server!MayClaim(Card, Agent)
     THEN /\ Server!ClaimTask(Card, Agent, Run)
          /\ claim' = "won"
     ELSE claim' = "lost" /\ UNCHANGED server
  /\ UNCHANGED <<process, cancelled, watcher, history>>

SendEntry(kind) ==
  /\ Running /\ claim = "won"
  /\ Server!BeginEntry(Run, Card, EntryOf(Run, kind))
  /\ UNCHANGED <<claim, process, cancelled, watcher, history>>

\* The places of a run's outputs in the conversation.
OutputOf(run) ==
  {i \in DOMAIN entries[Card] : entries[Card][i].run = run /\ entries[Card][i].kind = "output"}

AnswerEntry ==
  /\ Server!FinishEntry(Run)
  /\ history' = [history EXCEPT !.delivered = @ \/ (Running /\ OutputOf(Run)' # {})]
  /\ UNCHANGED <<claim, process, cancelled, watcher>>

Spawn ==
  /\ "descendants" \in Environment
  /\ Running /\ ~process.descendants
  /\ process' = [process EXCEPT !.descendants = TRUE]
  /\ UNCHANGED <<server, claim, cancelled, watcher, history>>

\* Exits include the deaths that signals cause: a signalled process may go
\* at once, later, or not at all.
LeaderExits ==
  /\ Running
  /\ process' = [process EXCEPT !.leader = "zombie"]
  /\ UNCHANGED <<server, claim, cancelled, watcher, history>>

DescendantsExit ==
  /\ process.descendants
  /\ process' = [process EXCEPT !.descendants = FALSE]
  /\ UNCHANGED <<server, claim, cancelled, watcher, history>>

ExecutorStep ==
  \/ SendClaim
  \/ \E kind \in Kinds : SendEntry(kind)
  \/ Spawn \/ LeaderExits \/ DescendantsExit

-----------------------------------------------------------------------------
(* The operating system and the goroutine that waits for the executor.      *)

\* processGroupAlive: a zombie is a member of its group, and so is a stranger
\* when the ID was handed on.
GroupAlive == process.leader # "reaped" \/ process.descendants \/ process.recycled

\* Wait returns, and what is left of the group is read and published.
Reap ==
  /\ process.leader = "zombie"
  /\ process' = [process EXCEPT !.leader = "reaped", !.finished = TRUE,
                                !.remnant = process.descendants]
  /\ UNCHANGED <<server, claim, cancelled, watcher, history>>

\* Not before the answer was published: the code relies on that.
Recycle ==
  /\ "recycling" \in Environment
  /\ process.finished /\ ~GroupAlive
  /\ process' = [process EXCEPT !.recycled = TRUE]
  /\ UNCHANGED <<server, claim, cancelled, watcher, history>>

-----------------------------------------------------------------------------
(* People and the other run.                                                *)

\* Requeue, complete, drag back to work, delete.
PersonStep ==
  /\ "person" \in Environment
  /\ \/ \E s \in {"queued", "done"} : Server!HumanUpdate(Card, s, "unset", "keep")
     \/ Server!MoveTask(Card, "working")
     \/ Server!DeleteTasks({Card})
  /\ UNCHANGED <<claim, process, cancelled, watcher, history>>

RivalStep ==
  /\ "rival" \in Environment
  /\ \/ Server!ClaimTask(Card, Agent, Rival)
     \/ Server!BeginEntry(Rival, Card, EntryOf(Rival, "output"))
     \/ Server!FinishEntry(Rival)
  /\ UNCHANGED <<claim, process, cancelled, watcher, history>>

Interrupt ==
  /\ "interrupt" \in Environment
  /\ ~cancelled
  /\ cancelled' = TRUE
  /\ UNCHANGED <<server, claim, process, watcher, history>>

-----------------------------------------------------------------------------
(* inspectRun.                                                              *)

Watch(w) ==
  /\ watcher' = w
  /\ UNCHANGED <<server, claim, process, cancelled, history>>

\* aliveThrough: not known to have exited, now.
AliveNow == ~watcher.exited /\ ~process.finished

BeginTaskRead ==
  /\ watcher.pc = "inspect"
  /\ Watch([watcher EXCEPT !.pc = "readTask", !.alive = AliveNow])

\* An agent reads cards that are assigned to it, and their entries; a cancelled
\* context fails the read.
Readable == tasks[Card].status \in Server!Statuses /\ tasks[Card].assignee = Agent /\ ~cancelled

TaskRead ==
  /\ watcher.pc = "readTask" /\ Readable
  /\ watcher' = [watcher EXCEPT !.pc = "gotTask",
                                !.seen = [status |-> tasks[Card].status, run |-> tasks[Card].run]]
  /\ history' = [history EXCEPT !.inTime = OutputOf(Run) # {}]
  /\ UNCHANGED <<server, claim, process, cancelled>>

BeginEntriesRead ==
  /\ watcher.pc = "gotTask"
  /\ Watch([watcher EXCEPT !.pc = "readEntries", !.alive = AliveNow])

\* Fault: whatever was posted on the card counts for this run.
AnyEntries == {e.kind : e \in Server!EntriesOf(Card)}

\* entriesForRun and classifyRunEntries.
RunEntries == {e.kind : e \in {f \in Server!EntriesOf(Card) : f.run = Run}}

EntriesRead ==
  /\ watcher.pc = "readEntries" /\ Readable
  /\ Watch([watcher EXCEPT !.pc = "gotEntries", !.has = RunEntries])

\* Fault: the executor's exit is looked up when the answers are judged, not
\* before they were asked for.
ConclusionWithLateExit(w) ==
  IF "output" \in w.has /\ w.seen.status \in {"needs_review", "done"} THEN "success"
  ELSE IF "comment" \in w.has /\ w.seen.status = "working" THEN "blocked"
  ELSE IF AliveNow THEN "undecided"
  ELSE IF w.everOwned \/ w.everWrote THEN "interrupted"
  ELSE "ambiguous"

\* What the two answers show, with everything remembered about the run (w).
Conclusion(w) ==
  IF "output" \in w.has /\ w.seen.status \in {"needs_review", "done"} THEN "success"
  ELSE IF "comment" \in w.has /\ w.seen.status = "working" THEN "blocked"
  ELSE IF ~w.exited THEN "undecided"
  ELSE IF w.everOwned \/ w.everWrote THEN "interrupted"
  ELSE IF ~w.observed \/ w.readFailed THEN "ambiguous"
  ELSE IF w.seen.run # "none" THEN "lost_race"
  ELSE IF w.seen.status = "queued" THEN "never_claimed"
  ELSE "ambiguous"

\* Fault: only ownership is evidence that the run touched the card.
RememberedOwnership(w) ==
  [w EXCEPT !.everOwned = @ \/ w.seen.run = Run, !.observed = @ \/ AliveNow]

\* runSupervision after the pair of reads.
Remembered(w) ==
  [w EXCEPT !.everOwned = @ \/ w.seen.run = Run,
            !.everWrote = @ \/ w.has # {},
            !.observed  = @ \/ AliveNow]

Decide ==
  LET w == Remembered(watcher)
      v == Conclusion(w)
  IN  /\ watcher.pc = "gotEntries"
      /\ Watch([w EXCEPT !.pc = IF v = "undecided" THEN "wait"
                                ELSE IF w.exited THEN "stop" ELSE "grace",
                         !.verdict = v, !.seen = NothingSeen, !.has = {}, !.alive = FALSE])

-----------------------------------------------------------------------------
(* superviseRun around it.                                                  *)

Reading == watcher.pc \in {"readTask", "readEntries"}

\* Fault: the count starts again with every failure.
PostExitTriesRestarted(exited) == IF exited THEN 1 ELSE 0

PostExitTries(exited) == watcher.attempts + (IF exited THEN 1 ELSE 0)

\* Fault: one attempt too many.
GiveUpLate(tries) == tries > PostExitReadAttempts + 1

GiveUp(tries) == tries > PostExitReadAttempts

\* A failure worth repeating: remembered when the executor was alive as the read
\* began, and counted once the executor is gone.
ReadFails ==
  LET exited == watcher.exited \/ process.finished
      tries  == PostExitTries(exited)
      giveUp == GiveUp(tries)
  IN  /\ "failures" \in Environment
      /\ Reading /\ ~cancelled
      /\ Watch([watcher EXCEPT
                  !.readFailed = @ \/ watcher.alive,
                  !.exited = exited, !.attempts = tries,
                  !.verdict = IF giveUp THEN "interrupted" ELSE "undecided",
                  !.pc = IF giveUp THEN "stop" ELSE "inspect",
                  !.seen = NothingSeen, !.alive = FALSE])

\* An answer that repeating cannot change: the card is gone or reassigned, or
\* the credential was revoked.
ReadRefused ==
  /\ Reading /\ ~cancelled
  /\ "refusals" \in Environment \/ ~Readable
  /\ Watch([watcher EXCEPT !.exited = @ \/ process.finished, !.verdict = "ambiguous",
                           !.err = TRUE, !.pc = "stop", !.seen = NothingSeen, !.alive = FALSE])

\* A read that failed because the watcher is stopping.  exited is as old as the
\* loop's last look.
ReadCancelled ==
  /\ Reading /\ cancelled
  /\ Watch([watcher EXCEPT !.verdict = "interrupted", !.pc = "stop",
                           !.seen = NothingSeen, !.alive = FALSE])

\* The select between two inspections: the executor's exit, the interrupt (which
\* looks once more for the exit), or the timer when neither is there.
WaitExit ==
  /\ watcher.pc = "wait" /\ process.finished
  /\ Watch([watcher EXCEPT !.exited = TRUE, !.pc = "inspect"])

WaitInterrupt ==
  /\ watcher.pc = "wait" /\ cancelled
  /\ Watch([watcher EXCEPT !.exited = @ \/ process.finished, !.verdict = "interrupted",
                           !.pc = "stop"])

WaitTimer ==
  /\ watcher.pc = "wait" /\ ~process.finished /\ ~cancelled
  /\ Watch([watcher EXCEPT !.pc = "inspect"])

\* awaitExit: a decided run may leave on its own; the grace period ends with its
\* exit or without.
Grace ==
  /\ watcher.pc = "grace"
  /\ Watch([watcher EXCEPT !.exited = process.finished, !.pc = "stop"])

-----------------------------------------------------------------------------
(* stopExecutorGroup and stopProcessGroup.                                  *)

Done(cleared) == Watch([watcher EXCEPT !.pc = "done", !.cleared = cleared])

Signal(pc) == Watch([watcher EXCEPT !.pc = pc])

\* Fault: an executor that was waited for is taken to be the whole group.
KnownGoneWithLeader == watcher.exited

\* Once the leader was reaped, only what was published at that moment is trusted.
KnownGone == watcher.exited /\ ~process.remnant

StopGroup ==
  /\ watcher.pc = "stop"
  /\ IF KnownGone \/ ~GroupAlive THEN Done(TRUE) ELSE Signal("term")

GroupGone ==
  /\ watcher.pc \in {"term", "kill"} /\ ~GroupAlive
  /\ Done(TRUE)

TermTimeout ==
  /\ watcher.pc = "term" /\ GroupAlive
  /\ Signal("kill")

KillTimeout ==
  /\ watcher.pc = "kill" /\ GroupAlive
  /\ Done(FALSE)

-----------------------------------------------------------------------------
WatcherStep ==
  \/ BeginTaskRead \/ TaskRead \/ BeginEntriesRead \/ EntriesRead \/ Decide
  \/ ReadFails \/ ReadRefused \/ ReadCancelled
  \/ WaitExit \/ WaitInterrupt \/ WaitTimer \/ Grace
  \/ StopGroup \/ GroupGone \/ TermTimeout \/ KillTimeout

Next ==
  \/ ExecutorStep \/ AnswerClaim \/ AnswerEntry
  \/ Reap \/ Recycle
  \/ PersonStep \/ RivalStep \/ Interrupt
  \/ WatcherStep

\* Requests have a client timeout and waits a deadline, so the watcher never
\* stays in one place; the runtime reaps the child and runs the goroutine.
Spec == Init /\ [][Next]_vars /\ WF_vars(WatcherStep) /\ WF_vars(Reap)

-----------------------------------------------------------------------------
(* What supervision guarantees.                                             *)

Disposable == {"lost_race", "never_claimed"}

Written == {e \in Server!EntriesOf(Card) : e.run = Run}

\* INV-4: a run is reported successful only when exactly one output of that run is
\* in the card's conversation, blocked only when its comment is; whatever people,
\* the other run and retries did meanwhile (unless the card was deleted since).
VerdictIsBacked ==
  tasks[Card].status # "deleted" =>
    /\ watcher.verdict = "success" => Cardinality(OutputOf(Run)) = 1
    /\ watcher.verdict = "blocked" => \E e \in Written : e.kind = "comment"

\* A worktree is thrown away only when its run wrote nothing on the card, at the
\* time of the verdict and ever after.
DisposableWroteNothing == watcher.verdict \in Disposable => Written = {}

\* The watcher was interrupted, or the server stopped answering it.
Excused == cancelled \/ watcher.err \/ watcher.attempts > PostExitReadAttempts

\* A result that waits for its reviewer is reported as success if it was stored
\* before the watcher's last look at the card: then nothing excuses less, not the
\* run's comment, not the executor's exit, not what the rival did.  One that was
\* stored after that look, while the executor ran, is the torn reading: it can
\* pass for blocked when the run also posted its comment (the card was still in
\* progress when it was read, or the output came in the grace period), and for
\* nothing else.  Either way the worktree is kept.
DeliveredIsReported ==
  /\ tasks[Card].run = Run /\ tasks[Card].reason = "output"
  /\ watcher.verdict \in Verdicts \ {"success"}
  => \/ Excused
     \/ ~history.inTime /\ (history.delivered => watcher.verdict = "blocked")

\* INV-3: when supervision says nothing of the run is left, nothing is, so that
\* the watcher may launch the next executor.
ClearedMeansGone ==
  watcher.pc = "done" /\ watcher.cleared => process.leader # "running" /\ ~process.descendants

\* Supervision ends once the executor is gone or the watcher is told to stop,
\* even if the server never answers again.
SupervisionEnds == ~Running \/ cancelled ~> watcher.pc = "done"

=============================================================================
