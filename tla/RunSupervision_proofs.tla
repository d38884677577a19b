----------------------- MODULE RunSupervision_proofs -----------------------
(***************************************************************************)
(* Proofs about RunSupervision, for every environment and every limit on   *)
(* the reads that may fail after the executor's exit.                      *)
(*                                                                         *)
(* The watcher judges a run by answers that are old when it uses them, so  *)
(* the invariant says what an old answer is still worth.  Two facts about  *)
(* the server, once true, stay true: Silent (the run can write no more)    *)
(* and Settled (the run's output no longer waits for its reviewer, and it  *)
(* cannot come to wait again).  What the watcher saw after the executor's  *)
(* exit implies one or the other.                                          *)
(***************************************************************************)
EXTENDS RunSupervision, Sequences, TLAPS, FiniteSetTheorems

CardRow == tasks[Card]
Conv == entries[Card]

Posted(run, kind) == \E i \in DOMAIN Conv : Conv[i] = EntryOf(run, kind)

RequestOf(run, kind) == [task |-> Card, entry |-> EntryOf(run, kind)]

\* The row as the server's statements leave it.
RowSound ==
  /\ CardRow.status # "unborn"
  /\ CardRow.status = "queued" => CardRow.run = "none"
  /\ CardRow.reason = "output" => CardRow.status = "needs_review"
  /\ CardRow.status = "deleted" => CardRow.run = "none" /\ Conv = <<>>

\* Only the two runs write on the card, and no entry is stored twice.
ConvSound ==
  /\ \A i \in DOMAIN Conv : \E run \in {Run, Rival}, kind \in Kinds : Conv[i] = EntryOf(run, kind)
  /\ \A i, j \in DOMAIN Conv : Conv[i] = Conv[j] => i = j

RequestsSound ==
  \A c \in {Run, Rival} : pending[c] # NoRequest =>
    \E kind \in Kinds : pending[c] = RequestOf(c, kind)

\* Nothing of the run reaches the card before its claim was won.
ClaimedFirst ==
  \/ CardRow.run = Run
  \/ pending[Run] # NoRequest
  \/ \E i \in DOMAIN Conv : Conv[i].run = Run
  => claim = "won"

ServerSound == RowSound /\ ConvSound /\ RequestsSound /\ ClaimedFirst

\* What the goroutine published is what the operating system knows.
ProcessSound ==
  /\ process.finished => process.leader = "reaped"
  /\ process.finished /\ ~process.remnant => ~process.descendants
  /\ watcher.exited => process.finished

\* The run can write no more.
Silent == ~Running /\ ~(pending[Run] # NoRequest /\ CardRow.run = Run)

\* The run's output was stored and does not wait for its reviewer.
Settled ==
  /\ ~(CardRow.run = Run /\ CardRow.reason = "output")
  /\ Posted(Run, "output") \/ CardRow.status = "deleted"

Between == watcher.pc \in {"gotTask", "readEntries", "gotEntries"}

\* The answers of the two reads, for as long as they are kept.
AnswersMean ==
  /\ Between /\ watcher.exited /\ watcher.seen.run # Run => Silent
  /\ watcher.pc = "gotEntries" /\ watcher.exited /\ watcher.seen.run # Run /\ watcher.has = {}
       => Written = {}
  /\ watcher.pc = "gotEntries" /\ CardRow.status # "deleted"
       => \A kind \in watcher.has : Posted(Run, kind)
  /\ Between /\ watcher.exited /\ history.delivered => history.inTime
  /\ Between /\ history.inTime => watcher.seen.status = "needs_review" \/ Settled
  /\ watcher.pc = "gotEntries" /\ history.inTime => "output" \in watcher.has \/ Settled

\* The verdict, from the moment it is given.
VerdictMeans ==
  /\ watcher.verdict \in Disposable => Silent /\ Written = {}
  /\ watcher.verdict = "success" /\ CardRow.status # "deleted" => Posted(Run, "output")
  /\ watcher.verdict = "blocked" /\ CardRow.status # "deleted" => Posted(Run, "comment")
  /\ watcher.verdict \in Verdicts \ {"success", "blocked"} =>
       Excused \/ (~Running /\ (history.delivered => history.inTime))
  /\ watcher.verdict \in Verdicts \ {"success"} => Excused \/ (history.inTime => Settled)

DeliveredIsPosted ==
  (history.delivered \/ history.inTime) /\ CardRow.status # "deleted" => Posted(Run, "output")

\* The limit is passed by the last read only, and no read follows the verdict.
StillReading ==
  watcher.pc \in {"inspect", "readTask", "gotTask", "readEntries", "gotEntries", "wait"}
    => watcher.attempts <= PostExitReadAttempts /\ watcher.verdict = "undecided"

\* The inductive invariant.
IInv ==
  /\ TypeOK /\ ServerSound /\ ProcessSound /\ ClearedMeansGone
  /\ AnswersMean /\ VerdictMeans /\ DeliveredIsPosted /\ StillReading

-----------------------------------------------------------------------------
(* The server's steps, seen from the one card.                              *)

\* What of a row the supervision depends on.
RowIs(status, run, reason) ==
  CardRow.status = status /\ CardRow.run = run /\ CardRow.reason = reason

\* A claim is won.
Takes(run) ==
  /\ CardRow.status = "queued"
  /\ RowIs("working", run, "")'
  /\ UNCHANGED <<entries, pending>>

\* A person writes the row: not to review.
Rewrites ==
  /\ CardRow.status \in Server!Statuses
  /\ \E s \in {"queued", "working", "done"}, run \in {Run, Rival, "none"} :
       /\ RowIs(s, run, "")'
       /\ run \in {"none", CardRow.run}
       /\ s = "queued" => run = "none"
  /\ UNCHANGED <<entries, pending>>

Deletes ==
  /\ RowIs("deleted", "none", "")'
  /\ Conv' = <<>>
  /\ UNCHANGED pending

Opens(c) ==
  /\ \E kind \in Kinds : pending' = [pending EXCEPT ![c] = RequestOf(c, kind)]
  /\ UNCHANGED <<tasks, entries>>

Drops(c) ==
  /\ pending' = [pending EXCEPT ![c] = NoRequest]
  /\ UNCHANGED <<tasks, entries>>

Stores(c, kind) ==
  /\ pending[c] # NoRequest
  /\ pending' = [pending EXCEPT ![c] = NoRequest]
  /\ CardRow.run = c /\ CardRow.status = "working"
  /\ ~Posted(c, kind)
  /\ Conv' = Append(Conv, EntryOf(c, kind))
  /\ kind = "output" => RowIs("needs_review", c, "output")'
  /\ kind = "comment" => CardRow' = CardRow

LEMMA Strings ==
  /\ Run # Rival /\ Run # "none" /\ Rival # "none"
  /\ Agent # "nobody" /\ Agent # "human"
BY DEF Run, Rival, Agent

LEMMA EntryOfIsEntry ==
  ASSUME NEW run \in {Run, Rival}, NEW kind \in Kinds
  PROVE  /\ EntryOf(run, kind) \in Server!Entry
         /\ EntryOf(run, kind).run = run /\ EntryOf(run, kind).kind = kind
         /\ EntryOf(run, kind).author = Agent /\ EntryOf(run, kind).key = <<run, kind>>
BY DEF EntryOf, Server!Entry, Server!Authors, Kinds

LEMMA RowFields ==
  ASSUME Server!TypeOK
  PROVE  /\ CardRow \in Server!Row
         /\ CardRow.run \in {Run, Rival, "none"}
         /\ CardRow.status \in Server!Statuses \cup {"unborn", "deleted"}
         /\ CardRow.reason \in {"", "output"}
BY DEF Server!TypeOK, Server!Row, CardRow

LEMMA SetRowEffect ==
  ASSUME Server!TypeOK, NEW row \in Server!Row, Server!SetRow(Card, row)
  PROVE  Server!TypeOK' /\ CardRow' = row /\ UNCHANGED <<entries, pending>>
BY DEF Server!TypeOK, Server!SetRow, CardRow

LEMMA ClaimEffect ==
  ASSUME Server!TypeOK, NEW run \in {Run, Rival}, Server!ClaimTask(Card, Agent, run)
  PROVE  Server!TypeOK' /\ Takes(run)
<1>1. PICK row : row = Server!ClaimedRow(CardRow, run)
  OBVIOUS
<1>2. row \in Server!Row /\ row.status = "working" /\ row.run = run /\ row.reason = ""
  BY <1>1, RowFields DEF Server!ClaimedRow, Server!Row, Server!Statuses
<1>3. Server!SetRow(Card, row) /\ CardRow.status = "queued"
  BY <1>1 DEF Server!ClaimTask, Server!MayClaim, CardRow
<1> QED BY <1>2, <1>3, SetRowEffect DEF Takes, RowIs

LEMMA UpdateEffect ==
  ASSUME Server!TypeOK, NEW s \in {"queued", "done"}, Server!HumanUpdate(Card, s, "unset", "keep")
  PROVE  Server!TypeOK' /\ Rewrites
<1>0. tasks[Card] = CardRow
  BY DEF CardRow
<1>1. Server!AppliedStatus(CardRow, s, "unset") = s
  BY DEF Server!AppliedStatus
<1>2. Server!ReconciledStatus(CardRow.assignee, CardRow.assignee, s) = s
  BY DEF Server!ReconciledStatus
<1>3. PICK row : row = Server!UpdatedRow(CardRow, s, CardRow.assignee)
  OBVIOUS
<1>4. Server!SetRow(Card, row) /\ CardRow.status \in Server!Statuses
  BY <1>0, <1>1, <1>2, <1>3 DEF Server!HumanUpdate, Server!UpdateTask, Server!Exists
<1>5. /\ row \in Server!Row /\ row.run \in {Run, Rival, "none"}
      /\ row.status = s /\ row.reason = "" /\ row.run \in {"none", CardRow.run}
      /\ s = "queued" => row.run = "none"
  BY <1>3, RowFields DEF Server!UpdatedRow, Server!Row, Server!Statuses
<1> QED BY <1>4, <1>5, SetRowEffect DEF Rewrites, RowIs

LEMMA MoveEffect ==
  ASSUME Server!TypeOK, Server!MoveTask(Card, "working")
  PROVE  Server!TypeOK' /\ Rewrites
<1>1. PICK row : row = Server!MovedRow(CardRow, "working")
  OBVIOUS
<1>2. Server!SetRow(Card, row) /\ CardRow.status \in Server!Statuses
  BY <1>1 DEF Server!MoveTask, Server!Exists, CardRow
<1>3. /\ row \in Server!Row /\ row.run \in {Run, Rival, "none"}
      /\ row.status = "working" /\ row.reason = "" /\ row.run = CardRow.run
  BY <1>1, RowFields DEF Server!MovedRow, Server!Row, Server!Statuses
<1> QED BY <1>2, <1>3, SetRowEffect DEF Rewrites, RowIs

LEMMA DeleteEffect ==
  ASSUME Server!TypeOK, Server!DeleteTasks({Card})
  PROVE  Server!TypeOK' /\ Deletes
<1>1. Server!NoRow("deleted") \in Server!Row
  BY DEF Server!NoRow, Server!Row
<1>2. <<>> \in Seq(Server!Entry)
  OBVIOUS
<1>3. /\ tasks' = [t \in {Card} |-> Server!NoRow("deleted")]
      /\ entries' = [t \in {Card} |-> <<>>]
      /\ UNCHANGED <<agents, pending>>
  BY DEF Server!DeleteTasks
<1>4. Server!TypeOK'
  BY <1>1, <1>2, <1>3 DEF Server!TypeOK
<1> QED BY <1>3, <1>4 DEF Deletes, RowIs, CardRow, Conv, Server!NoRow

LEMMA BeginEffect ==
  ASSUME Server!TypeOK, NEW c \in {Run, Rival}, NEW kind \in Kinds,
         Server!BeginEntry(c, Card, EntryOf(c, kind))
  PROVE  Server!TypeOK' /\ Opens(c)
<1>1. RequestOf(c, kind) \in Server!Request
  BY EntryOfIsEntry DEF RequestOf, Server!Request
<1>2. pending' = [pending EXCEPT ![c] = RequestOf(c, kind)] /\ UNCHANGED <<tasks, entries, agents>>
  BY DEF Server!BeginEntry, RequestOf
<1>3. Server!TypeOK'
  BY <1>1, <1>2 DEF Server!TypeOK
<1> QED BY <1>2, <1>3 DEF Opens

LEMMA FinishEffect ==
  ASSUME Server!TypeOK, ServerSound, NEW c \in {Run, Rival}, Server!FinishEntry(c)
  PROVE  Server!TypeOK' /\ (Drops(c) \/ \E kind \in Kinds : Stores(c, kind))
<1>1. PICK kind \in Kinds : pending[c] = RequestOf(c, kind)
  BY DEF ServerSound, RequestsSound, Server!FinishEntry
<1>2. PICK e : e = EntryOf(c, kind)
  OBVIOUS
<1>3. pending[c].task = Card /\ pending[c].entry = e
  BY <1>1, <1>2 DEF RequestOf
<1>4. /\ pending[c] # NoRequest /\ pending' = [pending EXCEPT ![c] = NoRequest]
      /\ UNCHANGED agents
      /\ \/ /\ Server!EntryAccepted(Card, e)
            /\ entries' = [entries EXCEPT ![Card] = Append(@, e)]
            /\ tasks' = [tasks EXCEPT ![Card] = Server!ReportedRow(@, e)]
         \/ UNCHANGED <<tasks, entries>>
  BY <1>3 DEF Server!FinishEntry
<1>5. e \in Server!Entry /\ e.run = c /\ e.kind = kind /\ e.author = Agent /\ e.key = <<c, kind>>
  BY <1>2, EntryOfIsEntry
<1>6. NoRequest \in Server!Request
  BY DEF Server!Request
<1>7. CASE UNCHANGED <<tasks, entries>>
  <2>1. Server!TypeOK'
    BY <1>4, <1>6, <1>7 DEF Server!TypeOK
  <2> QED BY <1>4, <1>7, <2>1 DEF Drops
<1>8. CASE /\ Server!EntryAccepted(Card, e)
           /\ entries' = [entries EXCEPT ![Card] = Append(@, e)]
           /\ tasks' = [tasks EXCEPT ![Card] = Server!ReportedRow(@, e)]
  <2>1. tasks \in [{Card} -> Server!Row] /\ entries \in [{Card} -> Seq(Server!Entry)]
    BY DEF Server!TypeOK
  <2>2. CardRow' = Server!ReportedRow(CardRow, e) /\ Conv' = Append(Conv, e)
    BY <1>8, <2>1 DEF CardRow, Conv
  <2>3. /\ kind = "output" => /\ Server!ReportedRow(CardRow, e).status = "needs_review"
                              /\ Server!ReportedRow(CardRow, e).run = CardRow.run
                              /\ Server!ReportedRow(CardRow, e).reason = "output"
        /\ kind # "output" => Server!ReportedRow(CardRow, e) = CardRow
    BY <1>5, RowFields DEF Server!ReportedRow, Server!Row
  <2>4. Server!ReportedRow(CardRow, e) \in Server!Row
    BY <1>5, RowFields DEF Server!ReportedRow, Server!Row, Server!Statuses
  <2>5. CardRow.run = c
    BY <1>5, <1>8, Strings DEF Server!EntryAccepted, Server!MayWrite, CardRow
  <2>6. CardRow.status = "working"
    BY <1>5, <1>8, <2>5, Strings DEF Server!EntryAccepted, Server!MayWrite, CardRow
  <2>7. e.key # <<>>
    BY <1>5
  <2>8. ~Posted(c, kind)
    BY <1>2, <1>8, <2>7 DEF Server!EntryAccepted, Server!SameKey, Server!EntriesOf, Posted, Conv
  <2>9. Server!TypeOK'
    <3>1. tasks' \in [{Card} -> Server!Row]
      BY <1>8, <2>1, <2>4 DEF CardRow
    <3>2. Append(entries[Card], e) \in Seq(Server!Entry)
      BY <1>5, <2>1
    <3>3. entries' \in [{Card} -> Seq(Server!Entry)]
      BY <1>8, <2>1, <3>2
    <3>4. pending' \in [{Run, Rival} -> Server!Request]
      BY <1>4, <1>6 DEF Server!TypeOK
    <3> QED BY <1>4, <3>1, <3>3, <3>4 DEF Server!TypeOK
  <2>10. Stores(c, kind)
    BY <1>2, <1>4, <2>2, <2>3, <2>5, <2>6, <2>8 DEF Stores, RowIs
  <2> QED BY <2>9, <2>10
<1> QED BY <1>4, <1>7, <1>8

-----------------------------------------------------------------------------
(* What the server's steps keep.                                            *)

LEMMA AppendFacts ==
  ASSUME NEW S, NEW s \in Seq(S), NEW e \in S
  PROVE  /\ \A i \in DOMAIN s : i \in DOMAIN Append(s, e) /\ Append(s, e)[i] = s[i]
         /\ \A i \in DOMAIN Append(s, e) : i \in DOMAIN s \/ i = Len(s) + 1
         /\ Len(s) + 1 \in DOMAIN Append(s, e) /\ Append(s, e)[Len(s) + 1] = e
OBVIOUS

LEMMA WrittenNothing == Written = {} <=> \A i \in DOMAIN Conv : Conv[i].run # Run
BY DEF Written, Server!EntriesOf, Conv

LEMMA WrittenNothingNext == (Written = {})' <=> \A i \in DOMAIN Conv' : Conv'[i].run # Run
BY DEF Written, Server!EntriesOf, Conv

\* A step of the server, with what the executor has to do with it.
ServerStep ==
  /\ claim = "won" => claim' = "won"
  /\ ~Running => ~Running'
  /\ \/ UNCHANGED <<tasks, entries, pending>>
     \/ Takes(Run) /\ claim # "won" /\ claim' = "won"
     \/ Takes(Rival)
     \/ Rewrites
     \/ Deletes
     \/ Opens(Run) /\ Running /\ claim = "won"
     \/ Opens(Rival)
     \/ \E c \in {Run, Rival} : Drops(c) \/ \E kind \in Kinds : Stores(c, kind)

\* A deleted card stays deleted, entries stay with their card, and Silent and
\* Settled are for ever.
Lasting ==
  /\ CardRow.status = "deleted" => CardRow'.status = "deleted"
  /\ \A kind \in Kinds : Posted(Run, kind) /\ CardRow'.status # "deleted" => Posted(Run, kind)'
  /\ Silent => Silent'
  /\ Silent /\ Written = {} => (Written = {})'
  /\ Settled => Settled'

LEMMA IdleKeeps ==
  ASSUME ServerSound, UNCHANGED <<tasks, entries, pending>>, claim = "won" => claim' = "won",
         ~Running => ~Running'
  PROVE  ServerSound' /\ Lasting
<1>1. UNCHANGED <<CardRow, Conv>>
  BY DEF CardRow, Conv
<1>2. ServerSound'
  BY <1>1 DEF ServerSound, RowSound, ConvSound, RequestsSound, ClaimedFirst
<1>3. Lasting
  BY <1>1, WrittenNothing, WrittenNothingNext DEF Lasting, Silent, Settled, Posted
<1> QED BY <1>2, <1>3

\* Steps that write the row only.
LEMMA RowKeeps ==
  ASSUME Server!TypeOK, ServerSound, UNCHANGED <<entries, pending>>,
         claim = "won" => claim' = "won", ~Running => ~Running',
         NEW s \in {"queued", "working", "done"}, NEW run \in {Run, Rival, "none"},
         RowIs(s, run, "")',
         CardRow.status \in Server!Statuses,
         s = "queued" => run = "none",
         run = Run => CardRow.run = Run \/ (claim # "won" /\ claim' = "won")
  PROVE  ServerSound' /\ Lasting
<1>1. UNCHANGED Conv
  BY DEF Conv
<1>2. CardRow'.status = s /\ CardRow'.run = run /\ CardRow'.reason = ""
  BY DEF RowIs
<1>3. RowSound'
  BY <1>2 DEF RowSound
<1>4. ConvSound' /\ RequestsSound'
  BY <1>1 DEF ServerSound, ConvSound, RequestsSound
<1>5. ClaimedFirst'
  BY <1>1, <1>2 DEF ServerSound, ClaimedFirst
<1>6. Lasting
  <2>1. CardRow.status # "deleted"
    BY DEF Server!Statuses
  <2>2. Silent => Silent'
    BY <1>2 DEF Silent, ServerSound, ClaimedFirst
  <2>3. Settled => Settled'
    BY <1>1, <1>2, <2>1 DEF Settled, Posted
  <2> QED BY <1>1, <2>1, <2>2, <2>3, WrittenNothing, WrittenNothingNext DEF Lasting, Posted
<1> QED BY <1>3, <1>4, <1>5, <1>6 DEF ServerSound

LEMMA DeleteKeeps ==
  ASSUME ServerSound, Deletes, claim = "won" => claim' = "won", ~Running => ~Running'
  PROVE  ServerSound' /\ Lasting
<1>1. CardRow'.status = "deleted" /\ CardRow'.run = "none" /\ CardRow'.reason = ""
      /\ Conv' = <<>> /\ pending' = pending
  BY DEF Deletes, RowIs
<1>0. DOMAIN Conv' = {}
  <2>1. DOMAIN <<>> = {}
    OBVIOUS
  <2> QED BY <1>1, <2>1
<1>2. RowSound'
  BY <1>1 DEF RowSound
<1>3. ConvSound' /\ RequestsSound'
  BY <1>0, <1>1 DEF ServerSound, ConvSound, RequestsSound
<1>4. ClaimedFirst'
  BY <1>0, <1>1, Strings DEF ServerSound, ClaimedFirst
<1>5. Silent => Silent'
  BY <1>1, Strings DEF Silent
<1>6. Settled'
  BY <1>1 DEF Settled
<1>7. (Written = {})'
  BY <1>0, WrittenNothingNext
<1> QED BY <1>1, <1>2, <1>3, <1>4, <1>5, <1>6, <1>7 DEF ServerSound, Lasting

\* Steps that open or end a request without storing anything.
LEMMA RequestKeeps ==
  ASSUME Server!TypeOK, ServerSound, UNCHANGED <<tasks, entries>>,
         claim = "won" => claim' = "won", ~Running => ~Running',
         NEW c \in {Run, Rival},
         \/ Drops(c)
         \/ Opens(c) /\ (c = Run => Running /\ claim = "won")
  PROVE  ServerSound' /\ Lasting
<1>1. UNCHANGED <<CardRow, Conv>>
  BY DEF CardRow, Conv
<1>2. PICK r : pending' = [pending EXCEPT ![c] = r]
               /\ (r = NoRequest \/ (/\ \E kind \in Kinds : r = RequestOf(c, kind)
                                     /\ c = Run => Running /\ claim = "won"))
  BY DEF Drops, Opens
<1>3. pending'[c] = r /\ \A d \in {Run, Rival} : d # c => pending'[d] = pending[d]
  BY <1>2 DEF Server!TypeOK
<1>4. RowSound' /\ ConvSound'
  BY <1>1 DEF ServerSound, RowSound, ConvSound
<1>5. RequestsSound'
  BY <1>2, <1>3 DEF ServerSound, RequestsSound
<1>6. ClaimedFirst'
  BY <1>1, <1>2, <1>3 DEF ServerSound, ClaimedFirst
<1>7. Silent => Silent'
  BY <1>1, <1>2, <1>3 DEF Silent
<1>8. Settled => Settled'
  BY <1>1 DEF Settled, Posted
<1> QED BY <1>1, <1>4, <1>5, <1>6, <1>7, <1>8, WrittenNothing, WrittenNothingNext
        DEF ServerSound, Lasting, Posted

LEMMA StoreKeeps ==
  ASSUME Server!TypeOK, ServerSound, claim = "won" => claim' = "won", ~Running => ~Running',
         NEW c \in {Run, Rival}, NEW kind \in Kinds, Stores(c, kind)
  PROVE  ServerSound' /\ Lasting
<1>0. PICK n : n = Len(Conv) + 1
  OBVIOUS
<1>1. Conv \in Seq(Server!Entry) /\ EntryOf(c, kind) \in Server!Entry
  BY EntryOfIsEntry DEF Server!TypeOK, Conv
<1>2. /\ \A i \in DOMAIN Conv : i \in DOMAIN Conv' /\ Conv'[i] = Conv[i]
      /\ \A i \in DOMAIN Conv' : i \in DOMAIN Conv \/ i = n
      /\ Conv'[n] = EntryOf(c, kind)
  BY <1>0, <1>1, AppendFacts DEF Stores
<1>3. pending'[c] = NoRequest /\ \A d \in {Run, Rival} : d # c => pending'[d] = pending[d]
  BY DEF Server!TypeOK, Stores
<1>4. /\ CardRow'.status \in {"working", "needs_review"} /\ CardRow'.run = c /\ CardRow.run = c
      /\ CardRow'.reason = "output" => kind = "output" /\ CardRow'.status = "needs_review"
  BY DEF Stores, RowIs, Kinds, ServerSound, RowSound
<1>5. RowSound'
  BY <1>4 DEF RowSound
<1>6. ConvSound'
  <2>1. ASSUME NEW i \in DOMAIN Conv'
        PROVE  \E run \in {Run, Rival}, k \in Kinds : Conv'[i] = EntryOf(run, k)
    BY <1>2 DEF ServerSound, ConvSound
  <2>2. ASSUME NEW i \in DOMAIN Conv', NEW j \in DOMAIN Conv', Conv'[i] = Conv'[j]
        PROVE  i = j
    <3>1. \A k \in DOMAIN Conv : Conv[k] # EntryOf(c, kind)
      BY DEF Stores, Posted
    <3> QED BY <1>2, <2>2, <3>1 DEF ServerSound, ConvSound
  <2> QED BY <2>1, <2>2 DEF ConvSound
<1>7. RequestsSound'
  BY <1>3 DEF ServerSound, RequestsSound
<1>8. c = Run => claim = "won"
  BY <1>4 DEF ServerSound, ClaimedFirst
<1>9. ClaimedFirst'
  <2>1. EntryOf(c, kind).run = c
    BY EntryOfIsEntry
  <2>2. (\E i \in DOMAIN Conv' : Conv'[i].run = Run) => c = Run \/ \E i \in DOMAIN Conv : Conv[i].run = Run
    BY <1>2, <2>1
  <2> QED BY <1>3, <1>4, <1>8, <2>2 DEF ServerSound, ClaimedFirst
<1>10. Lasting
  <2>1. CardRow.status # "deleted"
    BY DEF Stores
  <2>2. ASSUME NEW k, Posted(Run, k) PROVE Posted(Run, k)'
    BY <1>2, <2>2 DEF Posted
  <2>3. Silent => c # Run
    BY <1>4 DEF Silent, Stores
  <2>4. Silent => Silent'
    BY <1>3, <1>4, <2>3, Strings DEF Silent
  <2>5. Silent /\ Written = {} => (Written = {})'
    <3>1. EntryOf(c, kind).run = c
      BY EntryOfIsEntry
    <3> QED BY <1>2, <2>3, <3>1, WrittenNothing, WrittenNothingNext
  <2>6. Settled => Settled'
    <3> SUFFICES ASSUME Settled PROVE Settled'
      OBVIOUS
    <3>1. Posted(Run, "output") /\ Posted(Run, "output")'
      BY <2>1, <2>2 DEF Settled
    <3>2. ~(c = Run /\ kind = "output")
      BY <3>1 DEF Stores
    <3> QED BY <1>4, <3>1, <3>2 DEF Settled
  <2> QED BY <2>1, <2>2, <2>4, <2>5, <2>6 DEF Lasting
<1> QED BY <1>5, <1>6, <1>7, <1>9, <1>10 DEF ServerSound

LEMMA ServerKeeps ==
  ASSUME Server!TypeOK, ServerSound, ServerStep
  PROVE  ServerSound' /\ Lasting
<1>1. (claim = "won" => claim' = "won") /\ (~Running => ~Running')
  BY DEF ServerStep
<1>2. CASE UNCHANGED <<tasks, entries, pending>>
  BY <1>1, <1>2, IdleKeeps
<1>3. ASSUME NEW run \in {Run, Rival}, Takes(run), run = Run => claim # "won" /\ claim' = "won"
      PROVE  ServerSound' /\ Lasting
  BY <1>1, <1>3, RowKeeps DEF Takes, Server!Statuses
<1>4. CASE Rewrites
  <2>1. PICK s \in {"queued", "working", "done"}, run \in {Run, Rival, "none"} :
          /\ RowIs(s, run, "")'
          /\ run \in {"none", CardRow.run}
          /\ s = "queued" => run = "none"
    BY <1>4 DEF Rewrites
  <2>2. UNCHANGED <<entries, pending>> /\ CardRow.status \in Server!Statuses
    BY <1>4 DEF Rewrites
  <2>3. run = Run => CardRow.run = Run
    BY <2>1, Strings
  <2> QED BY <1>1, <2>1, <2>2, <2>3, RowKeeps
<1>5. CASE Deletes
  BY <1>1, <1>5, DeleteKeeps
<1>6. ASSUME NEW c \in {Run, Rival},
             Drops(c) \/ (Opens(c) /\ (c = Run => Running /\ claim = "won"))
      PROVE  ServerSound' /\ Lasting
  <2>1. UNCHANGED <<tasks, entries>>
    BY <1>6 DEF Drops, Opens
  <2> QED BY <1>1, <1>6, <2>1, RequestKeeps
<1>7. ASSUME NEW c \in {Run, Rival}, NEW kind \in Kinds, Stores(c, kind)
      PROVE  ServerSound' /\ Lasting
  BY <1>1, <1>7, StoreKeeps
<1> QED BY <1>2, <1>3, <1>4, <1>5, <1>6, <1>7, Strings DEF ServerStep

-----------------------------------------------------------------------------
(* Every step but the watcher's.                                            *)

OtherStep ==
  \/ ExecutorStep \/ AnswerClaim \/ AnswerEntry
  \/ Reap \/ Recycle
  \/ PersonStep \/ RivalStep \/ Interrupt

ProcessStep ==
  /\ process' \in Process
  /\ process'.finished => process'.leader = "reaped"
  /\ process'.finished /\ ~process'.remnant => ~process'.descendants
  /\ process.finished => process'.finished
  /\ process.leader # "running" => process'.leader # "running"
  /\ process.leader # "running" /\ ~process.descendants => ~process'.descendants

HistoryStep ==
  /\ history' \in History
  /\ history.delivered => history'.delivered
  /\ history'.delivered => history.delivered \/ (Running /\ OutputOf(Run)' # {})
  /\ history'.inTime = history.inTime

EnvironmentStep ==
  /\ Server!TypeOK' /\ ServerStep
  /\ ProcessStep /\ HistoryStep
  /\ claim' \in {"none", "sent", "won", "lost"}
  /\ cancelled' \in BOOLEAN /\ (cancelled => cancelled')
  /\ watcher' = watcher

LEMMA ProcessIdle ==
  ASSUME TypeOK, ProcessSound, process' = process
  PROVE  ProcessStep
BY DEF TypeOK, ProcessSound, ProcessStep

LEMMA HistoryIdle ==
  ASSUME TypeOK, history' = history
  PROVE  HistoryStep
BY DEF TypeOK, HistoryStep

LEMMA ServerIdle ==
  ASSUME TypeOK, UNCHANGED server
  PROVE  Server!TypeOK'
<1>1. UNCHANGED <<tasks, entries, agents, pending>>
  BY DEF server
<1> QED BY <1>1 DEF TypeOK, Server!TypeOK

LEMMA ProcessMoves ==
  ASSUME TypeOK, ProcessSound, Spawn \/ LeaderExits \/ DescendantsExit \/ Reap \/ Recycle
  PROVE  ProcessStep
<1>1. process \in Process
  BY DEF TypeOK
<1>2. CASE Spawn
  BY <1>1, <1>2 DEF Spawn, ProcessSound, ProcessStep, Process, Running
<1>3. CASE LeaderExits
  BY <1>1, <1>3 DEF LeaderExits, ProcessSound, ProcessStep, Process, Running
<1>4. CASE DescendantsExit
  BY <1>1, <1>4 DEF DescendantsExit, ProcessSound, ProcessStep, Process
<1>5. CASE Reap
  BY <1>1, <1>5 DEF Reap, ProcessSound, ProcessStep, Process
<1>6. CASE Recycle
  BY <1>1, <1>6 DEF Recycle, ProcessSound, ProcessStep, Process
<1> QED BY <1>2, <1>3, <1>4, <1>5, <1>6

\* Steps that leave the server's tables alone.
LEMMA EnvironmentQuiet ==
  ASSUME TypeOK, UNCHANGED <<server, watcher>>, ProcessStep, HistoryStep,
         claim' \in {"none", "sent", "won", "lost"}, claim = "won" => claim' = "won",
         cancelled' \in BOOLEAN, cancelled => cancelled'
  PROVE  EnvironmentStep
<1>1. Server!TypeOK'
  BY ServerIdle
<1>2. UNCHANGED <<tasks, entries, pending>>
  BY DEF server
<1>3. ServerStep
  BY <1>2 DEF ServerStep, ProcessStep, Running
<1> QED BY <1>1, <1>3 DEF EnvironmentStep

\* Steps that change the server's tables: the rest stays, but for the claim or
\* the history.
LEMMA EnvironmentWrites ==
  ASSUME TypeOK, ProcessSound, UNCHANGED <<process, cancelled, watcher>>, HistoryStep,
         Server!TypeOK',
         claim' \in {"none", "sent", "won", "lost"}, claim = "won" => claim' = "won",
         \/ Takes(Run) /\ claim # "won" /\ claim' = "won"
         \/ Takes(Rival)
         \/ Rewrites
         \/ Deletes
         \/ Opens(Run) /\ Running /\ claim = "won"
         \/ Opens(Rival)
         \/ \E c \in {Run, Rival} : Drops(c) \/ \E kind \in Kinds : Stores(c, kind)
  PROVE  EnvironmentStep
<1>1. ProcessStep
  BY ProcessIdle
<1>2. Running' <=> Running
  BY DEF Running
<1>3. ServerStep
  BY <1>2 DEF ServerStep
<1>4. cancelled' \in BOOLEAN /\ (cancelled => cancelled')
  BY DEF TypeOK
<1> QED BY <1>1, <1>3, <1>4 DEF EnvironmentStep

LEMMA OtherSteps ==
  ASSUME IInv, OtherStep
  PROVE  EnvironmentStep
<1>1. TypeOK /\ Server!TypeOK /\ ServerSound /\ ProcessSound
  BY DEF IInv, TypeOK
<1>2. claim \in {"none", "sent", "won", "lost"} /\ cancelled \in BOOLEAN
  BY <1>1 DEF TypeOK
<1>3. CASE SendClaim
  <2>1. UNCHANGED <<server, watcher>> /\ process' = process /\ history' = history
        /\ claim' = "sent" /\ claim = "none" /\ cancelled' = cancelled
    BY <1>3 DEF SendClaim
  <2> QED BY <1>1, <1>2, <2>1, ProcessIdle, HistoryIdle, EnvironmentQuiet
<1>4. ASSUME NEW kind \in Kinds, SendEntry(kind) PROVE EnvironmentStep
  <2>1. UNCHANGED <<process, cancelled, watcher>> /\ history' = history /\ claim' = claim
        /\ Running /\ claim = "won" /\ Server!BeginEntry(Run, Card, EntryOf(Run, kind))
    BY <1>4 DEF SendEntry
  <2>2. Server!TypeOK' /\ Opens(Run)
    BY <1>1, <2>1, BeginEffect
  <2> QED BY <1>1, <1>2, <2>1, <2>2, HistoryIdle, EnvironmentWrites
<1>5. CASE Spawn \/ LeaderExits \/ DescendantsExit \/ Reap \/ Recycle
  <2>1. UNCHANGED <<server, watcher>> /\ history' = history /\ claim' = claim
        /\ cancelled' = cancelled
    BY <1>5 DEF Spawn, LeaderExits, DescendantsExit, Reap, Recycle
  <2>2. ProcessStep
    BY <1>1, <1>5, ProcessMoves
  <2> QED BY <1>1, <1>2, <2>1, <2>2, HistoryIdle, EnvironmentQuiet
<1>6. CASE AnswerClaim
  <2>1. UNCHANGED <<process, cancelled, watcher>> /\ process' = process /\ history' = history
        /\ claim = "sent" /\ cancelled' = cancelled
    BY <1>6 DEF AnswerClaim
  <2>2. CASE Server!ClaimTask(Card, Agent, Run) /\ claim' = "won"
    <3>1. Server!TypeOK' /\ Takes(Run)
      BY <1>1, <2>2, ClaimEffect
    <3> QED BY <1>1, <2>1, <2>2, <3>1, HistoryIdle, EnvironmentWrites
  <2>3. CASE claim' = "lost" /\ UNCHANGED server
    BY <1>1, <1>2, <2>1, <2>3, ProcessIdle, HistoryIdle, EnvironmentQuiet
  <2> QED BY <1>6, <2>2, <2>3 DEF AnswerClaim
<1>7. CASE AnswerEntry
  <2>1. UNCHANGED <<process, cancelled, watcher>> /\ claim' = claim
    BY <1>7 DEF AnswerEntry
  <2>2. Server!TypeOK' /\ (Drops(Run) \/ \E kind \in Kinds : Stores(Run, kind))
    BY <1>1, <1>7, FinishEffect DEF AnswerEntry
  <2>3. HistoryStep
    <3>1. history \in [delivered : BOOLEAN, inTime : BOOLEAN]
      BY <1>1 DEF TypeOK, History
    <3>2. (Running /\ OutputOf(Run)' # {}) \in BOOLEAN
      OBVIOUS
    <3>3. history' = [history EXCEPT !.delivered = history.delivered \/ (Running /\ OutputOf(Run)' # {})]
      BY <1>7 DEF AnswerEntry
    <3>4. history' \in [delivered : BOOLEAN, inTime : BOOLEAN]
          /\ history'.delivered = (history.delivered \/ (Running /\ OutputOf(Run)' # {}))
          /\ history'.inTime = history.inTime
      BY <3>1, <3>2, <3>3
    <3> QED BY <3>1, <3>4 DEF HistoryStep, History
  <2> QED BY <1>1, <1>2, <2>1, <2>2, <2>3, EnvironmentWrites
<1>8. CASE PersonStep
  <2>1. UNCHANGED <<process, cancelled, watcher>> /\ history' = history /\ claim' = claim
    BY <1>8 DEF PersonStep
  <2>2. ASSUME NEW s \in {"queued", "done"}, Server!HumanUpdate(Card, s, "unset", "keep")
        PROVE  Server!TypeOK' /\ Rewrites
    BY <1>1, <2>2, UpdateEffect
  <2>3. Server!MoveTask(Card, "working") => Server!TypeOK' /\ Rewrites
    BY <1>1, MoveEffect
  <2>4. Server!DeleteTasks({Card}) => Server!TypeOK' /\ Deletes
    BY <1>1, DeleteEffect
  <2>5. Server!TypeOK' /\ (Rewrites \/ Deletes)
    BY <1>8, <2>2, <2>3, <2>4 DEF PersonStep
  <2> QED BY <1>1, <1>2, <2>1, <2>5, HistoryIdle, EnvironmentWrites
<1>9. CASE RivalStep
  <2>1. UNCHANGED <<process, cancelled, watcher>> /\ history' = history /\ claim' = claim
    BY <1>9 DEF RivalStep
  <2>2. Server!ClaimTask(Card, Agent, Rival) => Server!TypeOK' /\ Takes(Rival)
    BY <1>1, ClaimEffect
  <2>3. Server!BeginEntry(Rival, Card, EntryOf(Rival, "output")) => Server!TypeOK' /\ Opens(Rival)
    BY <1>1, BeginEffect DEF Kinds
  <2>4. Server!FinishEntry(Rival)
          => Server!TypeOK' /\ (Drops(Rival) \/ \E kind \in Kinds : Stores(Rival, kind))
    BY <1>1, FinishEffect
  <2>5. /\ Server!TypeOK'
        /\ \/ Takes(Rival) \/ Opens(Rival)
           \/ \E c \in {Run, Rival} : Drops(c) \/ \E kind \in Kinds : Stores(c, kind)
    BY <1>9, <2>2, <2>3, <2>4 DEF RivalStep
  <2> QED BY <1>1, <1>2, <2>1, <2>5, HistoryIdle, EnvironmentWrites
<1>10. CASE Interrupt
  <2>1. UNCHANGED <<server, watcher>> /\ process' = process /\ history' = history
        /\ claim' = claim /\ cancelled' = TRUE
    BY <1>10 DEF Interrupt
  <2> QED BY <1>1, <1>2, <2>1, ProcessIdle, HistoryIdle, EnvironmentQuiet
<1> QED BY <1>3, <1>4, <1>5, <1>6, <1>7, <1>8, <1>9, <1>10 DEF OtherStep, ExecutorStep

\* What the watcher knows outlives what the others do.
LEMMA EnvironmentKeeps ==
  ASSUME IInv, EnvironmentStep
  PROVE  IInv'
<1>1. TypeOK /\ Server!TypeOK /\ ServerSound /\ ProcessSound
  BY DEF IInv, TypeOK
<1>2. ServerSound' /\ Lasting
  BY <1>1, ServerKeeps DEF EnvironmentStep
<1>3. TypeOK'
  BY <1>1 DEF TypeOK, EnvironmentStep, ProcessStep, HistoryStep
<1>4. watcher' = watcher
  BY DEF EnvironmentStep
<1>5. ProcessSound'
  BY <1>1, <1>4 DEF ProcessSound, EnvironmentStep, ProcessStep
<1>6. ClearedMeansGone'
  BY <1>4 DEF IInv, ClearedMeansGone, EnvironmentStep, ProcessStep
<1>7. ~Running => ~Running'
  BY DEF EnvironmentStep, ServerStep
<1>8. watcher.exited => ~Running
  BY <1>1 DEF ProcessSound, Running
<1>9. ~Running /\ history'.delivered => history.delivered
  BY DEF EnvironmentStep, HistoryStep
<1>16. history'.inTime = history.inTime
  BY DEF EnvironmentStep, HistoryStep
<1>10. \A kind \in Kinds : Posted(Run, kind) /\ CardRow'.status # "deleted" => Posted(Run, kind)'
  BY <1>2 DEF Lasting
<1>11. CardRow'.status # "deleted" => CardRow.status # "deleted"
  BY <1>2 DEF Lasting
<1>12. AnswersMean'
  <2>1. (Between /\ watcher.exited /\ watcher.seen.run # Run => Silent)'
    BY <1>2, <1>4 DEF IInv, AnswersMean, Between, Lasting
  <2>2. (watcher.pc = "gotEntries" /\ watcher.exited /\ watcher.seen.run # Run /\ watcher.has = {}
          => Written = {})'
    BY <1>2, <1>4 DEF IInv, AnswersMean, Between, Lasting
  <2>3. (watcher.pc = "gotEntries" /\ CardRow.status # "deleted"
          => \A kind \in watcher.has : Posted(Run, kind))'
    <3>1. \A kind \in watcher.has : kind \in Kinds
      BY <1>1 DEF TypeOK, Watcher
    <3> QED BY <1>4, <1>10, <1>11, <3>1 DEF IInv, AnswersMean
  <2>4. (Between /\ watcher.exited /\ history.delivered => history.inTime)'
    BY <1>4, <1>8, <1>9, <1>16 DEF IInv, AnswersMean, Between
  <2>5. (Between /\ history.inTime => watcher.seen.status = "needs_review" \/ Settled)'
    BY <1>2, <1>4, <1>16 DEF IInv, AnswersMean, Between, Lasting
  <2>6. (watcher.pc = "gotEntries" /\ history.inTime => "output" \in watcher.has \/ Settled)'
    BY <1>2, <1>4, <1>16 DEF IInv, AnswersMean, Lasting
  <2> QED BY <2>1, <2>2, <2>3, <2>4, <2>5, <2>6 DEF AnswersMean
<1>13. VerdictMeans'
  <2>1. (watcher.verdict \in Disposable => Silent /\ Written = {})'
    BY <1>2, <1>4 DEF IInv, VerdictMeans, Lasting, Disposable
  <2>2. (watcher.verdict = "success" /\ CardRow.status # "deleted" => Posted(Run, "output"))'
    BY <1>4, <1>10, <1>11 DEF IInv, VerdictMeans, Kinds
  <2>3. (watcher.verdict = "blocked" /\ CardRow.status # "deleted" => Posted(Run, "comment"))'
    BY <1>4, <1>10, <1>11 DEF IInv, VerdictMeans, Kinds
  <2>4. Excused => Excused'
    BY <1>4 DEF Excused, EnvironmentStep
  <2>5. (watcher.verdict \in Verdicts \ {"success", "blocked"} =>
          Excused \/ (~Running /\ (history.delivered => history.inTime)))'
    BY <1>4, <1>7, <1>9, <1>16, <2>4 DEF IInv, VerdictMeans, Verdicts
  <2>6. (watcher.verdict \in Verdicts \ {"success"} => Excused \/ (history.inTime => Settled))'
    BY <1>2, <1>4, <1>16, <2>4 DEF IInv, VerdictMeans, Lasting, Verdicts
  <2> QED BY <2>1, <2>2, <2>3, <2>5, <2>6 DEF VerdictMeans
<1>14. DeliveredIsPosted'
  <2> SUFFICES ASSUME history'.delivered \/ history'.inTime, CardRow'.status # "deleted"
               PROVE  Posted(Run, "output")'
    BY DEF DeliveredIsPosted
  <2>1. CASE history.delivered \/ history.inTime
    BY <1>10, <1>11, <2>1 DEF IInv, DeliveredIsPosted, Kinds
  <2>2. CASE OutputOf(Run)' # {}
    <3>1. PICK i \in DOMAIN Conv' : Conv'[i].run = Run /\ Conv'[i].kind = "output"
      BY <2>2 DEF OutputOf, Conv
    <3>2. PICK run \in {Run, Rival}, kind \in Kinds : Conv'[i] = EntryOf(run, kind)
      BY <1>2 DEF ServerSound, ConvSound
    <3>3. run = Run /\ kind = "output"
      BY <3>1, <3>2, EntryOfIsEntry
    <3> QED BY <3>2, <3>3 DEF Posted
  <2> QED BY <1>16, <2>1, <2>2 DEF EnvironmentStep, HistoryStep
<1>15. StillReading'
  BY <1>4 DEF IInv, StillReading
<1> QED BY <1>2, <1>3, <1>5, <1>6, <1>12, <1>13, <1>14, <1>15 DEF IInv

-----------------------------------------------------------------------------
(* The watcher's steps.                                                     *)

\* Its steps leave the server and the executor as they were.
LEMMA LookLeaves ==
  ASSUME TypeOK, UNCHANGED <<server, claim, process, cancelled>>
  PROVE  /\ UNCHANGED <<claim, process, cancelled, CardRow, Conv, pending>>
         /\ Server!TypeOK'
         /\ (Running' <=> Running) /\ (Silent' <=> Silent) /\ (Settled' <=> Settled)
         /\ ((Written = {})' <=> Written = {})
         /\ \A kind \in Kinds : Posted(Run, kind)' <=> Posted(Run, kind)
<1>1. UNCHANGED <<CardRow, Conv, pending>>
  BY DEF server, CardRow, Conv
<1>2. Server!TypeOK'
  BY ServerIdle
<1>3. Running' <=> Running
  BY DEF Running
<1>4. (Silent' <=> Silent) /\ (Settled' <=> Settled)
  BY <1>1, <1>3 DEF Silent, Settled, Posted
<1>5. (Written = {})' <=> Written = {}
  BY <1>1, WrittenNothing, WrittenNothingNext
<1>6. \A kind \in Kinds : Posted(Run, kind)' <=> Posted(Run, kind)
  BY <1>1 DEF Posted
<1> QED BY <1>1, <1>2, <1>3, <1>4, <1>5, <1>6

\* All but one leave the history too.
LEMMA WatchLeaves ==
  ASSUME TypeOK, NEW w, Watch(w)
  PROVE  /\ watcher' = w /\ UNCHANGED <<claim, process, cancelled, history, CardRow, Conv, pending>>
         /\ Server!TypeOK'
         /\ (Running' <=> Running) /\ (Silent' <=> Silent) /\ (Settled' <=> Settled)
         /\ ((Written = {})' <=> Written = {})
         /\ \A kind \in Kinds : Posted(Run, kind)' <=> Posted(Run, kind)
<1>1. watcher' = w /\ history' = history /\ UNCHANGED <<server, claim, process, cancelled>>
  BY DEF Watch
<1> QED BY <1>1, LookLeaves

\* What is left to show for a step of the watcher.
LEMMA LookKeeps ==
  ASSUME IInv, NEW w \in Watcher, watcher' = w, history' \in History,
         UNCHANGED <<server, claim, process, cancelled>>,
         w.exited => process.finished,
         w.pc = "done" /\ w.cleared => process.leader # "running" /\ ~process.descendants,
         AnswersMean', VerdictMeans', StillReading', DeliveredIsPosted'
  PROVE  IInv'
<1>1. TypeOK
  BY DEF IInv
<1>2. UNCHANGED <<claim, process, cancelled, CardRow, Conv, pending>> /\ Server!TypeOK'
  BY <1>1, LookLeaves
<1>3. TypeOK'
  BY <1>1, <1>2 DEF TypeOK
<1>4. ServerSound'
  BY <1>2 DEF IInv, ServerSound, RowSound, ConvSound, RequestsSound, ClaimedFirst
<1>5. ProcessSound'
  BY <1>2 DEF IInv, ProcessSound
<1>6. ClearedMeansGone'
  BY <1>2 DEF ClearedMeansGone
<1> QED BY <1>3, <1>4, <1>5, <1>6 DEF IInv

LEMMA WatchKeeps ==
  ASSUME IInv, NEW w \in Watcher, Watch(w),
         w.exited => process.finished,
         w.pc = "done" /\ w.cleared => process.leader # "running" /\ ~process.descendants,
         AnswersMean', VerdictMeans', StillReading'
  PROVE  IInv'
<1>1. /\ watcher' = w /\ history' = history /\ UNCHANGED <<server, claim, process, cancelled>>
      /\ UNCHANGED <<CardRow, Conv>> /\ history \in History
  BY WatchLeaves DEF Watch, IInv, TypeOK
<1>2. DeliveredIsPosted'
  BY <1>1 DEF IInv, DeliveredIsPosted, Posted
<1> QED BY <1>1, <1>2, LookKeeps

\* Outside the two reads no answer is kept.
LEMMA NoAnswers ==
  ASSUME watcher'.pc \notin {"gotTask", "readEntries", "gotEntries"}
  PROVE  AnswersMean'
BY DEF AnswersMean, Between

\* A step that gives no verdict and counts no attempt.
LEMMA SameVerdict ==
  ASSUME IInv, NEW w, Watch(w), w.verdict = watcher.verdict, w.err = watcher.err,
         w.attempts = watcher.attempts
  PROVE  VerdictMeans'
<1>1. TypeOK /\ VerdictMeans
  BY DEF IInv
<1>2. /\ watcher' = w /\ UNCHANGED <<claim, process, cancelled, history, CardRow, Conv, pending>>
      /\ (Running' <=> Running) /\ (Silent' <=> Silent) /\ (Settled' <=> Settled)
      /\ ((Written = {})' <=> Written = {})
      /\ \A kind \in Kinds : Posted(Run, kind)' <=> Posted(Run, kind)
  BY <1>1, WatchLeaves
<1>3. (Posted(Run, "output")' <=> Posted(Run, "output"))
      /\ (Posted(Run, "comment")' <=> Posted(Run, "comment"))
  BY <1>2 DEF Kinds
<1> QED BY <1>1, <1>2, <1>3 DEF VerdictMeans, Excused

\* A verdict that says nothing of the card, given for a reason the watcher names.
LEMMA ExcusedVerdict ==
  ASSUME watcher'.verdict \in {"undecided", "interrupted", "ambiguous"},
         watcher'.verdict = "undecided" \/ Excused'
  PROVE  VerdictMeans'
BY DEF VerdictMeans, Disposable, Verdicts

\* Steps that only move on, outside the reads: nothing about the answers, the
\* verdict or the attempts changes.
LEMMA MovesOn ==
  ASSUME IInv, NEW pc \in {"inspect", "stop", "term", "kill", "done"},
         NEW exited \in BOOLEAN, NEW cleared \in BOOLEAN,
         pc = "inspect" => watcher.pc = "wait",
         exited => process.finished,
         pc = "done" /\ cleared => process.leader # "running" /\ ~process.descendants,
         Watch([watcher EXCEPT !.pc = pc, !.exited = exited, !.cleared = cleared])
  PROVE  IInv'
<1>0. watcher \in Watcher
  BY DEF IInv, TypeOK
<1>1. PICK w : w = [watcher EXCEPT !.pc = pc, !.exited = exited, !.cleared = cleared]
  OBVIOUS
<1>2. w \in Watcher
  BY <1>0, <1>1 DEF Watcher
<1>3. /\ w.pc = pc /\ w.exited = exited /\ w.cleared = cleared
      /\ w.verdict = watcher.verdict /\ w.err = watcher.err /\ w.attempts = watcher.attempts
  BY <1>0, <1>1 DEF Watcher
<1>4. Watch(w) /\ watcher' = w
  BY <1>1 DEF Watch
<1>5. AnswersMean'
  BY <1>3, <1>4, NoAnswers
<1>6. VerdictMeans'
  BY <1>3, <1>4, SameVerdict
<1>7. StillReading'
  BY <1>3, <1>4 DEF IInv, StillReading
<1> QED BY <1>2, <1>3, <1>4, <1>5, <1>6, <1>7, WatchKeeps

LEMMA BooleanFields ==
  ASSUME IInv
  PROVE  /\ watcher.exited \in BOOLEAN /\ watcher.cleared \in BOOLEAN
         /\ process.finished \in BOOLEAN /\ process.remnant \in BOOLEAN
         /\ process.leader \in {"running", "zombie", "reaped"}
         /\ process.descendants \in BOOLEAN /\ process.recycled \in BOOLEAN
         /\ watcher.exited => process.finished
         /\ process.finished => process.leader = "reaped"
         /\ process.finished /\ ~process.remnant => ~process.descendants
BY DEF IInv, TypeOK, Watcher, Process, ProcessSound

LEMMA WaitsKeep ==
  ASSUME IInv, WaitExit \/ WaitTimer \/ Grace
  PROVE  IInv'
<1>0. watcher \in Watcher
  BY DEF IInv, TypeOK
<1>1. CASE WaitExit
  <2>1. [watcher EXCEPT !.exited = TRUE, !.pc = "inspect"]
          = [watcher EXCEPT !.pc = "inspect", !.exited = TRUE, !.cleared = watcher.cleared]
    BY <1>0 DEF Watcher
  <2>2. watcher.pc = "wait" /\ process.finished
        /\ Watch([watcher EXCEPT !.pc = "inspect", !.exited = TRUE, !.cleared = watcher.cleared])
    BY <1>1, <2>1 DEF WaitExit
  <2> QED BY <2>2, BooleanFields, MovesOn
<1>2. CASE WaitTimer
  <2>1. [watcher EXCEPT !.pc = "inspect"]
          = [watcher EXCEPT !.pc = "inspect", !.exited = watcher.exited, !.cleared = watcher.cleared]
    BY <1>0 DEF Watcher
  <2>2. watcher.pc = "wait" /\ Watch([watcher EXCEPT !.pc = "inspect", !.exited = watcher.exited,
                                                    !.cleared = watcher.cleared])
    BY <1>2, <2>1 DEF WaitTimer
  <2> QED BY <2>2, BooleanFields, MovesOn
<1>3. CASE Grace
  <2>1. [watcher EXCEPT !.exited = process.finished, !.pc = "stop"]
          = [watcher EXCEPT !.pc = "stop", !.exited = process.finished, !.cleared = watcher.cleared]
    BY <1>0 DEF Watcher
  <2>2. Watch([watcher EXCEPT !.pc = "stop", !.exited = process.finished, !.cleared = watcher.cleared])
    BY <1>3, <2>1 DEF Grace
  <2>3. PICK e : e = process.finished
    OBVIOUS
  <2>4. PICK c : c = watcher.cleared
    OBVIOUS
  <2>5. e \in BOOLEAN /\ c \in BOOLEAN /\ (e => process.finished)
    BY <2>3, <2>4, BooleanFields
  <2>6. PICK pc \in {"inspect", "stop", "term", "kill", "done"} : pc = "stop"
    OBVIOUS
  <2>7. Watch([watcher EXCEPT !.pc = pc, !.exited = e, !.cleared = c])
    BY <2>2, <2>3, <2>4, <2>6
  <2>8. pc # "inspect" /\ pc # "done"
    BY <2>6
  <2> QED BY <2>5, <2>7, <2>8, MovesOn
<1> QED BY <1>1, <1>2, <1>3

\* The group is said to be gone only when nothing of it is left.
LEMMA StopsKeep ==
  ASSUME IInv, StopGroup \/ GroupGone \/ TermTimeout \/ KillTimeout
  PROVE  IInv'
<1>0. watcher \in Watcher
  BY DEF IInv, TypeOK
<1>1. ASSUME NEW pc \in {"term", "kill"}, Signal(pc) PROVE IInv'
  <2>1. [watcher EXCEPT !.pc = pc]
          = [watcher EXCEPT !.pc = pc, !.exited = watcher.exited, !.cleared = watcher.cleared]
    BY <1>0 DEF Watcher
  <2>2. Watch([watcher EXCEPT !.pc = pc, !.exited = watcher.exited, !.cleared = watcher.cleared])
    BY <1>1, <2>1 DEF Signal
  <2> QED BY <2>2, BooleanFields, MovesOn
<1>2. ASSUME NEW cleared \in BOOLEAN, Done(cleared),
             cleared => process.leader # "running" /\ ~process.descendants
      PROVE  IInv'
  <2>1. [watcher EXCEPT !.pc = "done", !.cleared = cleared]
          = [watcher EXCEPT !.pc = "done", !.exited = watcher.exited, !.cleared = cleared]
    BY <1>0 DEF Watcher
  <2>2. Watch([watcher EXCEPT !.pc = "done", !.exited = watcher.exited, !.cleared = cleared])
    BY <1>2, <2>1 DEF Done
  <2>3. PICK e : e = watcher.exited
    OBVIOUS
  <2>4. e \in BOOLEAN /\ (e => process.finished)
    BY <2>3, BooleanFields
  <2>5. PICK pc \in {"inspect", "stop", "term", "kill", "done"} : pc = "done"
    OBVIOUS
  <2>6. Watch([watcher EXCEPT !.pc = pc, !.exited = e, !.cleared = cleared])
    BY <2>2, <2>3, <2>5
  <2>7. pc # "inspect"
    BY <2>5
  <2> QED BY <1>2, <2>4, <2>6, <2>7, MovesOn
<1>3. KnownGone \/ ~GroupAlive => process.leader # "running" /\ ~process.descendants
  BY BooleanFields DEF KnownGone, GroupAlive
<1>4. CASE StopGroup
  BY <1>1, <1>2, <1>3, <1>4 DEF StopGroup
<1>5. CASE GroupGone
  BY <1>2, <1>3, <1>5 DEF GroupGone
<1>6. CASE TermTimeout
  BY <1>1, <1>6 DEF TermTimeout
<1>7. CASE KillTimeout
  BY <1>2, <1>7 DEF KillTimeout
<1> QED BY <1>4, <1>5, <1>6, <1>7

-----------------------------------------------------------------------------
(* The two reads.                                                           *)

LEMMA BeginTaskReadKeeps ==
  ASSUME IInv, BeginTaskRead
  PROVE  IInv'
<1>0. watcher \in Watcher /\ TypeOK
  BY DEF IInv, TypeOK
<1>1. AliveNow \in BOOLEAN
  BY DEF AliveNow
<1>2. PICK w : w = [watcher EXCEPT !.pc = "readTask", !.alive = AliveNow]
  OBVIOUS
<1>3. w \in Watcher
  BY <1>0, <1>1, <1>2 DEF Watcher
<1>4. /\ w.pc = "readTask" /\ w.exited = watcher.exited /\ w.verdict = watcher.verdict
      /\ w.err = watcher.err /\ w.attempts = watcher.attempts
  BY <1>0, <1>2 DEF Watcher
<1>5. watcher.pc = "inspect" /\ Watch(w) /\ watcher' = w
  BY <1>2 DEF BeginTaskRead, Watch
<1>6. AnswersMean'
  BY <1>4, <1>5, NoAnswers
<1>7. VerdictMeans'
  BY <1>4, <1>5, SameVerdict
<1>8. StillReading'
  BY <1>4, <1>5 DEF IInv, StillReading
<1> QED BY <1>3, <1>4, <1>5, <1>6, <1>7, <1>8, BooleanFields, WatchKeeps

LEMMA OutputIsPosted ==
  ASSUME ServerSound
  PROVE  OutputOf(Run) # {} <=> Posted(Run, "output")
<1>1. ASSUME NEW i \in DOMAIN Conv, Conv[i].run = Run, Conv[i].kind = "output"
      PROVE  Conv[i] = EntryOf(Run, "output")
  <2>1. PICK run \in {Run, Rival}, kind \in Kinds : Conv[i] = EntryOf(run, kind)
    BY DEF ServerSound, ConvSound
  <2> QED BY <1>1, <2>1, EntryOfIsEntry
<1>2. EntryOf(Run, "output").run = Run /\ EntryOf(Run, "output").kind = "output"
  BY DEF EntryOf
<1> QED BY <1>1, <1>2 DEF OutputOf, Posted, Conv

\* The card as it is read: a run that does not own it after the executor's exit
\* is silent, and an output that was delivered is in review or settled.
LEMMA TaskReadKeeps ==
  ASSUME IInv, TaskRead
  PROVE  IInv'
<1>0. watcher \in Watcher /\ TypeOK
  BY DEF IInv, TypeOK
<1>1. PICK seen : seen = [status |-> CardRow.status, run |-> CardRow.run]
  OBVIOUS
<1>2. PICK w : w = [watcher EXCEPT !.pc = "gotTask", !.seen = seen]
  OBVIOUS
<1>3. CardRow.status \in Server!Statuses /\ CardRow.run \in {Run, Rival, "none"}
  BY <1>0, RowFields DEF TaskRead, Readable, CardRow, TypeOK
<1>4. seen \in [status : Server!Statuses \cup {""}, run : {Run, Rival, "none"}]
      /\ seen.status = CardRow.status /\ seen.run = CardRow.run
  BY <1>1, <1>3
<1>5. w \in Watcher
  BY <1>0, <1>2, <1>4 DEF Watcher
<1>6. /\ w.pc = "gotTask" /\ w.seen = seen /\ w.exited = watcher.exited
      /\ w.verdict = watcher.verdict /\ w.err = watcher.err /\ w.attempts = watcher.attempts
  BY <1>0, <1>2 DEF Watcher
<1>7. /\ watcher.pc = "readTask" /\ watcher' = w
      /\ UNCHANGED <<server, claim, process, cancelled>>
  BY <1>1, <1>2 DEF TaskRead, CardRow
<1>15. /\ history' \in History /\ history'.delivered = history.delivered
       /\ history'.inTime <=> OutputOf(Run) # {}
  BY <1>0 DEF TaskRead, TypeOK, History
<1>16. OutputOf(Run) # {} <=> Posted(Run, "output")
  BY <1>0, OutputIsPosted DEF IInv
<1>8. watcher.exited => ~Running
  BY BooleanFields DEF Running
<1>9. watcher.exited /\ seen.run # Run => Silent
  BY <1>4, <1>8 DEF Silent
<1>10. history'.inTime => seen.status = "needs_review" \/ Settled
  BY <1>4, <1>15, <1>16 DEF IInv, ServerSound, RowSound, Settled
<1>17. history'.delivered => history'.inTime
  <2>1. CardRow.status # "deleted"
    BY <1>3 DEF Server!Statuses
  <2> QED BY <1>15, <1>16, <2>1 DEF IInv, DeliveredIsPosted
<1>11. /\ (Silent' <=> Silent) /\ (Settled' <=> Settled)
       /\ (Posted(Run, "output")' <=> Posted(Run, "output"))
  BY <1>0, <1>7, LookLeaves DEF Kinds
<1>12. AnswersMean'
  BY <1>6, <1>7, <1>9, <1>10, <1>11, <1>17 DEF AnswersMean, Between
<1>13. VerdictMeans' /\ StillReading'
  BY <1>6, <1>7 DEF IInv, StillReading, VerdictMeans, Disposable, Verdicts
<1>14. DeliveredIsPosted'
  BY <1>11, <1>15, <1>16, <1>17 DEF DeliveredIsPosted
<1> QED BY <1>5, <1>6, <1>7, <1>12, <1>13, <1>14, <1>15, BooleanFields, LookKeeps

LEMMA BeginEntriesReadKeeps ==
  ASSUME IInv, BeginEntriesRead
  PROVE  IInv'
<1>0. watcher \in Watcher /\ TypeOK
  BY DEF IInv, TypeOK
<1>1. AliveNow \in BOOLEAN
  BY DEF AliveNow
<1>2. PICK w : w = [watcher EXCEPT !.pc = "readEntries", !.alive = AliveNow]
  OBVIOUS
<1>3. w \in Watcher
  BY <1>0, <1>1, <1>2 DEF Watcher
<1>4. /\ w.pc = "readEntries" /\ w.seen = watcher.seen /\ w.exited = watcher.exited
      /\ w.verdict = watcher.verdict /\ w.err = watcher.err /\ w.attempts = watcher.attempts
  BY <1>0, <1>2 DEF Watcher
<1>5. watcher.pc = "gotTask" /\ Watch(w) /\ watcher' = w
  BY <1>2 DEF BeginEntriesRead, Watch
<1>6. (Silent' <=> Silent) /\ (Settled' <=> Settled) /\ history' = history
  BY <1>0, <1>5, WatchLeaves
<1>7. AnswersMean'
  BY <1>4, <1>5, <1>6 DEF IInv, AnswersMean, Between
<1>8. VerdictMeans'
  BY <1>4, <1>5, SameVerdict
<1>9. StillReading'
  BY <1>4, <1>5 DEF IInv, StillReading
<1> QED BY <1>3, <1>4, <1>5, <1>7, <1>8, <1>9, BooleanFields, WatchKeeps

\* The kinds the watcher finds are the kinds of the run's entries.
LEMMA RunEntriesArePosted ==
  ASSUME ServerSound
  PROVE  /\ \A kind : kind \in RunEntries <=> kind \in Kinds /\ Posted(Run, kind)
         /\ RunEntries = {} <=> Written = {}
<1>1. ASSUME NEW i \in DOMAIN Conv, Conv[i].run = Run
      PROVE  \E kind \in Kinds : Conv[i] = EntryOf(Run, kind) /\ Conv[i].kind = kind
  <2>1. PICK run \in {Run, Rival}, kind \in Kinds : Conv[i] = EntryOf(run, kind)
    BY DEF ServerSound, ConvSound
  <2>2. run = Run /\ Conv[i].kind = kind
    BY <1>1, <2>1, EntryOfIsEntry
  <2> QED BY <2>1, <2>2
<1>2. \A kind : kind \in RunEntries <=> \E i \in DOMAIN Conv : Conv[i].run = Run /\ Conv[i].kind = kind
  BY DEF RunEntries, Server!EntriesOf, Conv
<1>3. ASSUME NEW kind \in Kinds, NEW i \in DOMAIN Conv, Conv[i] = EntryOf(Run, kind)
      PROVE  Conv[i].run = Run /\ Conv[i].kind = kind
  BY <1>3, EntryOfIsEntry
<1>4. \A kind : kind \in RunEntries <=> kind \in Kinds /\ Posted(Run, kind)
  BY <1>1, <1>2, <1>3 DEF Posted
<1>5. RunEntries = {} <=> Written = {}
  BY <1>2, WrittenNothing
<1> QED BY <1>4, <1>5

LEMMA EntriesReadKeeps ==
  ASSUME IInv, EntriesRead
  PROVE  IInv'
<1>0. watcher \in Watcher /\ TypeOK /\ ServerSound
  BY DEF IInv, TypeOK
<1>1. PICK has : has = RunEntries
  OBVIOUS
<1>2. PICK w : w = [watcher EXCEPT !.pc = "gotEntries", !.has = has]
  OBVIOUS
<1>3. has \in SUBSET Kinds
  BY <1>0, <1>1, RunEntriesArePosted
<1>4. w \in Watcher
  BY <1>0, <1>2, <1>3 DEF Watcher
<1>5. /\ w.pc = "gotEntries" /\ w.has = has /\ w.seen = watcher.seen /\ w.exited = watcher.exited
      /\ w.verdict = watcher.verdict /\ w.err = watcher.err /\ w.attempts = watcher.attempts
  BY <1>0, <1>2 DEF Watcher
<1>6. watcher.pc = "readEntries" /\ Watch(w) /\ watcher' = w
  BY <1>1, <1>2 DEF EntriesRead, Watch
<1>7. /\ (Silent' <=> Silent) /\ (Settled' <=> Settled) /\ history' = history
      /\ ((Written = {})' <=> Written = {})
      /\ \A kind \in Kinds : Posted(Run, kind)' <=> Posted(Run, kind)
  BY <1>0, <1>6, WatchLeaves
<1>8. CardRow.status # "deleted"
  BY DEF EntriesRead, Readable, Server!Statuses, CardRow
<1>9. history.inTime => "output" \in has
  BY <1>0, <1>1, <1>8, RunEntriesArePosted DEF IInv, DeliveredIsPosted, Kinds
<1>10. \A kind \in has : kind \in Kinds /\ Posted(Run, kind)'
  BY <1>0, <1>1, <1>7, RunEntriesArePosted
<1>11. has = {} => (Written = {})'
  BY <1>0, <1>1, <1>7, RunEntriesArePosted
<1>12. AnswersMean'
  <2>1. (Between /\ watcher.exited /\ watcher.seen.run # Run => Silent)'
    BY <1>5, <1>6, <1>7 DEF IInv, AnswersMean, Between
  <2>2. (Between /\ watcher.exited /\ history.delivered => history.inTime)'
        /\ (Between /\ history.inTime => watcher.seen.status = "needs_review" \/ Settled)'
    BY <1>5, <1>6, <1>7 DEF IInv, AnswersMean, Between
  <2>3. (watcher.pc = "gotEntries" /\ watcher.exited /\ watcher.seen.run # Run /\ watcher.has = {}
          => Written = {})'
    BY <1>5, <1>6, <1>11
  <2>4. (watcher.pc = "gotEntries" /\ CardRow.status # "deleted"
          => \A kind \in watcher.has : Posted(Run, kind))'
    BY <1>5, <1>6, <1>10
  <2>5. (watcher.pc = "gotEntries" /\ history.inTime => "output" \in watcher.has \/ Settled)'
    BY <1>5, <1>6, <1>7, <1>9
  <2> QED BY <2>1, <2>2, <2>3, <2>4, <2>5 DEF AnswersMean
<1>13. VerdictMeans'
  BY <1>5, <1>6, SameVerdict
<1>14. StillReading'
  BY <1>5, <1>6 DEF IInv, StillReading
<1> QED BY <1>4, <1>5, <1>6, <1>12, <1>13, <1>14, BooleanFields, WatchKeeps

-----------------------------------------------------------------------------
(* The verdict.                                                             *)

\* What each conclusion rests on.
LEMMA ConclusionRests ==
  ASSUME NEW w \in Watcher
  PROVE  /\ Conclusion(w) \in Verdicts \cup {"undecided"}
         /\ Conclusion(w) = "success" => "output" \in w.has
         /\ Conclusion(w) = "blocked" => "comment" \in w.has
         /\ Conclusion(w) \in Verdicts \ {"success", "blocked"} => w.exited
         /\ Conclusion(w) \in Verdicts \ {"success"} =>
              ~("output" \in w.has /\ w.seen.status = "needs_review")
         /\ Conclusion(w) \in Disposable => ~w.everOwned /\ ~w.everWrote
<1>1. CASE "output" \in w.has /\ w.seen.status \in {"needs_review", "done"}
  BY <1>1 DEF Conclusion, Verdicts, Disposable
<1>2. CASE /\ ~("output" \in w.has /\ w.seen.status \in {"needs_review", "done"})
           /\ "comment" \in w.has /\ w.seen.status = "working"
  BY <1>2 DEF Conclusion, Verdicts, Disposable
<1>3. CASE /\ ~("output" \in w.has /\ w.seen.status \in {"needs_review", "done"})
           /\ ~("comment" \in w.has /\ w.seen.status = "working")
  <2>1. CASE ~w.exited
    BY <1>3, <2>1 DEF Conclusion, Verdicts, Disposable
  <2>2. CASE w.exited /\ (w.everOwned \/ w.everWrote)
    BY <1>3, <2>2 DEF Conclusion, Verdicts, Disposable
  <2>3. CASE w.exited /\ ~w.everOwned /\ ~w.everWrote
    BY <1>3, <2>3 DEF Conclusion, Verdicts, Disposable
  <2> QED BY <2>1, <2>2, <2>3
<1> QED BY <1>1, <1>2, <1>3

LEMMA DecideKeeps ==
  ASSUME IInv, Decide
  PROVE  IInv'
<1>0. watcher \in Watcher /\ TypeOK /\ AnswersMean
  BY DEF IInv, TypeOK
<1>1. PICK r : r = Remembered(watcher)
  OBVIOUS
<1>2. PICK v : v = Conclusion(r)
  OBVIOUS
<1>3. PICK pc : pc = IF v = "undecided" THEN "wait" ELSE IF r.exited THEN "stop" ELSE "grace"
  OBVIOUS
<1>4. PICK w : w = [r EXCEPT !.pc = pc, !.verdict = v, !.seen = NothingSeen, !.has = {}, !.alive = FALSE]
  OBVIOUS
<1>5. watcher.pc = "gotEntries" /\ Watch(w) /\ watcher' = w
  BY <1>1, <1>2, <1>3, <1>4 DEF Decide, Watch
<1>6. PICK owned \in BOOLEAN : owned = (watcher.everOwned \/ watcher.seen.run = Run)
  OBVIOUS
<1>7. PICK wrote \in BOOLEAN : wrote = (watcher.everWrote \/ watcher.has # {})
  OBVIOUS
<1>8. PICK observed \in BOOLEAN : observed = (watcher.observed \/ AliveNow)
  OBVIOUS
<1>9. r = [watcher EXCEPT !.everOwned = owned, !.everWrote = wrote, !.observed = observed]
  BY <1>1, <1>6, <1>7, <1>8 DEF Remembered
<1>10. r \in Watcher
  BY <1>0, <1>9 DEF Watcher
<1>11. /\ r.everOwned = owned /\ r.everWrote = wrote /\ r.exited = watcher.exited
       /\ r.seen = watcher.seen /\ r.has = watcher.has /\ r.err = watcher.err
       /\ r.attempts = watcher.attempts
  BY <1>0, <1>9 DEF Watcher
<1>12. v \in Verdicts \cup {"undecided"}
  BY <1>2, <1>10, ConclusionRests
<1>13. NothingSeen \in [status : Server!Statuses \cup {""}, run : {Run, Rival, "none"}]
  BY DEF NothingSeen
<1>14. pc \in {"wait", "stop", "grace"}
  BY <1>3
<1>15. w \in Watcher
  BY <1>4, <1>10, <1>12, <1>13, <1>14 DEF Watcher
<1>16. w.pc = pc /\ w.verdict = v /\ w.exited = watcher.exited /\ w.attempts = watcher.attempts
  BY <1>4, <1>10, <1>11 DEF Watcher
<1>17. /\ (Running' <=> Running) /\ (Silent' <=> Silent) /\ (Settled' <=> Settled)
       /\ UNCHANGED <<history, CardRow>>
       /\ ((Written = {})' <=> Written = {})
       /\ \A kind \in Kinds : Posted(Run, kind)' <=> Posted(Run, kind)
  BY <1>0, <1>5, WatchLeaves
<1>18. AnswersMean'
  BY <1>5, <1>14, <1>16, NoAnswers
<1>19. StillReading'
  <2>1. pc = "wait" => v = "undecided"
    BY <1>3
  <2> QED BY <1>5, <1>14, <1>16, <2>1 DEF IInv, StillReading
<1>20. watcher.exited => ~Running
  BY BooleanFields DEF Running
<1>21. VerdictMeans'
  <2>1. v \in Disposable => Silent /\ Written = {}
    <3>1. v \in Disposable => watcher.seen.run # Run /\ watcher.has = {} /\ watcher.exited
      BY <1>2, <1>6, <1>7, <1>10, <1>11, ConclusionRests DEF Disposable, Verdicts
    <3> QED BY <1>0, <1>5, <3>1 DEF AnswersMean, Between
  <2>2. v = "success" /\ CardRow.status # "deleted" => Posted(Run, "output")
    BY <1>0, <1>2, <1>5, <1>10, <1>11, ConclusionRests DEF AnswersMean
  <2>3. v = "blocked" /\ CardRow.status # "deleted" => Posted(Run, "comment")
    BY <1>0, <1>2, <1>5, <1>10, <1>11, ConclusionRests DEF AnswersMean
  <2>4. v \in Verdicts \ {"success", "blocked"} =>
          ~Running /\ (history.delivered => history.inTime)
    <3>1. v \in Verdicts \ {"success", "blocked"} => watcher.exited
      BY <1>2, <1>10, <1>11, ConclusionRests
    <3> QED BY <1>0, <1>5, <1>20, <3>1 DEF AnswersMean, Between
  <2>6. v \in Verdicts \ {"success"} => (history.inTime => Settled)
    <3>1. v \in Verdicts \ {"success"} =>
            ~("output" \in watcher.has /\ watcher.seen.status = "needs_review")
      BY <1>2, <1>10, <1>11, ConclusionRests
    <3> QED BY <1>0, <1>5, <3>1 DEF AnswersMean, Between
  <2>5. (Posted(Run, "output")' <=> Posted(Run, "output"))
        /\ (Posted(Run, "comment")' <=> Posted(Run, "comment"))
    BY <1>17 DEF Kinds
  <2> QED BY <1>5, <1>16, <1>17, <2>1, <2>2, <2>3, <2>4, <2>5, <2>6 DEF VerdictMeans
<1> QED BY <1>5, <1>14, <1>15, <1>16, <1>18, <1>19, <1>21, BooleanFields, WatchKeeps

-----------------------------------------------------------------------------
(* Reads that fail, and the interrupt.                                      *)

LEMMA ReadFailsKeeps ==
  ASSUME IInv, ReadFails
  PROVE  IInv'
<1>0. watcher \in Watcher /\ TypeOK /\ watcher.attempts <= PostExitReadAttempts
  BY DEF IInv, TypeOK, StillReading, ReadFails, Reading
<1>1. PICK exited \in BOOLEAN : exited = (watcher.exited \/ process.finished)
  OBVIOUS
<1>2. PICK failed \in BOOLEAN : failed = (watcher.readFailed \/ watcher.alive)
  OBVIOUS
<1>3. PICK tries : tries = PostExitTries(exited)
  OBVIOUS
<1>4. PICK verdict : verdict = IF GiveUp(tries) THEN "interrupted" ELSE "undecided"
  OBVIOUS
<1>5. PICK pc : pc = IF GiveUp(tries) THEN "stop" ELSE "inspect"
  OBVIOUS
<1>6. PICK w : w = [watcher EXCEPT !.readFailed = failed, !.exited = exited, !.attempts = tries,
                                   !.verdict = verdict, !.pc = pc,
                                   !.seen = NothingSeen, !.alive = FALSE]
  OBVIOUS
<1>7. Watch(w) /\ watcher' = w
  BY <1>1, <1>2, <1>3, <1>4, <1>5, <1>6 DEF ReadFails, Watch
<1>8. watcher.attempts \in 0..PostExitReadAttempts + 1
  BY <1>0 DEF Watcher
<1>9. tries \in 0..PostExitReadAttempts + 1
  BY <1>0, <1>3, <1>8, AttemptLimit DEF PostExitTries
<1>10. NothingSeen \in [status : Server!Statuses \cup {""}, run : {Run, Rival, "none"}]
  BY DEF NothingSeen
<1>11. /\ pc \in {"stop", "inspect"} /\ verdict \in {"undecided", "interrupted"}
       /\ pc = "inspect" => verdict = "undecided"
  BY <1>4, <1>5
<1>18. /\ pc = "inspect" => tries <= PostExitReadAttempts
       /\ verdict = "interrupted" => tries > PostExitReadAttempts
  BY <1>4, <1>5, <1>9, AttemptLimit DEF GiveUp
<1>12. w \in Watcher
  <2>1. PICK u : u = [watcher EXCEPT !.readFailed = failed, !.exited = exited]
    OBVIOUS
  <2>2. PICK x : x = [u EXCEPT !.verdict = verdict, !.pc = pc, !.seen = NothingSeen, !.alive = FALSE]
    OBVIOUS
  <2>3. watcher \in Watcher /\ verdict \in Verdicts \cup {"undecided"} /\ pc \in {"stop", "inspect"}
    BY <1>0, <1>11 DEF Verdicts
  <2>4. u \in Watcher
    BY <2>1, <2>3 DEF Watcher
  <2>5. x \in Watcher
    BY <1>10, <2>2, <2>3, <2>4 DEF Watcher
  <2>6. [x EXCEPT !.attempts = tries] \in Watcher
    BY <1>9, <2>5 DEF Watcher
  <2>7. w = [x EXCEPT !.attempts = tries]
    BY <1>6, <2>1, <2>2, <2>3 DEF Watcher
  <2> QED BY <2>6, <2>7
<1>13. w.pc = pc /\ w.exited = exited /\ w.verdict = verdict /\ w.attempts = tries
  BY <1>0, <1>6 DEF Watcher
<1>14. AnswersMean'
  BY <1>7, <1>11, <1>13, NoAnswers
<1>15. VerdictMeans'
  BY <1>7, <1>11, <1>13, <1>18, ExcusedVerdict DEF Excused
<1>16. StillReading'
  BY <1>7, <1>11, <1>13, <1>18 DEF StillReading
<1>17. w.exited => process.finished
  BY <1>1, <1>13, BooleanFields
<1> QED BY <1>7, <1>11, <1>12, <1>13, <1>14, <1>15, <1>16, <1>17, WatchKeeps

LEMMA EndingsKeep ==
  ASSUME IInv, ReadRefused \/ ReadCancelled \/ WaitInterrupt
  PROVE  IInv'
<1>0. watcher \in Watcher /\ TypeOK
  BY DEF IInv, TypeOK
<1>1. NothingSeen \in [status : Server!Statuses \cup {""}, run : {Run, Rival, "none"}]
  BY DEF NothingSeen
<1>2. PICK exited \in BOOLEAN : exited = (watcher.exited \/ process.finished)
  OBVIOUS
<1>3. exited => process.finished
  BY <1>2, BooleanFields
<1>4. ASSUME NEW w \in Watcher, Watch(w), w.pc = "stop", w.exited => process.finished,
             w.verdict \in {"interrupted", "ambiguous"}, w.err \/ cancelled
      PROVE  IInv'
  <2>1. watcher' = w /\ cancelled' = cancelled
    BY <1>4 DEF Watch
  <2>2. AnswersMean'
    BY <1>4, <2>1, NoAnswers
  <2>3. VerdictMeans'
    BY <1>4, <2>1, ExcusedVerdict DEF Excused
  <2>4. StillReading'
    BY <1>4, <2>1 DEF StillReading
  <2> QED BY <1>4, <2>2, <2>3, <2>4, WatchKeeps
<1>5. CASE ReadRefused
  <2>1. PICK w : w = [watcher EXCEPT !.exited = exited, !.verdict = "ambiguous", !.err = TRUE,
                                     !.pc = "stop", !.seen = NothingSeen, !.alive = FALSE]
    OBVIOUS
  <2>2. w \in Watcher
    BY <1>0, <1>1, <2>1 DEF Watcher, Verdicts
  <2>3. w.pc = "stop" /\ w.exited = exited /\ w.verdict = "ambiguous" /\ w.err
    BY <1>0, <2>1 DEF Watcher
  <2>4. Watch(w)
    BY <1>2, <1>5, <2>1 DEF ReadRefused
  <2> QED BY <1>3, <1>4, <2>2, <2>3, <2>4
<1>6. CASE ReadCancelled
  <2>1. PICK w : w = [watcher EXCEPT !.verdict = "interrupted", !.pc = "stop",
                                     !.seen = NothingSeen, !.alive = FALSE]
    OBVIOUS
  <2>2. w \in Watcher
    BY <1>0, <1>1, <2>1 DEF Watcher, Verdicts
  <2>3. w.pc = "stop" /\ w.exited = watcher.exited /\ w.verdict = "interrupted"
    BY <1>0, <2>1 DEF Watcher
  <2>4. Watch(w) /\ cancelled
    BY <1>6, <2>1 DEF ReadCancelled
  <2> QED BY <1>4, <2>2, <2>3, <2>4, BooleanFields
<1>7. CASE WaitInterrupt
  <2>1. PICK w : w = [watcher EXCEPT !.exited = exited, !.verdict = "interrupted", !.pc = "stop"]
    OBVIOUS
  <2>2. w \in Watcher
    BY <1>0, <2>1 DEF Watcher, Verdicts
  <2>3. w.pc = "stop" /\ w.exited = exited /\ w.verdict = "interrupted"
    BY <1>0, <2>1 DEF Watcher
  <2>4. Watch(w) /\ cancelled
    BY <1>2, <1>7, <2>1 DEF WaitInterrupt
  <2> QED BY <1>3, <1>4, <2>2, <2>3, <2>4
<1> QED BY <1>5, <1>6, <1>7

-----------------------------------------------------------------------------
(* The invariant and what follows from it.                                  *)

LEMMA InitOK == Init => IInv
<1> SUFFICES ASSUME Init PROVE IInv
  OBVIOUS
<1>1. [status |-> "queued", assignee |-> Agent, run |-> "none", reason |-> ""] \in Server!Row
  BY DEF Server!Row, Server!Statuses
<1>2. Server!TypeOK
  <2>1. tasks \in [{Card} -> Server!Row]
    BY <1>1 DEF Init
  <2>2. <<>> \in Seq(Server!Entry)
    OBVIOUS
  <2>3. entries \in [{Card} -> Seq(Server!Entry)]
    BY <2>2 DEF Init
  <2>4. agents \subseteq {Agent} /\ pending \in [{Run, Rival} -> Server!Request]
    BY DEF Init, Server!Request
  <2> QED BY <2>1, <2>3, <2>4 DEF Server!TypeOK
<1>3. NothingSeen \in [status : Server!Statuses \cup {""}, run : {Run, Rival, "none"}]
  BY DEF NothingSeen
<1>4. 0 \in 0..PostExitReadAttempts + 1
  BY AttemptLimit
<1>5. watcher \in Watcher
  BY <1>3, <1>4 DEF Init, Watcher
<1>6. TypeOK
  BY <1>2, <1>5 DEF Init, TypeOK, Process, History
<1>7. /\ CardRow.status = "queued" /\ CardRow.run = "none" /\ CardRow.reason = ""
      /\ Conv = <<>> /\ pending[Run] = NoRequest /\ pending[Rival] = NoRequest
  BY DEF Init, CardRow, Conv
<1>8. DOMAIN Conv = {}
  <2>1. DOMAIN <<>> = {}
    OBVIOUS
  <2> QED BY <1>7, <2>1
<1>9. ServerSound
  BY <1>7, <1>8, Strings DEF ServerSound, RowSound, ConvSound, RequestsSound, ClaimedFirst
<1>10. ProcessSound /\ ClearedMeansGone
  BY DEF Init, ProcessSound, ClearedMeansGone
<1>11. AnswersMean /\ VerdictMeans /\ DeliveredIsPosted
  BY DEF Init, AnswersMean, Between, VerdictMeans, Disposable, Verdicts, DeliveredIsPosted
<1>12. StillReading
  <2>1. watcher.attempts = 0 /\ watcher.verdict = "undecided"
    BY DEF Init
  <2> QED BY <2>1, AttemptLimit DEF StillReading
<1> QED BY <1>6, <1>9, <1>10, <1>11, <1>12 DEF IInv

LEMMA StepOK == IInv /\ [Next]_vars => IInv'
<1> SUFFICES ASSUME IInv, [Next]_vars PROVE IInv'
  OBVIOUS
<1>1. CASE OtherStep
  BY <1>1, OtherSteps, EnvironmentKeeps
<1>2. CASE WatcherStep
  BY <1>2, BeginTaskReadKeeps, TaskReadKeeps, BeginEntriesReadKeeps, EntriesReadKeeps, DecideKeeps,
     ReadFailsKeeps, EndingsKeep, WaitsKeep, StopsKeep
  DEF WatcherStep
<1>3. CASE UNCHANGED vars
  <2>1. TypeOK /\ ProcessSound
    BY DEF IInv
  <2>2. /\ UNCHANGED <<server, watcher>> /\ process' = process /\ history' = history
        /\ claim' = claim /\ cancelled' = cancelled
    BY <1>3 DEF vars, server
  <2>3. claim \in {"none", "sent", "won", "lost"} /\ cancelled \in BOOLEAN
    BY <2>1 DEF TypeOK
  <2>4. EnvironmentStep
    BY <2>1, <2>2, <2>3, ProcessIdle, HistoryIdle, EnvironmentQuiet
  <2> QED BY <2>4, EnvironmentKeeps
<1> QED BY <1>1, <1>2, <1>3 DEF Next, OtherStep

\* The invariant holds in every reachable state, whatever the environment does.
THEOREM SupervisionInvariant == Spec => []IInv
BY InitOK, StepOK, PTL DEF Spec

\* superviseRun keeps its state within its types; in particular it never counts
\* more failing reads than one past the limit.
THEOREM SupervisionTypes == Spec => []TypeOK
<1>1. IInv => TypeOK
  BY DEF IInv
<1> QED BY <1>1, SupervisionInvariant, PTL

\* INV-3: supervision says nothing of the run is left only when the leader is not
\* running and no descendant is left, although the group ID may be handed on and
\* the exit may be noticed late.
THEOREM ClearedGroupsAreGone == Spec => []ClearedMeansGone
<1>1. IInv => ClearedMeansGone
  BY DEF IInv
<1> QED BY <1>1, SupervisionInvariant, PTL

\* A worktree is thrown away only when the run never wrote on the card and cannot
\* write on it any more.
THEOREM DisposableRunsWroteNothing == Spec => []DisposableWroteNothing
<1>1. IInv => DisposableWroteNothing
  BY DEF IInv, VerdictMeans, DisposableWroteNothing
<1> QED BY <1>1, SupervisionInvariant, PTL

\* INV-4: a successful run has exactly one output on its card, a blocked one has
\* its comment, as long as the card exists.
THEOREM VerdictsAreBacked == Spec => []VerdictIsBacked
<1>1. ASSUME IInv PROVE VerdictIsBacked
  <2>1. ASSUME Posted(Run, "output") PROVE Cardinality(OutputOf(Run)) = 1
    <3>1. PICK i \in DOMAIN Conv : Conv[i] = EntryOf(Run, "output")
      BY <2>1 DEF Posted
    <3>2. Conv[i].run = Run /\ Conv[i].kind = "output"
      BY <3>1, EntryOfIsEntry DEF Kinds
    <3>3. ASSUME NEW j \in OutputOf(Run) PROVE j = i
      <4>1. j \in DOMAIN Conv /\ Conv[j].run = Run /\ Conv[j].kind = "output"
        BY <3>3 DEF OutputOf, Conv
      <4>2. PICK run \in {Run, Rival}, kind \in Kinds : Conv[j] = EntryOf(run, kind)
        BY <1>1, <4>1 DEF IInv, ServerSound, ConvSound
      <4>3. run = Run /\ kind = "output"
        BY <4>1, <4>2, EntryOfIsEntry
      <4> QED BY <1>1, <3>1, <4>1, <4>2, <4>3 DEF IInv, ServerSound, ConvSound
    <3>4. i \in OutputOf(Run)
      BY <3>2 DEF OutputOf, Conv
    <3>5. OutputOf(Run) = {i}
      BY <3>3, <3>4
    <3> QED BY <3>5, FS_Singleton
  <2>2. ASSUME Posted(Run, "comment") PROVE \E e \in Written : e.kind = "comment"
    <3>1. PICK i \in DOMAIN Conv : Conv[i] = EntryOf(Run, "comment")
      BY <2>2 DEF Posted
    <3>2. Conv[i].run = Run /\ Conv[i].kind = "comment"
      BY <3>1, EntryOfIsEntry DEF Kinds
    <3> QED BY <3>1, <3>2 DEF Written, Server!EntriesOf, Conv
  <2>3. CardRow = tasks[Card]
    BY DEF CardRow
  <2> QED BY <1>1, <2>1, <2>2, <2>3 DEF IInv, VerdictMeans, VerdictIsBacked
<1> QED BY <1>1, SupervisionInvariant, PTL

\* A result that waits for its reviewer is reported as success if it was stored
\* before the watcher's last look at the card; stored after that look, while the
\* executor ran, it can pass for blocked and for nothing else.  Interrupts and a
\* server that stopped answering excuse the watcher.
THEOREM DeliveredRunsAreReported == Spec => []DeliveredIsReported
<1>1. ASSUME IInv PROVE DeliveredIsReported
  <2>1. CardRow = tasks[Card] /\ (tasks[Card].run = Run /\ tasks[Card].reason = "output" => ~Settled)
    BY DEF CardRow, Settled
  <2> QED BY <1>1, <2>1 DEF IInv, VerdictMeans, DeliveredIsReported
<1> QED BY <1>1, SupervisionInvariant, PTL

=============================================================================
