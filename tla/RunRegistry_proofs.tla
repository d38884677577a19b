------------------------- MODULE RunRegistry_proofs -------------------------
(***************************************************************************)
(* What the registry guarantees, for any number of watchers and runs, any  *)
(* limit and any combination of faults.                                    *)
(***************************************************************************)
EXTENDS RunRegistry, FiniteSetTheorems, TLAPS

\* Program points at which a watcher has a run in hand: before its first record,
\* and from that record on.
Unrecorded == {"created", "unrecorded"}
Reserved == {"recount", "launch", "started", "supervise", "discard", "forget"}
Busy == Unrecorded \cup Reserved

\* A run in hand is at the stage its watcher is at.
WatcherOK(w) ==
  LET r  == watchers[w].run
      pc == watchers[w].pc
  IN  /\ pc \in Busy \cup {"lost"} => r \in Runs
      /\ pc \in Unrecorded => records[r] = NoRecord
      /\ pc \in Reserved => records[r] # NoRecord /\ records[r].state # "retained"
      /\ pc \in Busy \ {"forget"} => r \in worktrees
      /\ pc = "forget" => r \notin worktrees
      /\ pc \in Unrecorded \cup {"lost", "recount", "launch"} => launcher[r] = NoRun
      /\ r \in Runs /\ records[r] # NoRecord => records[r].watcher = w

\* Identifiers are drawn once, and a run belongs to the watcher that drew it.
Fresh ==
  /\ \A r \in Runs \ used :
       records[r] = NoRecord /\ r \notin worktrees /\ r \notin groups /\ launcher[r] = NoRun
  /\ \A w \in Watchers : watchers[w].run \in used \cup {NoRun}
  /\ \A w, v \in Watchers :
       watchers[w].run \in Runs /\ watchers[w].run = watchers[v].run => w = v

\* The watcher of a live group is at that run, or is gone.
GroupOK(r) ==
  /\ launcher[r] \in Watchers
  /\ watchers[launcher[r]].run = r
  /\ watchers[launcher[r]].pc \in {"started", "supervise", "stopped"}
  /\ records[r] # NoRecord /\ records[r].state = "retained" => records[r].group

\* The operator works on a run that no watcher has in hand and whose group, if it
\* lives, is not on record.
CleanerOK ==
  cleaner.pc # "idle" =>
    /\ cleaner.run \in used
    /\ cleaner.pc = "remove" => cleaner.run \notin worktrees
    /\ \A w \in Watchers : watchers[w].run = cleaner.run => watchers[w].pc \notin Busy
    /\ cleaner.run \in groups /\ records[cleaner.run] # NoRecord => ~records[cleaner.run].group

\* Runs with a record that were let through while the registry was within its
\* limit.
Approved ==
  {r \in Recorded \ excess :
     launcher[r] # NoRun \/ \E w \in Watchers : At(w, "launch") /\ watchers[w].run = r}

-----------------------------------------------------------------------------
(* Facts about one run, and steps that concern one run.                     *)

Findable(r) ==
  \/ records[r] # NoRecord
  \/ \E w \in Watchers :
       watchers[w].run = r /\ watchers[w].pc \in {"created", "unrecorded", "lost"}

Kept(r) ==
  ProcessAlive(launcher[r]) \/ (records[r] # NoRecord /\ records[r].group) => r \in worktrees

RunOK(r) ==
  /\ r \in worktrees => Findable(r)
  /\ r \in groups => GroupOK(r) /\ Kept(r)

\* Everything but the count.
Shape ==
  /\ TypeOK /\ Fresh /\ CleanerOK
  /\ \A w \in Watchers : WatcherOK(w)
  /\ \A r \in Runs : RunOK(r)

\* The inductive invariant.
IInv == Shape /\ Cardinality(Approved) <= MaxRetained

\* A step of watcher w, with what it has in hand.
OnlyRun(w) ==
  /\ \A v \in Watchers \ {w} : watchers'[v] = watchers[v]
  /\ watchers'[w].run = watchers[w].run
  /\ \A q \in Runs \ {watchers[w].run} :
       /\ records'[q] = records[q] /\ launcher'[q] = launcher[q]
       /\ q \in worktrees' <=> q \in worktrees
       /\ q \in groups' <=> q \in groups
  /\ used' = used /\ cleaner' = cleaner

\* The recorded runs are finitely many.
LEMMA ApprovedFinite ==
  /\ IsFiniteSet(Recorded) /\ IsFiniteSet(Approved)
  /\ Cardinality(Recorded) \in Nat /\ Cardinality(Approved) \in Nat
  /\ Approved \subseteq Recorded /\ Cardinality(Approved) <= Cardinality(Recorded)
<1>1. Recorded \subseteq Runs /\ Approved \subseteq Recorded
  BY DEF Recorded, Approved
<1>2. IsFiniteSet(Recorded)
  BY <1>1, RunsFinite, FS_Subset
<1>3. IsFiniteSet(Approved) /\ Cardinality(Approved) <= Cardinality(Recorded)
  BY <1>1, <1>2, FS_Subset
<1> QED
  BY <1>1, <1>2, <1>3, FS_CardinalityType

\* Approval is only lost.
LEMMA FewerApproved ==
  ASSUME Cardinality(Approved) <= MaxRetained, Approved' \subseteq Approved
  PROVE  Cardinality(Approved)' <= MaxRetained
<1>1. IsFiniteSet(Approved') /\ Cardinality(Approved') <= Cardinality(Approved)
  BY ApprovedFinite, FS_Subset
<1>2. Cardinality(Approved') \in Nat /\ Cardinality(Approved) \in Nat
  BY <1>1, ApprovedFinite, FS_CardinalityType
<1> QED
  BY <1>1, <1>2, LimitIsNatural

\* A step of a busy watcher leaves everything else as it is: what remains to be
\* shown is about its own run.
LEMMA BusyStep ==
  ASSUME Shape, NEW w \in Watchers, watchers[w].pc \in Busy, OnlyRun(w),
         NEW r, r = watchers[w].run, TypeOK', WatcherOK(w)', RunOK(r)'
  PROVE  Shape'
<1>1. /\ TypeOK /\ Fresh /\ CleanerOK
      /\ \A v \in Watchers : WatcherOK(v)
      /\ \A q \in Runs : RunOK(q)
  BY DEF Shape
<1>2. r \in Runs /\ r \in used
  BY <1>1 DEF WatcherOK, Fresh, TypeOK, Busy, Unrecorded
<1>3. ASSUME NEW v \in Watchers PROVE WatcherOK(v)'
  <2>1. CASE v = w
    BY <2>1
  <2>2. CASE v # w
    <3>1. watchers'[v] = watchers[v] /\ watchers[v].run # r
      BY <1>1, <1>2, <2>2 DEF OnlyRun, Fresh
    <3>2. watchers[v].run \in Runs \/ watchers[v].run = NoRun
      BY <1>1 DEF TypeOK
    <3>3. CASE watchers[v].run \in Runs
      BY <1>1, <3>1, <3>3 DEF WatcherOK, OnlyRun
    <3>4. CASE watchers[v].run = NoRun
      BY <1>1, <3>1, <3>4, RunsFinite DEF WatcherOK, Busy, Unrecorded, Reserved
    <3> QED
      BY <3>2, <3>3, <3>4
  <2> QED
    BY <2>1, <2>2
<1>4. Fresh'
  BY <1>1, <1>2 DEF Fresh, OnlyRun
<1>5. ASSUME NEW q \in Runs PROVE RunOK(q)'
  <2>1. CASE q = r
    BY <2>1
  <2>2. CASE q # r
    <3>1. /\ records'[q] = records[q] /\ launcher'[q] = launcher[q]
          /\ q \in worktrees' <=> q \in worktrees
          /\ q \in groups' <=> q \in groups
      BY <2>2 DEF OnlyRun
    <3>2. \A v \in Watchers : watchers[v].run = q => watchers'[v] = watchers[v]
      BY <2>2 DEF OnlyRun
    <3>3. q \in worktrees' => Findable(q)'
      BY <1>1, <3>1, <3>2 DEF RunOK, Findable
    <3>4. ASSUME q \in groups' PROVE GroupOK(q)' /\ Kept(q)'
      <4>1. GroupOK(q) /\ Kept(q)
        BY <1>1, <3>1, <3>4 DEF RunOK
      <4>2. watchers'[launcher[q]] = watchers[launcher[q]]
        BY <3>2, <4>1 DEF GroupOK
      <4> QED
        BY <3>1, <4>1, <4>2 DEF GroupOK, Kept, ProcessAlive
    <3> QED
      BY <3>3, <3>4 DEF RunOK
  <2> QED
    BY <2>1, <2>2
<1>6. CleanerOK'
  <2>1. cleaner.pc # "idle" => cleaner.run # r
    BY <1>1 DEF CleanerOK
  <2>2. cleaner.pc # "idle" => cleaner.run \in Runs
    BY <1>1 DEF CleanerOK, TypeOK
  <2> QED
    BY <1>1, <2>1, <2>2 DEF CleanerOK, OnlyRun
<1> QED
  BY <1>3, <1>4, <1>5, <1>6 DEF Shape

\* Of the approved runs such a step can only change its own.
LEMMA BusyApproved ==
  ASSUME NEW w \in Watchers, OnlyRun(w), excess \subseteq excess',
         NEW r, r = watchers[w].run, r \in Approved' => r \in Approved
  PROVE  Approved' \subseteq Approved
<1> SUFFICES ASSUME NEW q \in Approved', q # r PROVE q \in Approved
  OBVIOUS
<1>1. q \in Runs /\ records'[q] # NoRecord /\ q \notin excess'
  BY DEF Approved, Recorded
<1>2. records[q] # NoRecord /\ launcher'[q] = launcher[q]
  BY <1>1 DEF OnlyRun
<1>3. \A v \in Watchers : watchers'[v].run = q => watchers'[v] = watchers[v]
  BY DEF OnlyRun
<1> QED
  BY <1>1, <1>2, <1>3 DEF Approved, Recorded, At

\* Together: a step of a busy watcher that approves nothing.
LEMMA BusyInvariant ==
  ASSUME IInv, NEW w \in Watchers, watchers[w].pc \in Busy, OnlyRun(w),
         NEW r, r = watchers[w].run, TypeOK', WatcherOK(w)', RunOK(r)',
         excess \subseteq excess', r \in Approved' => r \in Approved
  PROVE  IInv'
<1>1. Shape'
  BY BusyStep DEF IInv
<1>2. Approved' \subseteq Approved
  BY BusyApproved
<1> QED
  BY <1>1, <1>2, FewerApproved DEF IInv

-----------------------------------------------------------------------------
(* What the two assignments of the actions do.                              *)

LEMMA GotoMoves ==
  ASSUME TypeOK, NEW w \in Watchers, NEW pc \in Positions, Goto(w, pc)
  PROVE  /\ watchers' \in [Watchers -> [pc : Positions, run : Runs \cup {NoRun}]]
         /\ watchers'[w].pc = pc /\ watchers'[w].run = watchers[w].run
         /\ \A v \in Watchers \ {w} : watchers'[v] = watchers[v]
BY DEF TypeOK, Goto

LEMMA SaveWrites ==
  ASSUME TypeOK, NEW r \in Runs, NEW record \in Record, Save(r, record)
  PROVE  /\ records' \in [Runs -> Record]
         /\ records'[r] = record
         /\ \A q \in Runs \ {r} : records'[q] = records[q]
BY DEF TypeOK, Save

LEMMA SaveWithout ==
  ASSUME TypeOK, NEW r \in Runs, NEW w \in Watchers,
         NEW state \in {"launching", "working", "retained"},
         Save(r, RecordOf(state, FALSE, w))
  PROVE  /\ records' \in [Runs -> Record]
         /\ \A q \in Runs \ {r} : records'[q] = records[q]
         /\ records'[r] # NoRecord /\ records'[r].watcher = w
         /\ records'[r].state = state /\ records'[r].group = FALSE
<1>1. RecordOf(state, FALSE, w) \in Record /\ RecordOf(state, FALSE, w) # NoRecord
  <2>1. RecordOf(state, FALSE, w) \in
          [state : {"launching", "working", "retained"}, group : BOOLEAN, watcher : Watchers]
    BY DEF RecordOf
  <2> QED
    BY <2>1, NoRecordIsNone DEF Record
<1>2. /\ records' \in [Runs -> Record] /\ records'[r] = RecordOf(state, FALSE, w)
      /\ \A q \in Runs \ {r} : records'[q] = records[q]
  BY <1>1 DEF TypeOK, Save
<1> QED
  BY <1>1, <1>2 DEF RecordOf

LEMMA SaveWith ==
  ASSUME TypeOK, NEW r \in Runs, NEW w \in Watchers,
         NEW state \in {"launching", "working", "retained"},
         Save(r, RecordOf(state, TRUE, w))
  PROVE  /\ records' \in [Runs -> Record]
         /\ \A q \in Runs \ {r} : records'[q] = records[q]
         /\ records'[r] # NoRecord /\ records'[r].watcher = w
         /\ records'[r].state = state /\ records'[r].group = TRUE
<1>1. RecordOf(state, TRUE, w) \in Record /\ RecordOf(state, TRUE, w) # NoRecord
  <2>1. RecordOf(state, TRUE, w) \in
          [state : {"launching", "working", "retained"}, group : BOOLEAN, watcher : Watchers]
    BY DEF RecordOf
  <2> QED
    BY <2>1, NoRecordIsNone DEF Record
<1>2. /\ records' \in [Runs -> Record] /\ records'[r] = RecordOf(state, TRUE, w)
      /\ \A q \in Runs \ {r} : records'[q] = records[q]
  BY <1>1 DEF TypeOK, Save
<1> QED
  BY <1>1, <1>2 DEF RecordOf

\* What is known of the run that a busy watcher has in hand.
LEMMA InHand ==
  ASSUME Shape, NEW w \in Watchers, watchers[w].pc \in Busy,
         NEW r, r = watchers[w].run
  PROVE  /\ r \in Runs /\ TypeOK /\ WatcherOK(w) /\ RunOK(r)
         /\ \A v \in Watchers : watchers[v].run = r => v = w
         /\ r \in groups =>
              /\ launcher[r] = w
              /\ watchers[w].pc \in {"started", "supervise"}
         /\ cleaner.pc # "idle" => cleaner.run # r
<1>1. /\ TypeOK /\ Fresh /\ CleanerOK /\ WatcherOK(w)
      /\ \A q \in Runs : RunOK(q)
  BY DEF Shape
<1>2. r \in Runs
  BY <1>1 DEF WatcherOK
<1>3. \A v \in Watchers : watchers[v].run = r => v = w
  BY <1>1, <1>2 DEF Fresh
<1>4. r \in groups => launcher[r] = w /\ watchers[w].pc \in {"started", "supervise"}
  BY <1>1, <1>2, <1>3 DEF RunOK, GroupOK, Busy, Unrecorded, Reserved
<1>5. cleaner.pc # "idle" => cleaner.run # r
  BY <1>1 DEF CleanerOK
<1> QED
  BY <1>1, <1>2, <1>3, <1>4, <1>5

-----------------------------------------------------------------------------
(* The steps of a watcher with a run in hand.                               *)

LEMMA SaveLaunchingKeeps ==
  ASSUME IInv, NEW w \in Watchers, SaveLaunching(w)
  PROVE  IInv'
<1>1. PICK r : r = watchers[w].run
  OBVIOUS
<1>2. watchers[w].pc = "created" /\ watchers[w].pc \in Busy
  BY DEF SaveLaunching, At, Busy, Unrecorded
<1>3. /\ r \in Runs /\ TypeOK /\ WatcherOK(w) /\ RunOK(r)
      /\ r \notin groups
  BY <1>1, <1>2, InHand DEF IInv
<1>4. r \in worktrees /\ launcher[r] = NoRun /\ records[r] = NoRecord
  BY <1>1, <1>2, <1>3 DEF WatcherOK, Busy, Unrecorded
<1>5. CASE Save(r, RecordOf("launching", FALSE, w)) /\ Goto(w, "recount")
  <2>1. /\ records' \in [Runs -> Record]
        /\ \A q \in Runs \ {r} : records'[q] = records[q]
        /\ records'[r] # NoRecord /\ records'[r].state = "launching"
        /\ records'[r].watcher = w
    BY <1>3, <1>5, SaveWithout
  <2>3. /\ watchers' \in [Watchers -> [pc : Positions, run : Runs \cup {NoRun}]]
        /\ watchers'[w].pc = "recount" /\ watchers'[w].run = r
        /\ \A v \in Watchers \ {w} : watchers'[v] = watchers[v]
    BY <1>1, <1>3, <1>5, GotoMoves DEF Positions
  <2>4. TypeOK' /\ OnlyRun(w)
    BY <1>1, <1>3, <2>1, <2>3 DEF SaveLaunching, TypeOK, OnlyRun
  <2>5. WatcherOK(w)'
    BY <1>3, <1>4, <2>1, <2>3 DEF SaveLaunching, WatcherOK, Busy, Unrecorded, Reserved
  <2>6. RunOK(r)'
    BY <1>3, <2>1 DEF SaveLaunching, RunOK, Findable
  <2>7. r \notin Approved'
    BY <1>1, <1>4, <2>3, <1>2, InHand DEF SaveLaunching, Approved, At, IInv
  <2> QED
    BY <1>1, <1>2, <2>4, <2>5, <2>6, <2>7, BusyInvariant DEF SaveLaunching
<1>6. CASE Goto(w, "unrecorded") /\ UNCHANGED records
  <2>3. /\ watchers' \in [Watchers -> [pc : Positions, run : Runs \cup {NoRun}]]
        /\ watchers'[w].pc = "unrecorded" /\ watchers'[w].run = r
        /\ \A v \in Watchers \ {w} : watchers'[v] = watchers[v]
    BY <1>1, <1>3, <1>6, GotoMoves DEF Positions
  <2>4. TypeOK' /\ OnlyRun(w)
    BY <1>1, <1>3, <1>6, <2>3 DEF SaveLaunching, TypeOK, OnlyRun
  <2>5. WatcherOK(w)'
    BY <1>3, <1>4, <1>6, <2>3 DEF SaveLaunching, WatcherOK, Busy, Unrecorded, Reserved
  <2>6. RunOK(r)'
    BY <1>3, <2>3 DEF SaveLaunching, RunOK, Findable
  <2>7. r \notin Approved'
    BY <1>4, <1>6 DEF SaveLaunching, Approved, Recorded
  <2> QED
    BY <1>1, <1>2, <2>4, <2>5, <2>6, <2>7, BusyInvariant DEF SaveLaunching
<1> QED
  BY <1>1, <1>5, <1>6 DEF SaveLaunching

LEMMA UndoUnrecordedKeeps ==
  ASSUME IInv, NEW w \in Watchers, UndoUnrecorded(w)
  PROVE  IInv'
<1>1. PICK r : r = watchers[w].run
  OBVIOUS
<1>2. watchers[w].pc = "unrecorded" /\ watchers[w].pc \in Busy
  BY DEF UndoUnrecorded, At, Busy, Unrecorded
<1>3. /\ r \in Runs /\ TypeOK /\ WatcherOK(w) /\ RunOK(r)
      /\ r \notin groups
      /\ \A v \in Watchers : watchers[v].run = r => v = w
  BY <1>1, <1>2, InHand DEF IInv
<1>4. launcher[r] = NoRun /\ records[r] = NoRecord
  BY <1>1, <1>2, <1>3 DEF WatcherOK, Unrecorded
<1>5. worktrees' \in {worktrees, worktrees \ {r}}
  BY <1>1 DEF UndoUnrecorded
<1>6. PICK pc \in {"round", "lost"} : Goto(w, pc)
  BY DEF UndoUnrecorded
<1>7. /\ watchers' \in [Watchers -> [pc : Positions, run : Runs \cup {NoRun}]]
      /\ watchers'[w].pc = pc /\ watchers'[w].run = r
      /\ \A v \in Watchers \ {w} : watchers'[v] = watchers[v]
  BY <1>1, <1>3, <1>6, GotoMoves DEF Positions
<1>8. /\ records' \in [Runs -> Record]
      /\ \A q \in Runs \ {r} : records'[q] = records[q]
      /\ records'[r] # NoRecord => records'[r].watcher = w
  <2>1. CASE UNCHANGED records
    BY <1>3, <1>4, <2>1 DEF TypeOK
  <2>2. CASE Save(r, RecordOf("retained", FALSE, w))
    BY <1>3, <2>2, SaveWithout
  <2> QED
    BY <1>1, <2>1, <2>2 DEF UndoUnrecorded
<1>9. r \in worktrees' => records'[r] # NoRecord \/ pc = "lost"
  <2>1. CASE r \notin worktrees'
    BY <2>1
  <2>2. CASE Save(r, RecordOf("retained", FALSE, w))
    BY <1>3, <2>2, SaveWithout
  <2>3. CASE Goto(w, "lost")
    BY <1>3, <1>7, <2>3, GotoMoves DEF Positions
  <2> QED
    BY <1>1, <2>1, <2>2, <2>3 DEF UndoUnrecorded
<1>10. TypeOK' /\ OnlyRun(w)
  BY <1>1, <1>3, <1>5, <1>7, <1>8 DEF UndoUnrecorded, TypeOK, OnlyRun
<1>11. WatcherOK(w)'
  BY <1>3, <1>4, <1>7, <1>8 DEF UndoUnrecorded, WatcherOK, Busy, Unrecorded, Reserved
<1>12. RunOK(r)'
  BY <1>3, <1>7, <1>9 DEF UndoUnrecorded, RunOK, Findable
<1>13. r \notin Approved'
  BY <1>1, <1>3, <1>4, <1>7 DEF UndoUnrecorded, Approved, At
<1> QED
  BY <1>1, <1>2, <1>10, <1>11, <1>12, <1>13, BusyInvariant DEF UndoUnrecorded

LEMMA RecountKeeps ==
  ASSUME IInv, NEW w \in Watchers, Recount(w)
  PROVE  IInv'
<1>1. PICK r : r = watchers[w].run
  OBVIOUS
<1>2. watchers[w].pc = "recount" /\ watchers[w].pc \in Busy
  BY DEF Recount, At, Busy, Reserved
<1>3. /\ r \in Runs /\ TypeOK /\ WatcherOK(w) /\ RunOK(r)
      /\ r \in groups => launcher[r] = w /\ "recount" \in {"started", "supervise"}
      /\ \A v \in Watchers : watchers[v].run = r => v = w
  BY <1>1, <1>2, InHand DEF IInv
<1>4. /\ records[r] # NoRecord /\ records[r].state # "retained"
      /\ records[r].watcher = w
      /\ r \in worktrees /\ launcher[r] = NoRun
  BY <1>1, <1>2, <1>3 DEF WatcherOK, Busy, Unrecorded, Reserved
<1>15. ~OverLimit({})
  BY FS_EmptySet, LimitIsNatural DEF OverLimit
<1>0. \/ Goto(w, "discard") /\ UNCHANGED excess
      \/ \E listed : LetThrough(w, listed) /\ ~OverLimit(listed)
  BY <1>15 DEF Recount
<1>5. PICK pc \in {"launch", "discard"} : Goto(w, pc)
  BY <1>0 DEF LetThrough
<1>13. excess' \in {excess, excess \cup {r}}
  BY <1>0, <1>1 DEF LetThrough
<1>6. /\ watchers' \in [Watchers -> [pc : Positions, run : Runs \cup {NoRun}]]
      /\ watchers'[w].pc = pc /\ watchers'[w].run = r
      /\ \A v \in Watchers \ {w} : watchers'[v] = watchers[v]
  BY <1>1, <1>3, <1>5, GotoMoves DEF Positions
<1>7. TypeOK' /\ OnlyRun(w) /\ excess \subseteq excess'
  BY <1>1, <1>3, <1>6, <1>13 DEF Recount, TypeOK, OnlyRun
<1>8. WatcherOK(w)'
  BY <1>3, <1>4, <1>6 DEF Recount, WatcherOK, Busy, Unrecorded, Reserved
<1>9. RunOK(r)'
  BY <1>3, <1>4 DEF Recount, RunOK, Findable
<1>10. CASE Goto(w, "discard")
  <2>1. r \notin Approved'
    BY <1>3, <1>4, <1>6, <1>10, GotoMoves DEF Recount, Approved, At, Positions
  <2> QED
    BY <1>1, <1>2, <1>7, <1>8, <1>9, <2>1, BusyInvariant
<1>11. CASE r \in excess'
  <2>1. r \notin Approved'
    BY <1>11 DEF Approved
  <2> QED
    BY <1>1, <1>2, <1>7, <1>8, <1>9, <2>1, BusyInvariant
<1>12. CASE ~OverLimit(Recorded)
  <2>1. Shape'
    BY <1>1, <1>2, <1>7, <1>8, <1>9, BusyStep DEF IInv
  <2>2. Recorded' = Recorded
    BY DEF Recount, Recorded
  <2>3. Cardinality(Recorded) \in Nat /\ Cardinality(Recorded) <= MaxRetained
    BY <1>12, ApprovedFinite, LimitIsNatural DEF OverLimit
  <2>4. Approved' \subseteq Recorded
    BY <2>2 DEF Approved
  <2>5. IsFiniteSet(Approved') /\ Cardinality(Approved') <= Cardinality(Recorded)
    BY <2>4, ApprovedFinite, FS_Subset
  <2>6. Cardinality(Approved') \in Nat
    BY <2>5, FS_CardinalityType
  <2> QED
    BY <2>1, <2>3, <2>5, <2>6, LimitIsNatural DEF IInv
<1>14. ASSUME NEW listed, LetThrough(w, listed), ~OverLimit(listed), OverLimit(Recorded)
       PROVE  r \in excess'
  <2>1. listed # Recorded
    BY <1>14
  <2> QED
    BY <1>1, <1>14, <2>1 DEF LetThrough
<1> QED
  BY <1>0, <1>10, <1>11, <1>12, <1>14

LEMMA StartExecutorKeeps ==
  ASSUME IInv, NEW w \in Watchers, StartExecutor(w)
  PROVE  IInv'
<1>1. PICK r : r = watchers[w].run
  OBVIOUS
<1>2. watchers[w].pc = "launch" /\ watchers[w].pc \in Busy
  BY DEF StartExecutor, At, Busy, Reserved
<1>3. /\ r \in Runs /\ TypeOK /\ WatcherOK(w) /\ RunOK(r)
      /\ r \in groups => launcher[r] = w /\ "launch" \in {"started", "supervise"}
      /\ \A v \in Watchers : watchers[v].run = r => v = w
  BY <1>1, <1>2, InHand DEF IInv
<1>4. /\ records[r] # NoRecord /\ records[r].state # "retained"
      /\ records[r].watcher = w
      /\ r \in worktrees /\ launcher[r] = NoRun
  BY <1>1, <1>2, <1>3 DEF WatcherOK, Busy, Unrecorded, Reserved
<1>5. r \in Approved' => r \in Approved
  BY <1>1, <1>2, <1>3, <1>4 DEF StartExecutor, Approved, Recorded, At
<1>6. CASE groups' = groups \cup {r} /\ launcher' = [launcher EXCEPT ![r] = w] /\ Goto(w, "started")
  <2>1. /\ watchers' \in [Watchers -> [pc : Positions, run : Runs \cup {NoRun}]]
        /\ watchers'[w].pc = "started" /\ watchers'[w].run = r
        /\ \A v \in Watchers \ {w} : watchers'[v] = watchers[v]
    BY <1>1, <1>3, <1>6, GotoMoves DEF Positions
  <2>2. /\ launcher' \in [Runs -> Watchers \cup {NoRun}] /\ launcher'[r] = w
        /\ \A q \in Runs \ {r} : launcher'[q] = launcher[q]
    BY <1>3, <1>6 DEF TypeOK
  <2>3. TypeOK' /\ OnlyRun(w)
    BY <1>1, <1>3, <1>6, <2>1, <2>2 DEF StartExecutor, TypeOK, OnlyRun
  <2>4. WatcherOK(w)'
    BY <1>3, <1>4, <2>1 DEF StartExecutor, WatcherOK, Busy, Unrecorded, Reserved
  <2>5. RunOK(r)'
    BY <1>3, <1>4, <2>1, <2>2 DEF StartExecutor, RunOK, Findable, GroupOK, Kept
  <2> QED
    BY <1>1, <1>2, <1>5, <2>3, <2>4, <2>5, BusyInvariant DEF StartExecutor
<1>7. CASE Goto(w, "discard") /\ UNCHANGED <<groups, launcher>>
  <2>1. /\ watchers' \in [Watchers -> [pc : Positions, run : Runs \cup {NoRun}]]
        /\ watchers'[w].pc = "discard" /\ watchers'[w].run = r
        /\ \A v \in Watchers \ {w} : watchers'[v] = watchers[v]
    BY <1>1, <1>3, <1>7, GotoMoves DEF Positions
  <2>2. TypeOK' /\ OnlyRun(w)
    BY <1>1, <1>3, <1>7, <2>1 DEF StartExecutor, TypeOK, OnlyRun
  <2>3. WatcherOK(w)'
    BY <1>3, <1>4, <2>1 DEF StartExecutor, WatcherOK, Busy, Unrecorded, Reserved
  <2>4. RunOK(r)'
    BY <1>3, <1>4, <1>7 DEF StartExecutor, RunOK, Findable
  <2> QED
    BY <1>1, <1>2, <1>5, <2>2, <2>3, <2>4, BusyInvariant DEF StartExecutor
<1> QED
  BY <1>1, <1>6, <1>7 DEF StartExecutor

LEMMA SaveWorkingKeeps ==
  ASSUME IInv, NEW w \in Watchers, SaveWorking(w)
  PROVE  IInv'
<1>1. PICK r : r = watchers[w].run
  OBVIOUS
<1>2. watchers[w].pc = "started" /\ watchers[w].pc \in Busy
  BY DEF SaveWorking, At, Busy, Reserved
<1>3. /\ r \in Runs /\ TypeOK /\ WatcherOK(w) /\ RunOK(r)
      /\ r \in groups => launcher[r] = w /\ "started" \in {"started", "supervise"}
      /\ \A v \in Watchers : watchers[v].run = r => v = w
  BY <1>1, <1>2, InHand DEF IInv
<1>4. /\ records[r] # NoRecord /\ records[r].state # "retained"
      /\ records[r].watcher = w
      /\ r \in worktrees
  BY <1>1, <1>2, <1>3 DEF WatcherOK, Busy, Unrecorded, Reserved
<1>5. PICK pc \in {"supervise", "round", "stopped"} :
        /\ Goto(w, pc)
        /\ r \in groups => pc # "round"
        /\ pc = "supervise" => Save(r, RecordOf("working", TRUE, w))
        /\ pc # "supervise" => UNCHANGED records
  BY <1>1 DEF SaveWorking, GroupStopped
<1>6. /\ watchers' \in [Watchers -> [pc : Positions, run : Runs \cup {NoRun}]]
      /\ watchers'[w].pc = pc /\ watchers'[w].run = r
      /\ \A v \in Watchers \ {w} : watchers'[v] = watchers[v]
  BY <1>1, <1>3, <1>5, GotoMoves DEF Positions
<1>7. /\ records' \in [Runs -> Record]
      /\ \A q \in Runs \ {r} : records'[q] = records[q]
      /\ records'[r] # NoRecord /\ records'[r].watcher = w /\ records'[r].state # "retained"
  <2>1. CASE pc = "supervise"
    BY <1>3, <1>5, <2>1, SaveWith
  <2>2. CASE pc # "supervise"
    BY <1>3, <1>4, <1>5, <2>2 DEF TypeOK
  <2> QED
    BY <2>1, <2>2
<1>8. TypeOK' /\ OnlyRun(w)
  BY <1>1, <1>3, <1>6, <1>7 DEF SaveWorking, TypeOK, OnlyRun
<1>9. WatcherOK(w)'
  BY <1>3, <1>4, <1>6, <1>7 DEF SaveWorking, WatcherOK, Busy, Unrecorded, Reserved
<1>10. RunOK(r)'
  BY <1>3, <1>4, <1>5, <1>6, <1>7 DEF SaveWorking, RunOK, Findable, GroupOK, Kept
<1>11. r \in Approved' => r \in Approved
  BY <1>3, <1>4, <1>6 DEF SaveWorking, Approved, Recorded, At
<1> QED
  BY <1>1, <1>2, <1>8, <1>9, <1>10, <1>11, BusyInvariant DEF SaveWorking

LEMMA EndDisposableKeeps ==
  ASSUME IInv, NEW w \in Watchers, EndDisposable(w)
  PROVE  IInv'
<1>1. PICK r : r = watchers[w].run
  OBVIOUS
<1>2. watchers[w].pc = "supervise" /\ watchers[w].pc \in Busy
  BY DEF EndDisposable, At, Busy, Reserved
<1>3. /\ r \in Runs /\ TypeOK /\ WatcherOK(w) /\ RunOK(r)
      /\ r \in groups => launcher[r] = w /\ "supervise" \in {"started", "supervise"}
      /\ \A v \in Watchers : watchers[v].run = r => v = w
  BY <1>1, <1>2, InHand DEF IInv
<1>4. /\ records[r] # NoRecord /\ records[r].state # "retained"
      /\ records[r].watcher = w
      /\ r \in worktrees
  BY <1>1, <1>2, <1>3 DEF WatcherOK, Busy, Unrecorded, Reserved
<1>5. /\ watchers' \in [Watchers -> [pc : Positions, run : Runs \cup {NoRun}]]
      /\ watchers'[w].pc = "discard" /\ watchers'[w].run = r
      /\ \A v \in Watchers \ {w} : watchers'[v] = watchers[v]
  BY <1>1, <1>3, GotoMoves DEF EndDisposable, Positions
<1>6. r \notin groups
  BY <1>1 DEF EndDisposable, GroupStopped
<1>7. TypeOK' /\ OnlyRun(w)
  BY <1>1, <1>3, <1>5 DEF EndDisposable, TypeOK, OnlyRun
<1>8. WatcherOK(w)'
  BY <1>3, <1>4, <1>5 DEF EndDisposable, WatcherOK, Busy, Unrecorded, Reserved
<1>9. RunOK(r)'
  BY <1>4, <1>6 DEF EndDisposable, RunOK, Findable
<1>10. r \in Approved' => r \in Approved
  BY <1>3, <1>4, <1>5 DEF EndDisposable, Approved, Recorded, At
<1> QED
  BY <1>1, <1>2, <1>7, <1>8, <1>9, <1>10, BusyInvariant DEF EndDisposable

LEMMA EndRetainedKeeps ==
  ASSUME IInv, NEW w \in Watchers, EndRetained(w)
  PROVE  IInv'
<1>1. PICK r : r = watchers[w].run
  OBVIOUS
<1>2. watchers[w].pc = "supervise" /\ watchers[w].pc \in Busy
  BY DEF EndRetained, At, Busy, Reserved
<1>3. /\ r \in Runs /\ TypeOK /\ WatcherOK(w) /\ RunOK(r)
      /\ r \in groups => launcher[r] = w /\ "supervise" \in {"started", "supervise"}
      /\ \A v \in Watchers : watchers[v].run = r => v = w
  BY <1>1, <1>2, InHand DEF IInv
<1>4. /\ records[r] # NoRecord /\ records[r].state # "retained"
      /\ records[r].watcher = w
      /\ r \in worktrees
  BY <1>1, <1>2, <1>3 DEF WatcherOK, Busy, Unrecorded, Reserved
<1>5. PICK pc \in {"round", "stopped"} : Goto(w, pc) /\ (r \in groups => pc = "stopped")
  BY <1>1 DEF EndRetained, GroupStopped, AfterSurvivor
<1>6. /\ watchers' \in [Watchers -> [pc : Positions, run : Runs \cup {NoRun}]]
      /\ watchers'[w].pc = pc /\ watchers'[w].run = r
      /\ \A v \in Watchers \ {w} : watchers'[v] = watchers[v]
  BY <1>1, <1>3, <1>5, GotoMoves DEF Positions
<1>7. /\ records' \in [Runs -> Record]
      /\ \A q \in Runs \ {r} : records'[q] = records[q]
      /\ records'[r] # NoRecord /\ records'[r].watcher = w
      /\ r \in groups /\ records'[r].state = "retained" => records'[r].group
  <2>1. CASE UNCHANGED records
    BY <1>3, <1>4, <2>1 DEF TypeOK
  <2>2. CASE r \in groups /\ Save(r, RecordOf("retained", TRUE, w))
    BY <1>3, <2>2, SaveWith
  <2>3. CASE r \notin groups /\ Save(r, RecordOf("retained", FALSE, w))
    BY <1>3, <2>3, SaveWithout
  <2>4. CASE Save(r, RecordOf("retained", ~GroupStopped(r), w))
    <3>1. (~GroupStopped(r)) = TRUE \/ (~GroupStopped(r)) = FALSE
      BY Zenon
    <3>2. CASE (~GroupStopped(r)) = TRUE
      <4>1. RecordOf("retained", ~GroupStopped(r), w) = RecordOf("retained", TRUE, w)
        BY <3>2, Zenon
      <4>2. r \in groups
        BY <3>2 DEF GroupStopped
      <4> QED
        BY <2>2, <2>4, <4>1, <4>2
    <3>3. CASE (~GroupStopped(r)) = FALSE
      <4>1. RecordOf("retained", ~GroupStopped(r), w) = RecordOf("retained", FALSE, w)
        BY <3>3, Zenon
      <4>2. r \notin groups
        BY <3>3 DEF GroupStopped
      <4> QED
        BY <2>3, <2>4, <4>1, <4>2
    <3> QED
      BY <3>1, <3>2, <3>3
  <2> QED
    BY <1>1, <2>1, <2>4 DEF EndRetained
<1>8. TypeOK' /\ OnlyRun(w)
  BY <1>1, <1>3, <1>6, <1>7 DEF EndRetained, TypeOK, OnlyRun
<1>9. WatcherOK(w)'
  BY <1>3, <1>4, <1>6, <1>7 DEF EndRetained, WatcherOK, Busy, Unrecorded, Reserved
<1>10. RunOK(r)'
  BY <1>3, <1>4, <1>5, <1>6, <1>7 DEF EndRetained, RunOK, Findable, GroupOK, Kept
<1>11. r \in Approved' => r \in Approved
  BY <1>3, <1>4, <1>6 DEF EndRetained, Approved, Recorded, At
<1> QED
  BY <1>1, <1>2, <1>8, <1>9, <1>10, <1>11, BusyInvariant DEF EndRetained

LEMMA DiscardKeeps ==
  ASSUME IInv, NEW w \in Watchers, Discard(w)
  PROVE  IInv'
<1>1. PICK r : r = watchers[w].run
  OBVIOUS
<1>2. watchers[w].pc = "discard" /\ watchers[w].pc \in Busy
  BY DEF Discard, At, Busy, Reserved
<1>3. /\ r \in Runs /\ TypeOK /\ WatcherOK(w) /\ RunOK(r)
      /\ r \in groups => launcher[r] = w /\ "discard" \in {"started", "supervise"}
      /\ \A v \in Watchers : watchers[v].run = r => v = w
  BY <1>1, <1>2, InHand DEF IInv
<1>4. /\ records[r] # NoRecord /\ records[r].state # "retained"
      /\ records[r].watcher = w
      /\ r \in worktrees
  BY <1>1, <1>2, <1>3 DEF WatcherOK, Busy, Unrecorded, Reserved
<1>5. PICK pc \in {"forget", "round"} :
        /\ Goto(w, pc)
        /\ pc = "forget" => r \notin worktrees' /\ UNCHANGED records
        /\ pc = "round" => KeepAfterFailure(r, w)
  BY <1>1 DEF Discard
<1>6. /\ watchers' \in [Watchers -> [pc : Positions, run : Runs \cup {NoRun}]]
      /\ watchers'[w].pc = pc /\ watchers'[w].run = r
      /\ \A v \in Watchers \ {w} : watchers'[v] = watchers[v]
  BY <1>1, <1>3, <1>5, GotoMoves DEF Positions
<1>7. worktrees' \in {worktrees, worktrees \ {r}}
  BY <1>1 DEF Discard
<1>8. /\ records' \in [Runs -> Record]
      /\ \A q \in Runs \ {r} : records'[q] = records[q]
      /\ records'[r] # NoRecord /\ records'[r].watcher = w
      /\ pc = "forget" => records'[r].state # "retained"
  <2>1. CASE UNCHANGED records
    BY <1>3, <1>4, <2>1 DEF TypeOK
  <2>2. CASE pc # "forget" /\ Save(r, RecordOf("retained", FALSE, w))
    BY <1>3, <2>2, SaveWithout
  <2> QED
    BY <1>5, <2>1, <2>2 DEF KeepAfterFailure
<1>9. TypeOK' /\ OnlyRun(w)
  BY <1>1, <1>3, <1>6, <1>7, <1>8 DEF Discard, TypeOK, OnlyRun
<1>10. WatcherOK(w)'
  BY <1>3, <1>5, <1>6, <1>8 DEF Discard, WatcherOK, Busy, Unrecorded, Reserved
<1>11. RunOK(r)'
  BY <1>3, <1>8 DEF Discard, RunOK, Findable
<1>12. r \in Approved' => r \in Approved
  BY <1>3, <1>4, <1>6 DEF Discard, Approved, Recorded, At
<1> QED
  BY <1>1, <1>2, <1>9, <1>10, <1>11, <1>12, BusyInvariant DEF Discard

LEMMA ForgetKeeps ==
  ASSUME IInv, NEW w \in Watchers, Forget(w)
  PROVE  IInv'
<1>1. PICK r : r = watchers[w].run
  OBVIOUS
<1>2. watchers[w].pc = "forget" /\ watchers[w].pc \in Busy
  BY DEF Forget, At, Busy, Reserved
<1>3. /\ r \in Runs /\ TypeOK /\ WatcherOK(w) /\ RunOK(r)
      /\ r \in groups => launcher[r] = w /\ "forget" \in {"started", "supervise"}
      /\ \A v \in Watchers : watchers[v].run = r => v = w
  BY <1>1, <1>2, InHand DEF IInv
<1>4. /\ records[r] # NoRecord /\ records[r].state # "retained"
      /\ records[r].watcher = w
      /\ r \notin worktrees
  BY <1>1, <1>2, <1>3 DEF WatcherOK, Busy, Unrecorded, Reserved
<1>5. PICK pc \in {"round", "stopped"} : Goto(w, pc)
  BY DEF Forget
<1>6. /\ watchers' \in [Watchers -> [pc : Positions, run : Runs \cup {NoRun}]]
      /\ watchers'[w].pc = pc /\ watchers'[w].run = r
      /\ \A v \in Watchers \ {w} : watchers'[v] = watchers[v]
  BY <1>1, <1>3, <1>5, GotoMoves DEF Positions
<1>7. /\ records' \in [Runs -> Record]
      /\ \A q \in Runs \ {r} : records'[q] = records[q]
      /\ records'[r] # NoRecord => records'[r].watcher = w
  <2>1. CASE UNCHANGED records
    BY <1>3, <1>4, <2>1 DEF TypeOK
  <2>2. CASE Save(r, NoRecord)
    BY <1>3, <2>2, SaveWrites DEF Record
  <2> QED
    BY <1>1, <2>1, <2>2 DEF Forget
<1>8. TypeOK' /\ OnlyRun(w)
  BY <1>1, <1>3, <1>6, <1>7 DEF Forget, TypeOK, OnlyRun
<1>9. WatcherOK(w)'
  BY <1>3, <1>4, <1>6, <1>7 DEF Forget, WatcherOK, Busy, Unrecorded, Reserved
<1>10. RunOK(r)'
  BY <1>3, <1>4 DEF Forget, RunOK
<1>11. r \in Approved' => r \in Approved
  BY <1>3, <1>4, <1>6 DEF Forget, Approved, Recorded, At
<1> QED
  BY <1>1, <1>2, <1>8, <1>9, <1>10, <1>11, BusyInvariant DEF Forget

-----------------------------------------------------------------------------
(* The steps of a watcher without a run in hand, and crashes.               *)

\* A watcher that only moves: to the next round or card, which it does with no
\* live group of its own, or out of the program, at any point.
LEMMA MoveKeeps ==
  ASSUME IInv, NEW w \in Watchers, NEW pc \in {"round", "create", "stopped", "lost"}, Goto(w, pc),
         pc \in {"round", "create"} => watchers[w].pc \in {"round", "create"},
         watchers[w].pc # "lost",
         pc = "lost" <=> watchers[w].pc \in Unrecorded,
         UNCHANGED <<records, worktrees, groups, launcher, excess, cleaner>>,
         used \subseteq used', used' \subseteq Runs
  PROVE  IInv'
<1>1. /\ TypeOK /\ Fresh /\ CleanerOK
      /\ \A v \in Watchers : WatcherOK(v)
      /\ \A q \in Runs : RunOK(q)
  BY DEF IInv, Shape
<1>2. /\ watchers' \in [Watchers -> [pc : Positions, run : Runs \cup {NoRun}]]
      /\ watchers'[w].pc = pc /\ watchers'[w].run = watchers[w].run
      /\ \A v \in Watchers \ {w} : watchers'[v] = watchers[v]
  BY <1>1, GotoMoves DEF Positions
<1>3. TypeOK'
  BY <1>1, <1>2 DEF TypeOK
<1>4. Fresh'
  BY <1>1, <1>2 DEF Fresh
<1>5. ASSUME NEW v \in Watchers PROVE WatcherOK(v)'
  <2>1. CASE v # w
    BY <1>1, <1>2, <2>1 DEF WatcherOK
  <2>2. CASE v = w
    BY <1>1, <1>2, <2>2 DEF WatcherOK, Busy, Unrecorded, Reserved
  <2> QED
    BY <2>1, <2>2
<1>6. CleanerOK'
  BY <1>1, <1>2 DEF CleanerOK, Busy, Unrecorded, Reserved
<1>7. ASSUME NEW q \in Runs PROVE RunOK(q)'
  <2>1. q \in worktrees' => Findable(q)'
    BY <1>1, <1>2 DEF RunOK, Findable, Unrecorded
  <2>2. ASSUME q \in groups PROVE GroupOK(q)' /\ Kept(q)'
    <3>1. GroupOK(q) /\ Kept(q)
      BY <1>1, <2>2 DEF RunOK
    <3>2. CASE launcher[q] # w
      BY <1>2, <3>1, <3>2 DEF GroupOK, Kept, ProcessAlive
    <3>3. CASE launcher[q] = w
      BY <1>2, <3>1, <3>3 DEF GroupOK, Kept, ProcessAlive, Unrecorded
    <3> QED
      BY <3>2, <3>3
  <2> QED
    BY <2>1, <2>2 DEF RunOK
<1>8. Approved' \subseteq Approved
  BY <1>2 DEF Approved, Recorded, At
<1> QED
  BY <1>3, <1>4, <1>5, <1>6, <1>7, <1>8, FewerApproved DEF IInv, Shape

LEMMA MovesKeep ==
  ASSUME IInv, NEW w \in Watchers, BeginRound(w) \/ Leave(w) \/ Crash(w)
  PROVE  IInv'
<1>1. used \subseteq Runs
  BY DEF IInv, Shape, TypeOK
<1>2. CASE BeginRound(w)
  <2>1. PICK pc \in {"create", "stopped"} : Goto(w, pc)
    BY <1>2 DEF BeginRound
  <2> QED
    BY <1>1, <1>2, <2>1, MoveKeeps DEF BeginRound, At, Unrecorded
<1>3. CASE Leave(w)
  BY <1>1, <1>3, MoveKeeps DEF Leave, At, Unrecorded
<1>4. CASE Crash(w)
  <2>1. PICK pc \in {"stopped", "lost"} :
          Goto(w, pc) /\ (pc = "lost" <=> watchers[w].pc \in Unrecorded)
    BY <1>4 DEF Crash, Unrecorded
  <2> QED
    BY <1>1, <1>4, <2>1, MoveKeeps DEF Crash, ProcessAlive
<1> QED
  BY <1>2, <1>3, <1>4

LEMMA CreateWorktreeKeeps ==
  ASSUME IInv, NEW w \in Watchers, NEW r \in Runs, CreateWorktree(w, r)
  PROVE  IInv'
<1>1. /\ TypeOK /\ Fresh /\ CleanerOK
      /\ \A v \in Watchers : WatcherOK(v)
      /\ \A q \in Runs : RunOK(q)
  BY DEF IInv, Shape
<1>2. CASE Goto(w, "round") /\ UNCHANGED worktrees
  BY <1>1, <1>2, MoveKeeps DEF CreateWorktree, At, Unrecorded, TypeOK
<1>3. CASE /\ worktrees' = worktrees \cup {r}
           /\ watchers' = [watchers EXCEPT ![w] = [pc |-> "created", run |-> r]]
  <2>1. /\ watchers' \in [Watchers -> [pc : Positions, run : Runs \cup {NoRun}]]
        /\ watchers'[w].pc = "created" /\ watchers'[w].run = r
        /\ \A v \in Watchers \ {w} : watchers'[v] = watchers[v]
    BY <1>1, <1>3 DEF TypeOK, Positions
  <2>2. /\ r \notin used /\ records[r] = NoRecord /\ r \notin worktrees
        /\ r \notin groups /\ launcher[r] = NoRun
        /\ \A v \in Watchers : watchers[v].run # r
    BY <1>1, RunsFinite DEF CreateWorktree, Fresh
  <2>3. TypeOK'
    BY <1>1, <1>3, <2>1 DEF CreateWorktree, TypeOK
  <2>4. Fresh'
    <3>1. \A q \in Runs \ used' :
            /\ records'[q] = NoRecord /\ q \notin worktrees'
            /\ q \notin groups' /\ launcher'[q] = NoRun
      BY <1>1, <1>3 DEF CreateWorktree, Fresh
    <3>2. \A v \in Watchers : watchers'[v].run \in used' \cup {NoRun}
      BY <1>1, <2>1 DEF CreateWorktree, Fresh
    <3>3. \A v, u \in Watchers :
            watchers'[v].run \in Runs /\ watchers'[v].run = watchers'[u].run => v = u
      BY <1>1, <2>1, <2>2 DEF Fresh
    <3> QED
      BY <3>1, <3>2, <3>3 DEF Fresh
  <2>5. ASSUME NEW v \in Watchers PROVE WatcherOK(v)'
    <3>1. CASE v # w
      <4>1. watchers'[v] = watchers[v] /\ watchers[v].run # r
        BY <2>1, <2>2, <3>1
      <4> QED
        BY <1>1, <1>3, <4>1 DEF WatcherOK, CreateWorktree
    <3>2. CASE v = w
      BY <1>3, <2>1, <2>2, <3>2 DEF WatcherOK, CreateWorktree, Busy, Unrecorded, Reserved
    <3> QED
      BY <3>1, <3>2
  <2>6. CleanerOK'
    <3>1. cleaner.pc # "idle" => cleaner.run # r
      BY <1>1, <2>2 DEF CleanerOK
    <3> QED
      BY <1>1, <1>3, <2>1, <3>1 DEF CleanerOK, CreateWorktree
  <2>7. ASSUME NEW q \in Runs PROVE RunOK(q)'
    <3>1. q \in worktrees' => Findable(q)'
      <4>1. CASE q = r
        BY <2>1, <4>1 DEF Findable
      <4>2. CASE q # r
        BY <1>1, <1>3, <2>1, <4>2 DEF CreateWorktree, RunOK, Findable, At
      <4> QED
        BY <4>1, <4>2
    <3>2. ASSUME q \in groups PROVE GroupOK(q)' /\ Kept(q)'
      <4>1. GroupOK(q) /\ Kept(q)
        BY <1>1, <3>2 DEF RunOK
      <4>2. launcher[q] # w
        BY <4>1 DEF GroupOK, CreateWorktree, At
      <4> QED
        BY <1>3, <2>1, <4>1, <4>2 DEF CreateWorktree, GroupOK, Kept, ProcessAlive
    <3> QED
      BY <3>1, <3>2 DEF RunOK, CreateWorktree
  <2>8. Approved' \subseteq Approved
    BY <2>1 DEF CreateWorktree, Approved, Recorded, At
  <2> QED
    BY <2>3, <2>4, <2>5, <2>6, <2>7, <2>8, FewerApproved DEF IInv, Shape
<1> QED
  BY <1>2, <1>3 DEF CreateWorktree

-----------------------------------------------------------------------------
(* Process groups and the operator.                                         *)

LEMMA GroupEndsKeeps ==
  ASSUME IInv, NEW r \in Runs, GroupEnds(r)
  PROVE  IInv'
<1>1. /\ TypeOK /\ Fresh /\ CleanerOK
      /\ \A v \in Watchers : WatcherOK(v)
      /\ \A q \in Runs : RunOK(q)
  BY DEF IInv, Shape
<1> USE DEF GroupEnds
<1>2. TypeOK' /\ Fresh' /\ CleanerOK'
  BY <1>1 DEF TypeOK, Fresh, CleanerOK
<1>3. \A v \in Watchers : WatcherOK(v)'
  BY <1>1 DEF WatcherOK
<1>4. \A q \in Runs : RunOK(q)'
  BY <1>1 DEF RunOK, Findable, GroupOK, Kept, ProcessAlive
<1>5. Approved' \subseteq Approved
  BY DEF Approved, Recorded, At
<1> QED
  BY <1>2, <1>3, <1>4, <1>5, FewerApproved DEF IInv, Shape

LEMMA BeginCleanKeeps ==
  ASSUME IInv, NEW r \in Runs, BeginClean(r)
  PROVE  IInv'
<1>1. /\ TypeOK /\ Fresh /\ CleanerOK
      /\ \A v \in Watchers : WatcherOK(v)
      /\ \A q \in Runs : RunOK(q)
  BY DEF IInv, Shape
<1>2. TypeOK' /\ Fresh'
  BY <1>1 DEF BeginClean, TypeOK, Fresh
<1>3. \A v \in Watchers : WatcherOK(v)'
  BY <1>1 DEF BeginClean, WatcherOK
<1>4. \A q \in Runs : RunOK(q)'
  BY <1>1 DEF BeginClean, RunOK, Findable, GroupOK, Kept, ProcessAlive
<1>5. Approved' \subseteq Approved
  BY DEF BeginClean, Approved, Recorded, At
<1>6. CleanerOK'
  <2>1. r \in used /\ (r \in groups => ~records[r].group)
    BY <1>1 DEF BeginClean, Fresh, MayClean
  <2>2. ASSUME NEW w \in Watchers, watchers[w].run = r, watchers[w].pc \in Busy PROVE FALSE
    <3>1. watchers[w].pc \in Reserved /\ records[r].state # "retained" /\ records[r].watcher = w
      BY <1>1, <2>2 DEF BeginClean, WatcherOK, Busy, Unrecorded
    <3> QED
      BY <3>1 DEF BeginClean, MayClean, ProcessAlive, Reserved
  <2>3. cleaner'.pc = "release" /\ cleaner'.run = r
    BY DEF BeginClean
  <2> QED
    BY <2>1, <2>2, <2>3 DEF BeginClean, CleanerOK
<1> QED
  BY <1>2, <1>3, <1>4, <1>5, <1>6, FewerApproved DEF IInv, Shape

\* The run the operator works on: its watcher is past it, and no group that lives
\* in it is on record.
LEMMA UnderClean ==
  ASSUME Shape, cleaner.pc # "idle", NEW c, c = cleaner.run
  PROVE  /\ c \in Runs /\ c \in used
         /\ \A w \in Watchers : watchers[w].run = c => watchers[w].pc \notin Busy
         /\ c \in groups =>
              /\ ~ProcessAlive(launcher[c])
              /\ records[c] # NoRecord => ~records[c].group
<1>1. /\ TypeOK /\ CleanerOK
      /\ \A q \in Runs : RunOK(q)
  BY DEF Shape
<1>2. c \in Runs /\ c \in used
  BY <1>1 DEF TypeOK, CleanerOK
<1>3. \A w \in Watchers : watchers[w].run = c => watchers[w].pc \notin Busy
  BY <1>1 DEF CleanerOK
<1>4. c \in groups => ~ProcessAlive(launcher[c])
  BY <1>1, <1>2, <1>3 DEF RunOK, GroupOK, ProcessAlive, Busy, Reserved
<1> QED
  BY <1>1, <1>2, <1>3, <1>4 DEF CleanerOK

LEMMA ReleaseWorktreeKeeps ==
  ASSUME IInv, ReleaseWorktree
  PROVE  IInv'
<1>1. /\ TypeOK /\ Fresh /\ CleanerOK
      /\ \A v \in Watchers : WatcherOK(v)
      /\ \A q \in Runs : RunOK(q)
  BY DEF IInv, Shape
<1>2. PICK c : c = cleaner.run
  OBVIOUS
<1>3. /\ c \in Runs /\ c \in used
      /\ \A w \in Watchers : watchers[w].run = c => watchers[w].pc \notin Busy
      /\ c \in groups =>
           /\ ~ProcessAlive(launcher[c])
           /\ records[c] # NoRecord => ~records[c].group
  BY <1>2, UnderClean DEF IInv, ReleaseWorktree
<1>4. worktrees' \in {worktrees, worktrees \ {c}}
  BY <1>2 DEF ReleaseWorktree
<1>5. /\ cleaner' \in [pc : {"idle", "release", "remove"}, run : Runs \cup {NoRun}]
      /\ cleaner'.pc # "idle" => cleaner'.run = c /\ c \notin worktrees'
  BY <1>1, <1>2, <1>3 DEF ReleaseWorktree, TypeOK
<1>6. TypeOK'
  BY <1>1, <1>4, <1>5 DEF ReleaseWorktree, TypeOK
<1>7. Fresh'
  BY <1>1, <1>4 DEF ReleaseWorktree, Fresh
<1>8. ASSUME NEW v \in Watchers PROVE WatcherOK(v)'
  <2>1. CASE watchers[v].pc \in Busy
    BY <1>1, <1>3, <1>4, <2>1 DEF ReleaseWorktree, WatcherOK, Busy
  <2>2. CASE watchers[v].pc \notin Busy
    BY <1>1, <2>2 DEF ReleaseWorktree, WatcherOK, Busy, Reserved
  <2> QED
    BY <2>1, <2>2
<1>9. CleanerOK'
  BY <1>3, <1>5 DEF ReleaseWorktree, CleanerOK
<1>10. ASSUME NEW q \in Runs PROVE RunOK(q)'
  <2>1. CASE q # c
    BY <1>1, <1>4, <2>1 DEF ReleaseWorktree, RunOK, Findable, GroupOK, Kept, ProcessAlive
  <2>2. CASE q = c
    BY <1>1, <1>3, <1>4, <2>2 DEF ReleaseWorktree, RunOK, Findable, GroupOK, Kept, ProcessAlive
  <2> QED
    BY <2>1, <2>2
<1>11. Approved' \subseteq Approved
  BY DEF ReleaseWorktree, Approved, Recorded, At
<1> QED
  BY <1>6, <1>7, <1>8, <1>9, <1>10, <1>11, FewerApproved DEF IInv, Shape

LEMMA RemoveRecordKeeps ==
  ASSUME IInv, RemoveRecord
  PROVE  IInv'
<1>1. /\ TypeOK /\ Fresh /\ CleanerOK
      /\ \A v \in Watchers : WatcherOK(v)
      /\ \A q \in Runs : RunOK(q)
  BY DEF IInv, Shape
<1>2. PICK c : c = cleaner.run
  OBVIOUS
<1>3. /\ c \in Runs /\ c \in used
      /\ \A w \in Watchers : watchers[w].run = c => watchers[w].pc \notin Busy
      /\ c \in groups => ~ProcessAlive(launcher[c])
      /\ c \notin worktrees
  BY <1>1, <1>2, UnderClean DEF IInv, RemoveRecord, CleanerOK
<1>4. /\ records' \in [Runs -> Record]
      /\ \A q \in Runs \ {c} : records'[q] = records[q]
      /\ records'[c] \in {NoRecord, records[c]}
  <2>1. CASE Save(c, NoRecord)
    BY <1>1, <1>3, <2>1, SaveWrites DEF Record
  <2>2. CASE UNCHANGED records
    BY <1>1, <2>2 DEF TypeOK
  <2> QED
    BY <1>2, <2>1, <2>2 DEF RemoveRecord
<1>5. cleaner' = [pc |-> "idle", run |-> NoRun]
  BY DEF RemoveRecord
<1>6. TypeOK' /\ CleanerOK'
  BY <1>1, <1>4, <1>5 DEF RemoveRecord, TypeOK, CleanerOK
<1>7. Fresh'
  BY <1>1, <1>3, <1>4 DEF RemoveRecord, Fresh
<1>8. ASSUME NEW v \in Watchers PROVE WatcherOK(v)'
  <2>1. CASE watchers[v].run # c
    <3>1. watchers[v].run \in Runs \/ watchers[v].run = NoRun
      BY <1>1 DEF TypeOK
    <3>2. CASE watchers[v].run \in Runs
      BY <1>1, <1>4, <2>1, <3>2 DEF RemoveRecord, WatcherOK
    <3>3. CASE watchers[v].run = NoRun
      BY <1>1, <3>3, RunsFinite DEF RemoveRecord, WatcherOK, Busy, Unrecorded, Reserved
    <3> QED
      BY <3>1, <3>2, <3>3
  <2>2. CASE watchers[v].run = c
    BY <1>1, <1>3, <1>4, <2>2 DEF RemoveRecord, WatcherOK, Busy
  <2> QED
    BY <2>1, <2>2
<1>9. ASSUME NEW q \in Runs PROVE RunOK(q)'
  <2>1. CASE q # c
    BY <1>1, <1>4, <2>1 DEF RemoveRecord, RunOK, Findable, GroupOK, Kept, ProcessAlive
  <2>2. CASE q = c
    <3>1. CASE records'[c] = records[c]
      BY <1>1, <1>3, <2>2, <3>1 DEF RemoveRecord, RunOK, GroupOK, Kept, ProcessAlive
    <3>2. CASE records'[c] = NoRecord
      BY <1>1, <1>3, <2>2, <3>2 DEF RemoveRecord, RunOK, GroupOK, Kept, ProcessAlive
    <3> QED
      BY <1>4, <3>1, <3>2
  <2> QED
    BY <2>1, <2>2
<1>10. Approved' \subseteq Approved
  <2>1. Recorded' \subseteq Recorded
    BY <1>4 DEF Recorded
  <2> QED
    BY <2>1 DEF RemoveRecord, Approved, At
<1> QED
  BY <1>6, <1>7, <1>8, <1>9, <1>10, FewerApproved DEF IInv, Shape

-----------------------------------------------------------------------------
(* The invariant, and what follows from it.                                 *)

LEMMA InitEstablishes == Init => IInv
<1> SUFFICES ASSUME Init PROVE IInv
  OBVIOUS
<1>1. TypeOK
  BY DEF Init, TypeOK, Record, Positions
<1>2. Fresh /\ CleanerOK
  BY RunsFinite DEF Init, Fresh, CleanerOK
<1>3. \A w \in Watchers : WatcherOK(w)
  BY RunsFinite DEF Init, WatcherOK, Busy, Unrecorded, Reserved
<1>4. \A r \in Runs : RunOK(r)
  BY DEF Init, RunOK
<1>5. Approved = {}
  BY DEF Init, Approved, Recorded
<1>6. Cardinality(Approved) = 0
  BY <1>5, FS_EmptySet
<1> QED
  BY <1>1, <1>2, <1>3, <1>4, <1>6, LimitIsNatural DEF IInv, Shape

LEMMA NextPreserves == IInv /\ [Next]_vars => IInv'
<1> SUFFICES ASSUME IInv, [Next]_vars PROVE IInv'
  OBVIOUS
<1>1. ASSUME NEW w \in Watchers, WatcherStep(w) PROVE IInv'
  BY <1>1, MovesKeep, CreateWorktreeKeeps, SaveLaunchingKeeps, UndoUnrecordedKeeps,
     RecountKeeps, StartExecutorKeeps, SaveWorkingKeeps, EndDisposableKeeps,
     EndRetainedKeeps, DiscardKeeps, ForgetKeeps DEF WatcherStep
<1>2. ASSUME CleanerStep PROVE IInv'
  BY <1>2, BeginCleanKeeps, ReleaseWorktreeKeeps, RemoveRecordKeeps DEF CleanerStep
<1>3. CASE UNCHANGED vars
  <2>1. TypeOK' /\ Fresh' /\ CleanerOK'
    BY <1>3 DEF IInv, Shape, vars, TypeOK, Fresh, CleanerOK
  <2>2. \A v \in Watchers : WatcherOK(v)'
    BY <1>3 DEF IInv, Shape, vars, WatcherOK
  <2>3. \A q \in Runs : RunOK(q)'
    BY <1>3 DEF IInv, Shape, vars, RunOK, Findable, GroupOK, Kept, ProcessAlive
  <2>4. Approved' \subseteq Approved
    BY <1>3 DEF vars, Approved, Recorded, At
  <2> QED
    BY <2>1, <2>2, <2>3, <2>4, FewerApproved DEF IInv, Shape
<1> QED
  BY <1>1, <1>2, <1>3, GroupEndsKeeps DEF Next

\* The registry, the checkouts, the process groups, the watchers and the operator
\* stay in step through every interleaving, fault and crash.
THEOREM RegistryInvariant == Spec => []IInv
BY InitEstablishes, NextPreserves, PTL DEF Spec

\* Every record on disk has one of the states the code knows, and every watcher is
\* at one of its program points.
THEOREM RegistryTypes == Spec => []TypeOK
<1>1. IInv => TypeOK
  BY DEF IInv, Shape
<1> QED
  BY <1>1, RegistryInvariant, PTL

\* Every checkout on disk has a record in the registry, whatever failed: attempt
\* writes the record before anything else can happen in the checkout, and removes
\* it after the checkout.
THEOREM CheckoutsAreFound == Spec => []NoOrphans
<1>1. IInv => NoOrphans
  BY DEF IInv, Shape, TypeOK, RunOK, NoOrphans, Findable
<1> QED
  BY <1>1, RegistryInvariant, PTL

\* A watcher has at most one live process group, because the one that a stop did
\* not end is its last.
THEOREM WatchersRunOneGroup == Spec => []OneGroupPerWatcher
<1>1. IInv => OneGroupPerWatcher
  BY DEF IInv, Shape, TypeOK, RunOK, GroupOK, OneGroupPerWatcher
<1> QED
  BY <1>1, RegistryInvariant, PTL

\* Neither the operator nor its own watcher takes the checkout from a live executor
\* whose watcher lives or whose group is on record.
THEOREM LiveRunsKeepTheirs == Spec => []LiveRunKeepsWorktree
<1>1. IInv => LiveRunKeepsWorktree
  BY DEF IInv, Shape, TypeOK, RunOK, Kept, LiveRunKeepsWorktree
<1> QED
  BY <1>1, RegistryInvariant, PTL

\* The limit on retained runs holds for any number of watchers that race for the
\* last places, because the second count comes after the reservation is on record;
\* only a second count that fails, or cannot load every record, lets a run through
\* over it.
THEOREM RetentionBound == Spec => []RetentionIsBounded
<1>1. ASSUME IInv PROVE RetentionIsBounded
  <2> DEFINE S == {r \in worktrees \ excess : launcher[r] # NoRun}
  <2>1. S \subseteq Approved
    <3> SUFFICES ASSUME NEW r \in S PROVE r \in Approved
      OBVIOUS
    <3>1. r \in Runs /\ Findable(r) /\ \A w \in Watchers : WatcherOK(w)
      BY <1>1 DEF IInv, Shape, TypeOK, RunOK
    <3>2. records[r] # NoRecord
      BY <3>1 DEF Findable, WatcherOK, Unrecorded
    <3> QED
      BY <3>1, <3>2 DEF Approved, Recorded
  <2>2. IsFiniteSet(S) /\ Cardinality(S) <= Cardinality(Approved)
    BY <2>1, ApprovedFinite, FS_Subset
  <2>3. Cardinality(S) \in Nat /\ Cardinality(Approved) \in Nat
    BY <2>2, ApprovedFinite, FS_CardinalityType
  <2>4. Cardinality(S) <= MaxRetained
    BY <1>1, <2>2, <2>3, LimitIsNatural DEF IInv
  <2> QED
    BY <2>4 DEF RetentionIsBounded
<1>2. IInv => RetentionIsBounded
  BY <1>1
<1> QED
  BY <1>2, RegistryInvariant, PTL

=============================================================================
