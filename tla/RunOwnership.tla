---------------------------- MODULE RunOwnership ----------------------------
(***************************************************************************)
(* What managed-run fencing promises, without statuses, assignments,       *)
(* people or requests: a card has at most one owning run; a run takes only *)
(* a card nobody owns, so ownership never passes from one run to another   *)
(* directly; and only the owner adds to the record of who wrote on the     *)
(* card.  Ownership can be taken away at any time, by a person.            *)
(***************************************************************************)
CONSTANTS Tasks, Runs, NoRun

VARIABLES
  owner,   \* [Tasks -> Runs \cup {NoRun}]
  writers  \* [Tasks -> SUBSET Runs]: runs that wrote on the card

vars == <<owner, writers>>

Init ==
  /\ owner = [t \in Tasks |-> NoRun]
  /\ writers = [t \in Tasks |-> {}]

Acquire(t, r) ==
  /\ owner[t] = NoRun
  /\ owner' = [owner EXCEPT ![t] = r]
  /\ UNCHANGED writers

Release(t) ==
  /\ owner' = [owner EXCEPT ![t] = NoRun]
  /\ UNCHANGED writers

Write(t, r) ==
  /\ owner[t] = r
  /\ writers' = [writers EXCEPT ![t] = @ \cup {r}]
  /\ UNCHANGED owner

\* Deleted cards lose their owner and their record.
Forget(S) ==
  /\ owner' = [t \in Tasks |-> IF t \in S THEN NoRun ELSE owner[t]]
  /\ writers' = [t \in Tasks |-> IF t \in S THEN {} ELSE writers[t]]

Next ==
  \/ \E t \in Tasks, r \in Runs : Acquire(t, r) \/ Write(t, r)
  \/ \E t \in Tasks : Release(t)
  \/ \E S \in SUBSET Tasks : Forget(S)

Spec == Init /\ [][Next]_vars

=============================================================================
