----------------------------- MODULE RateLimit -----------------------------
(***************************************************************************)
(* Request limits: the sliding window rows of PostgreSQL                   *)
(* (server/internal/ratelimit/ratelimit.go) and the request that goes      *)
(* through them (server/internal/server/app.go authenticateWithLimits,     *)
(* allowPublicAuth; auth.go ResolveUserFromRequestWithGate).               *)
(*                                                                         *)
(* A limiter call reads the clock, then waits for the row's lock, then     *)
(* decides with the time it read: the two are separate actions, so that    *)
(* calls write their times out of order.  An authenticated request makes   *)
(* several calls: it reserves a slot for each credential it tries, cancels *)
(* the ones it does not use, and charges the account of the one it does.   *)
(*                                                                         *)
(* One route class; metrics are left out.                                  *)
(***************************************************************************)
EXTENDS Integers, FiniteSets, SequencesExt, FiniteSetsExt

CONSTANTS
  Requests,     \* requests that can be under way at once
  Sessions, Bearers, Accounts, Addresses,  \* values of the three scopes
  AccountOf,    \* [Sessions \cup Bearers -> Accounts]
  Carried,      \* what a request may carry: a session cookie, a bearer token, or
                \* both, of which the session is tried first
  Window,       \* one minute
  Limits,       \* what the operator may set the limit to
  MaxTime,      \* bound: the clock
  MaxRequests,  \* bound: requests ever made
  NoRow, NoRequest

Credentials == Sessions \cup Bearers
Keys == Credentials \cup Accounts \cup Addresses
Time == 0..MaxTime

ASSUME RateAssumptions ==
  /\ Window \in Nat \ {0} /\ MaxTime \in Nat /\ MaxRequests \in Nat
  /\ Limits \subseteq Nat \ {0}
  /\ AccountOf \in [Credentials -> Accounts]
  /\ Carried \subseteq {<<k>> : k \in Credentials} \cup (Sessions \X Bearers)
  /\ IsFiniteSet(Requests)
  /\ NoRow \notin Credentials

\* A key is stored under its scope, and a credential begins with its kind.
ASSUME ScopesAreDisjoint ==
  /\ Sessions \cap Bearers = {}
  /\ Credentials \cap Accounts = {} /\ Credentials \cap Addresses = {} /\ Accounts \cap Addresses = {}

VARIABLES
  rows,      \* [Keys -> [times, expires]]: api_rate_limit_state
  limit,     \* api_rate_limit_settings
  clock,     \* clock_timestamp()
  requests,  \* [Requests -> where each request is]
  made,      \* how many requests have begun
  charged    \* history: [Credentials \cup Addresses -> [Time -> Nat]], requests
             \* counted for good, by time

rateVars == <<rows, limit, clock, requests, made, charged>>

\* now: the time this call read.  todo: credentials not tried yet, the one being
\* tried first.  held: the reservations, by credential.  broken: a reservation
\* failed (gateErr).
Request == [pc : {"begin", "reserve", "lookup", "settle", "admit", "allow"},
            now : Time, todo : Seq(Keys), held : SUBSET (Credentials \X Time),
            winner : Credentials \cup {NoRow}, broken : BOOLEAN]

\* A row of api_rate_limit_state: request_times and expires_at.
LimitRow == [times : Seq(Time), expires : Nat]

ASSUME NoRowIsNone == NoRow \notin LimitRow /\ NoRequest \notin Request

RateTypeOK ==
  /\ rows \in [Keys -> LimitRow \cup {NoRow}]
  /\ limit \in Limits /\ clock \in Time /\ made \in 0..MaxRequests
  /\ requests \in [Requests -> Request \cup {NoRequest}]
  /\ charged \in [Credentials \cup Addresses -> [Time -> Nat]]

RateInit ==
  /\ rows = [k \in Keys |-> NoRow]
  /\ limit \in Limits
  /\ clock = 0
  /\ requests = [q \in Requests |-> NoRequest]
  /\ made = 0
  /\ charged = [k \in Credentials \cup Addresses |-> [t \in Time |-> 0]]

-----------------------------------------------------------------------------
(* One row.                                                                 *)

TimesOf(row) == IF row = NoRow THEN <<>> ELSE row.times

\* The positions of the times after from, and of those up to t among them.
Since(times, from) == {j \in DOMAIN times : times[j] > from}
UpTo(times, from, t) == {j \in Since(times, from) : times[j] <= t}

\* The times after from, oldest first: the i-th is the first moment by which i of
\* them had come.
OldestFirst(times, from) ==
  [i \in 1..Cardinality(Since(times, from)) |->
     Min({t \in Time : Cardinality(UpTo(times, from, t)) >= i})]

\* Fault: the times are taken as they are stored.
ActiveUnsorted(row, now) == SelectSeq(TimesOf(row), LAMBDA t : t > now - Window)

\* lockedState: what is still in the window at the time now, oldest first.
Active(row, now) == OldestFirst(TimesOf(row), now - Window)

\* expiry: the row is needed until its last time leaves the window.
Expiry(times) == times[Len(times)] + Window
Row(times) == [times |-> times, expires |-> Expiry(times)]

\* retryAfter; the limit may have been lowered below what is recorded.
RetryAfter(active, now) == active[Len(active) - limit + 1] + Window - now

HasRoom(row, now) == Len(Active(row, now)) < limit

\* writeState after append(active, now), as ReserveCredential and
\* FinalizeCredential do: the new time is the last one, whatever it is.
Recorded(row, now) == Row(Append(Active(row, now), now))

\* Fault: Allow appends like the others do.
AllowedUnsorted(row, now) == Row(Append(Active(row, now), now))

\* Allow, admitted: the times are sorted again before they are written.
Allowed(row, now) == Row(OldestFirst(Append(Active(row, now), now), -1))

\* Allow, rejected: what left the window is dropped.
Pruned(row, now) == Row(Active(row, now))

\* removeReservation: the last time equal to t is taken out.
Without(row, t) ==
  LET times == TimesOf(row)
      found == {i \in DOMAIN times : times[i] = t}
      rest  == IF found = {} THEN times ELSE RemoveAt(times, Max(found))
  IN  IF row = NoRow THEN NoRow
      ELSE [times |-> rest, expires |-> IF rest = <<>> THEN row.expires ELSE Expiry(rest)]

\* deleteExpiredState, at the start of Allow and ReserveCredential: the rows that
\* expired by the time the call read go.  The call's own row may be one of them.
Swept(now) == [k \in Keys |-> IF rows[k] # NoRow /\ rows[k].expires <= now THEN NoRow ELSE rows[k]]

Charge(k, t) == charged' = [charged EXCEPT ![k][t] = @ + 1]

-----------------------------------------------------------------------------
(* Public endpoints: one row, by address.                                   *)

Enter(q, r) == requests' = [requests EXCEPT ![q] = r]
NewRequest(pc, todo) ==
  [pc |-> pc, now |-> clock, todo |-> todo, held |-> {}, winner |-> NoRow, broken |-> FALSE]

\* A request arrives.
Arrive(q, r) ==
  /\ requests[q] = NoRequest /\ made < MaxRequests
  /\ Enter(q, r)
  /\ made' = made + 1

BeginPublic(q, a) ==
  /\ Arrive(q, NewRequest("allow", <<a>>))
  /\ UNCHANGED <<rows, limit, clock, charged>>

Allow(q) ==
  LET r == requests[q]
      k == r.todo[1]
      swept == Swept(r.now)
  IN  /\ r # NoRequest /\ r.pc = "allow"
      /\ IF HasRoom(swept[k], r.now)
         THEN rows' = [swept EXCEPT ![k] = Allowed(@, r.now)] /\ Charge(k, r.now)
         ELSE rows' = [swept EXCEPT ![k] = Pruned(@, r.now)] /\ UNCHANGED charged
      /\ Enter(q, NoRequest)
      /\ UNCHANGED <<limit, clock, made>>

-----------------------------------------------------------------------------
(* Authenticated requests.                                                  *)

BeginRequest(q, todo) ==
  /\ Arrive(q, NewRequest("begin", todo))
  /\ UNCHANGED <<rows, limit, clock, charged>>

\* The clock is read at the start of a transaction.
ReadClock(q) ==
  LET r == requests[q] IN
  /\ r # NoRequest /\ r.pc \in {"begin", "settle"}
  /\ r.pc = "settle" => {h \in r.held : h[1] # r.winner} = {} /\ r.winner # NoRow
  /\ Enter(q, [r EXCEPT !.pc = IF r.pc = "begin" THEN "reserve" ELSE "admit", !.now = clock])
  /\ UNCHANGED <<rows, limit, clock, made, charged>>

\* A request that ends here keeps every slot it reserved: nobody recognised its
\* credentials, or the limiter failed.
End(q, r) ==
  /\ Enter(q, NoRequest)
  /\ charged' = [k \in DOMAIN charged |-> [t \in Time |->
                   charged[k][t] + IF <<k, t>> \in r.held THEN 1 ELSE 0]]

\* Credential k did not do: the next one is tried, or the request is over; after
\* a failure of the limiter what it holds is given back.
TryNext(q, r) ==
  IF Len(r.todo) > 1
  THEN Enter(q, [r EXCEPT !.pc = "begin", !.todo = Tail(@)]) /\ UNCHANGED charged
  ELSE IF r.broken
  THEN Enter(q, [r EXCEPT !.pc = "settle", !.todo = <<>>]) /\ UNCHANGED charged
  ELSE End(q, r)

\* ReserveCredential: reserved, rejected, or failed.
Reserve(q) ==
  LET r == requests[q]
      k == r.todo[1]
      swept == Swept(r.now)
  IN  /\ r # NoRequest /\ r.pc = "reserve"
      /\ \/ /\ HasRoom(swept[k], r.now)
            /\ rows' = [swept EXCEPT ![k] = Recorded(@, r.now)]
            /\ Enter(q, [r EXCEPT !.pc = "lookup", !.now = 0, !.held = @ \cup {<<k, r.now>>}])
            /\ UNCHANGED charged
         \/ ~HasRoom(swept[k], r.now) /\ rows' = swept /\ TryNext(q, r)
         \/ TryNext(q, [r EXCEPT !.broken = TRUE]) /\ UNCHANGED rows
      /\ UNCHANGED <<limit, clock, made>>

\* The credential is looked up: found, unknown, or the store failed.  Whatever it
\* says, a limiter that failed before makes the request give everything back.
Lookup(q) ==
  LET r == requests[q] IN
  /\ r # NoRequest /\ r.pc = "lookup"
  /\ \/ /\ Enter(q, [r EXCEPT !.pc = "settle", !.winner = IF r.broken THEN NoRow ELSE r.todo[1]])
        /\ UNCHANGED charged
     \/ TryNext(q, r)
     \/ /\ Enter(q, [r EXCEPT !.pc = "settle", !.winner = NoRow])
        /\ UNCHANGED charged
  /\ UNCHANGED <<rows, limit, clock, made>>

\* cancelReservations, one reservation at a time.
Cancel(q) ==
  LET r == requests[q] IN
  /\ r # NoRequest /\ r.pc = "settle"
  /\ \E h \in {g \in r.held : g[1] # r.winner} :
       /\ rows' = [rows EXCEPT ![h[1]] = Without(@, h[2])]
       /\ Enter(q, [r EXCEPT !.held = @ \ {h}])
  /\ UNCHANGED <<limit, clock, made, charged>>

\* A cancellation or the last call fails, or there is nothing left to give back.
GiveUp(q) ==
  LET r == requests[q] IN
  /\ r # NoRequest /\ r.pc \in {"settle", "admit"}
  /\ End(q, r)
  /\ UNCHANGED <<rows, limit, clock, made>>

\* Fault: a request its account has no room for keeps its credential's slot.
RefusedKeepsSlot(row, t) == row

\* FinalizeCredential gives the credential's slot back when the account is full.
Refused(row, t) == Without(row, t)

Finalize(q) ==
  LET r == requests[q]
      a == AccountOf[r.winner]
      h == CHOOSE g \in r.held : g[1] = r.winner
  IN  /\ r # NoRequest /\ r.pc = "admit"
      /\ IF HasRoom(rows[a], r.now)
         THEN rows' = [rows EXCEPT ![a] = Recorded(@, r.now)] /\ Charge(h[1], h[2])
         ELSE rows' = [rows EXCEPT ![h[1]] = Refused(@, h[2])] /\ UNCHANGED charged
      /\ Enter(q, NoRequest)
      /\ UNCHANGED <<limit, clock, made>>

-----------------------------------------------------------------------------
(* Time, the operator, and what removes rows.                               *)

\* The cleanup job.
DeleteExpired ==
  /\ rows # Swept(clock) /\ rows' = Swept(clock)
  /\ UNCHANGED <<limit, clock, requests, made, charged>>

Tick ==
  /\ clock < MaxTime
  /\ clock' = clock + 1
  /\ UNCHANGED <<rows, limit, requests, made, charged>>

SetLimit(n) ==
  /\ limit' = n /\ n # limit
  /\ UNCHANGED <<rows, clock, requests, made, charged>>

RateNext ==
  \/ \E q \in Requests :
       \/ \E a \in Addresses : BeginPublic(q, a)
       \/ \E todo \in Carried : BeginRequest(q, todo)
       \/ Allow(q) \/ ReadClock(q) \/ Reserve(q) \/ Lookup(q)
       \/ Cancel(q) \/ GiveUp(q) \/ Finalize(q)
  \/ DeleteExpired
  \/ Tick
  \/ \E n \in Limits : SetLimit(n)

RateSpec == RateInit /\ [][RateNext]_rateVars

-----------------------------------------------------------------------------
(* What holds.                                                              *)

Occurs(times, t) == Cardinality({i \in DOMAIN times : times[i] = t})
Count(k, t) == Occurs(TimesOf(rows[k]), t)

\* Every public request that was let through within the last window is still
\* counted against its address, and no other is, though calls write their times
\* in another order than they read them, and rows are deleted when they expire.
\* And no row, of an address or of another key, gets longer than a limit allows:
\* no more public requests than that are let through in a window.
PublicRequestsCount ==
  /\ \A k \in Addresses : \A t \in Time :
       t > clock - Window => Count(k, t) = charged[k][t]
  /\ \A k \in Keys : \E n \in Limits : Len(TimesOf(rows[k])) <= n

\* A credential is charged only for requests under way, let through, or not
\* recognised: what was cancelled, or refused for the account's sake, leaves
\* nothing behind, even when several reservations carry the same time.
NothingIsChargedTwice ==
  \A k \in Credentials : \A t \in Time :
    Count(k, t) <= charged[k][t]
                     + Cardinality({q \in Requests : requests[q] # NoRequest
                                                       /\ <<k, t>> \in requests[q].held})

\* Retry-After is exact: a client that waits that long finds room (if nobody else
\* comes first), and one that comes back earlier does not, also when the limit
\* was lowered below what is recorded.
RetryAfterIsExact ==
  \A k \in Keys, now \in 0..clock :
    LET later == now + RetryAfter(Active(rows[k], now), now) IN
    ~HasRoom(rows[k], now) => /\ HasRoom(rows[k], later)
                              /\ \A t \in now..(later - 1) : ~HasRoom(rows[k], t)

=============================================================================
