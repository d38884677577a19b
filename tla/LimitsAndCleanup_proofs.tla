---------------------- MODULE LimitsAndCleanup_proofs ----------------------
(***************************************************************************)
(* The two keepers of rows that expire: the request limiter (RateLimit)    *)
(* and the retention job (Cleanup), whose rules sweep the limiter's rows   *)
(* among others.  They are two specifications, with no constant and no     *)
(* variable in common, that rest on the same facts about finite sets of    *)
(* integers.                                                               *)
(*                                                                         *)
(* Part one, for any number of requests under way, credentials, addresses  *)
(* and limits, and any window: a public request that was let through is    *)
(* counted for one window, no more are let through in it than a limit      *)
(* allows, nothing is charged twice, and Retry-After is exact.             *)
(*                                                                         *)
(* Part two, for any number of rules, rows and faults, any batch size and  *)
(* any budget: fairness between the rules, their budgets and the report.   *)
(***************************************************************************)
EXTENDS RateLimit, Cleanup, FiniteSetTheorems, TLAPS

-----------------------------------------------------------------------------
(* Extremes.                                                                *)

\* Among sets of members of a finite set, one contains no other.
LEMMA SmallestSet ==
  ASSUME NEW S, IsFiniteSet(S), NEW T, T \subseteq SUBSET S, T # {}
  PROVE  \E U \in T : \A V \in T : V \subseteq U => V = U
<1>1. IsWellFoundedOn(StrictSubsetOrdering(S), SUBSET S)
  BY FS_StrictSubsetOrderingWellFounded, FS_FiniteSubsetsOfFinite
<1>2. \E U \in T : \A V \in T : ~(<<V, U>> \in StrictSubsetOrdering(S))
  BY <1>1, WFMin
<1> QED
  BY <1>2 DEF StrictSubsetOrdering

\* A finite set of integers has a largest and a smallest member: of the sets of
\* its members from one of them on, one is the smallest.
LEMMA ExtremesExist ==
  ASSUME NEW S, IsFiniteSet(S), \A x \in S : x \in Int, S # {}
  PROVE  /\ \E x \in S : \A y \in S : x >= y
         /\ \E x \in S : \A y \in S : x =< y
<1> DEFINE From(m) == {x \in S : x >= m}
           Upto(m) == {x \in S : x =< m}
           T == {From(m) : m \in S}
           V == {Upto(m) : m \in S}
<1>1. T \subseteq SUBSET S /\ T # {} /\ V \subseteq SUBSET S /\ V # {}
  OBVIOUS
<1>2. /\ \E U \in T : \A W \in T : W \subseteq U => W = U
      /\ \E U \in V : \A W \in V : W \subseteq U => W = U
  <2>1. PICK A, B : A = T /\ B = V
    OBVIOUS
  <2>2. A \subseteq SUBSET S /\ A # {} /\ B \subseteq SUBSET S /\ B # {}
    BY <1>1, <2>1
  <2>3. \E U \in A : \A W \in A : W \subseteq U => W = U
    BY <2>2, SmallestSet
  <2>4. \E U \in B : \A W \in B : W \subseteq U => W = U
    BY <2>2, SmallestSet
  <2> QED
    BY <2>1, <2>3, <2>4
<1>3. \E x \in S : \A y \in S : x >= y
  <2>1. PICK m \in S : \A W \in T : W \subseteq From(m) => W = From(m)
    BY <1>2
  <2>2. ASSUME NEW y \in S, y > m PROVE FALSE
    <3>1. From(y) \in T
      OBVIOUS
    <3>2. From(y) \subseteq From(m) /\ m \in From(m) /\ m \notin From(y)
      <4>1. m \in Int /\ y \in Int /\ \A x \in S : x \in Int
        OBVIOUS
      <4>2. ASSUME NEW x \in From(y) PROVE x \in From(m)
        BY <2>2, <4>1
      <4>3. m \in From(m) /\ m \notin From(y)
        BY <2>2, <4>1
      <4> HIDE DEF From
      <4> QED
        BY <4>2, <4>3
    <3> QED
      BY <2>1, <3>1, <3>2
  <2> QED
    BY <2>2
<1>4. \E x \in S : \A y \in S : x =< y
  <2>1. PICK m \in S : \A W \in V : W \subseteq Upto(m) => W = Upto(m)
    BY <1>2
  <2>2. ASSUME NEW y \in S, y < m PROVE FALSE
    <3>1. Upto(y) \in V
      OBVIOUS
    <3>2. Upto(y) \subseteq Upto(m) /\ m \in Upto(m) /\ m \notin Upto(y)
      <4>1. m \in Int /\ y \in Int /\ \A x \in S : x \in Int
        OBVIOUS
      <4>2. ASSUME NEW x \in Upto(y) PROVE x \in Upto(m)
        BY <2>2, <4>1
      <4>3. m \in Upto(m) /\ m \notin Upto(y)
        BY <2>2, <4>1
      <4> HIDE DEF Upto
      <4> QED
        BY <4>2, <4>3
    <3> QED
      BY <2>1, <3>1, <3>2
  <2> QED
    BY <2>2
<1> QED
  BY <1>3, <1>4

-----------------------------------------------------------------------------
(* Part one: the limiter.  Lists of times.                                  *)

\* The bounds are numbers, and times are numbers.
LEMMA Numbers ==
  /\ Window \in Nat /\ Window > 0 /\ MaxTime \in Nat
  /\ \A t \in Time : t \in Int /\ 0 <= t /\ t <= MaxTime
  /\ IsFiniteSet(Time)
<1>1. Window \in Nat /\ Window > 0 /\ MaxTime \in Nat
  BY RateAssumptions
<1>2. IsFiniteSet(Time)
  BY <1>1, FS_Interval DEF Time
<1> QED
  BY <1>1, <1>2 DEF Time

\* The positions counted in a list of times are finitely many.
LEMMA PositionsAreFinite ==
  ASSUME NEW times \in Seq(Time), NEW from \in Int
  PROVE  /\ IsFiniteSet(DOMAIN times)
         /\ IsFiniteSet(Since(times, from)) /\ Cardinality(Since(times, from)) \in Nat
         /\ \A t \in Int : /\ IsFiniteSet(UpTo(times, from, t))
                           /\ Cardinality(UpTo(times, from, t)) \in Nat
                           /\ Cardinality(UpTo(times, from, t)) <= Cardinality(Since(times, from))
<1>1. IsFiniteSet(DOMAIN times)
  <2>1. DOMAIN times = 1..Len(times) /\ Len(times) \in Nat
    OBVIOUS
  <2> QED
    BY <2>1, FS_Interval
<1>2. IsFiniteSet(Since(times, from)) /\ Cardinality(Since(times, from)) \in Nat
  <2>1. Since(times, from) \in SUBSET DOMAIN times
    BY DEF Since
  <2> QED
    BY <1>1, <2>1, FS_Subset, FS_CardinalityType
<1>3. ASSUME NEW t \in Int
      PROVE  /\ IsFiniteSet(UpTo(times, from, t))
             /\ Cardinality(UpTo(times, from, t)) \in Nat
             /\ Cardinality(UpTo(times, from, t)) <= Cardinality(Since(times, from))
  <2>1. UpTo(times, from, t) \in SUBSET Since(times, from)
    BY DEF UpTo
  <2> QED
    BY <1>2, <2>1, FS_Subset, FS_CardinalityType
<1> QED
  BY <1>1, <1>2, <1>3

\* How often a time is recorded is a number.
LEMMA OccursIsNat ==
  ASSUME NEW times \in Seq(Time), NEW t
  PROVE  /\ IsFiniteSet({i \in DOMAIN times : times[i] = t}) /\ Occurs(times, t) \in Nat
         /\ Occurs(times, t) = 0 <=> \A i \in DOMAIN times : times[i] # t
<1>1. IsFiniteSet(DOMAIN times)
  BY PositionsAreFinite
<1>2. {i \in DOMAIN times : times[i] = t} \in SUBSET DOMAIN times
  OBVIOUS
<1>3. IsFiniteSet({i \in DOMAIN times : times[i] = t}) /\ Occurs(times, t) \in Nat
  BY <1>1, <1>2, FS_Subset, FS_CardinalityType DEF Occurs
<1>4. Occurs(times, t) = 0 <=> {i \in DOMAIN times : times[i] = t} = {}
  BY <1>3, FS_EmptySet DEF Occurs
<1> QED
  BY <1>3, <1>4

\* The i-th of the times after from: i of them had come by then, and fewer than i
\* at any earlier moment.
LEMMA OrderStatistic ==
  ASSUME NEW times \in Seq(Time), NEW from \in Int,
         NEW i \in 1..Cardinality(Since(times, from))
  PROVE  /\ OldestFirst(times, from)[i] \in Time
         /\ Cardinality(UpTo(times, from, OldestFirst(times, from)[i])) >= i
         /\ \A t \in Int : t < OldestFirst(times, from)[i] => Cardinality(UpTo(times, from, t)) < i
<1> DEFINE N == Cardinality(Since(times, from))
           C(t) == Cardinality(UpTo(times, from, t))
           S == {t \in Time : C(t) >= i}
<1>1. N \in Nat /\ \A t \in Int : C(t) \in Nat /\ C(t) <= N
  BY PositionsAreFinite
<1>2. i \in Int /\ 1 <= i /\ i <= N
  BY <1>1
<1>3. MaxTime \in Time /\ MaxTime \in Int
  BY Numbers DEF Time
<1>4. C(MaxTime) = N
  <2>1. ASSUME NEW j \in Since(times, from) PROVE times[j] <= MaxTime
    <3>1. times[j] \in Time
      BY DEF Since
    <3> QED
      BY <3>1, Numbers
  <2>2. UpTo(times, from, MaxTime) = Since(times, from)
    BY <2>1 DEF UpTo
  <2> QED
    BY <2>2
<1>5. MaxTime \in S
  BY <1>1, <1>2, <1>3, <1>4
<1> HIDE DEF C, N
<1>6. IsFiniteSet(S) /\ (\A x \in S : x \in Int) /\ S # {}
  <2>1. S \in SUBSET Time
    OBVIOUS
  <2>2. IsFiniteSet(S)
    BY <2>1, Numbers, FS_Subset
  <2> QED
    BY <2>2, <1>5, Numbers
<1>7. Min(S) \in S /\ \A y \in S : Min(S) <= y
  <2>1. PICK T : T = S
    OBVIOUS
  <2>2. \E x \in T : \A y \in T : x =< y
    BY <2>1, <1>6, ExtremesExist
  <2> QED
    BY <2>1, <2>2 DEF Min
<1>8. OldestFirst(times, from)[i] = Min(S)
  BY DEF OldestFirst, C
<1>9. ASSUME NEW t \in Int, t < Min(S) PROVE C(t) < i
  <2>1. CASE t \in Time
    <3>1. t \notin S
      BY <1>7, <1>9, <1>6
    <3> QED
      BY <3>1, <2>1, <1>1, <1>2
  <2>2. CASE t \notin Time
    <3>1. Min(S) \in Time
      BY <1>7
    <3>2. t < 0
      BY <3>1, <2>2, <1>9, Numbers DEF Time
    <3>3. UpTo(times, from, t) = {}
      <4>1. ASSUME NEW j \in UpTo(times, from, t) PROVE FALSE
        <5>1. times[j] \in Time /\ times[j] <= t
          BY DEF UpTo, Since
        <5> QED
          BY <5>1, <3>2, Numbers
      <4> QED
        BY <4>1
    <3>4. C(t) = 0
      BY <3>3, FS_EmptySet DEF C
    <3> QED
      BY <3>4, <1>2
  <2> QED
    BY <2>1, <2>2
<1>10. Min(S) \in Time /\ C(Min(S)) >= i
  BY <1>7
<1> HIDE DEF S
<1> QED
  BY <1>8, <1>9, <1>10 DEF C

\* The list that results.
LEMMA OldestFirstType ==
  ASSUME NEW times \in Seq(Time), NEW from \in Int
  PROVE  /\ OldestFirst(times, from) \in Seq(Time)
         /\ Len(OldestFirst(times, from)) = Cardinality(Since(times, from))
         /\ DOMAIN OldestFirst(times, from) = 1..Cardinality(Since(times, from))
         /\ Cardinality(Since(times, from)) \in Nat
<1> DEFINE N == Cardinality(Since(times, from))
<1>1. N \in Nat
  BY PositionsAreFinite
<1>2. DOMAIN OldestFirst(times, from) = 1..N
  BY DEF OldestFirst
<1>3. \A i \in 1..N : OldestFirst(times, from)[i] \in Time
  BY OrderStatistic
<1>4. PICK s : s = OldestFirst(times, from)
  OBVIOUS
<1>5. s = [i \in 1..N |-> s[i]]
  BY <1>4 DEF OldestFirst
<1> HIDE DEF N
<1>6. s \in [1..N -> Time]
  BY <1>3, <1>4, <1>5
<1>7. s \in Seq(Time)
  BY <1>1, <1>6
<1>8. Len(s) = N
  BY <1>1, <1>6, <1>7
<1> QED
  BY <1>1, <1>2, <1>4, <1>7, <1>8 DEF N

\* The last of them is the latest.
LEMMA LastIsLatest ==
  ASSUME NEW times \in Seq(Time), NEW from \in Int, Cardinality(Since(times, from)) > 0
  PROVE  LET s == OldestFirst(times, from) IN
           /\ s # <<>> /\ s[Len(s)] \in Time
           /\ \A i \in DOMAIN s : s[i] <= s[Len(s)]
<1> DEFINE N == Cardinality(Since(times, from))
           s == OldestFirst(times, from)
<1>1. N \in Nat /\ N > 0 /\ Len(s) = N /\ DOMAIN s = 1..N /\ s \in Seq(Time)
  BY OldestFirstType
<1>2. N \in 1..N
  BY <1>1
<1>3. s[N] \in Time /\ Cardinality(UpTo(times, from, s[N])) >= N
  BY <1>2, OrderStatistic
<1>4. ASSUME NEW i \in 1..N PROVE s[i] <= s[N]
  <2>1. s[i] \in Time /\ \A t \in Int : t < s[i] => Cardinality(UpTo(times, from, t)) < i
    BY OrderStatistic
  <2>2. s[N] \in Int /\ s[i] \in Int
    BY <1>3, <2>1, Numbers
  <2>3. Cardinality(UpTo(times, from, s[N])) \in Nat
    BY <2>2, PositionsAreFinite
  <2>4. i <= N
    BY <1>1
  <2> QED
    BY <1>1, <1>3, <2>1, <2>2, <2>3, <2>4
<1>5. s # <<>>
  <2>1. DOMAIN <<>> = {}
    OBVIOUS
  <2> QED
    BY <2>1, <1>1, <1>2
<1> QED
  BY <1>1, <1>3, <1>4, <1>5

\* Sorting keeps every time after from as often as it was, and no other.
LEMMA SortingKeepsTimes ==
  ASSUME NEW times \in Seq(Time), NEW from \in Int, NEW t \in Time
  PROVE  Occurs(OldestFirst(times, from), t) = IF t > from THEN Occurs(times, t) ELSE 0
<1> DEFINE N == Cardinality(Since(times, from))
           s == OldestFirst(times, from)
           C(u) == Cardinality(UpTo(times, from, u))
           At == {j \in Since(times, from) : times[j] = t}
<1>1. t \in Int /\ t - 1 \in Int
  BY Numbers
<1>2. N \in Nat /\ C(t) \in Nat /\ C(t - 1) \in Nat /\ C(t) <= N
  BY <1>1, PositionsAreFinite
<1>3. DOMAIN s = 1..N
  BY OldestFirstType
<1>4. {i \in DOMAIN s : s[i] = t} = (C(t - 1) + 1)..C(t)
  <2>1. ASSUME NEW i \in 1..N
        PROVE  s[i] = t <=> i \in (C(t - 1) + 1)..C(t)
    <3>1. /\ s[i] \in Time /\ C(s[i]) >= i
          /\ \A u \in Int : u < s[i] => C(u) < i
      BY OrderStatistic
    <3>2. s[i] \in Int /\ i \in Int
      BY <3>1, Numbers
    <3>3. ASSUME s[i] < t PROVE C(s[i]) <= C(t - 1)
      <4>1. UpTo(times, from, s[i]) \in SUBSET UpTo(times, from, t - 1)
        <5>1. ASSUME NEW j \in UpTo(times, from, s[i]) PROVE j \in UpTo(times, from, t - 1)
          <6>1. j \in Since(times, from) /\ times[j] \in Time /\ times[j] <= s[i]
            BY DEF UpTo, Since
          <6>2. times[j] \in Int
            BY <6>1, Numbers
          <6> QED
            BY <1>1, <3>2, <3>3, <6>1, <6>2 DEF UpTo
        <5> QED
          BY <5>1
      <4> QED
        BY <4>1, <1>1, PositionsAreFinite, FS_Subset
    <3>4. C(s[i]) \in Nat
      BY <3>2, PositionsAreFinite
    <3> HIDE DEF s, C, N
    <3>5. CASE s[i] = t
      BY <3>5, <3>1, <3>2, <1>1, <1>2
    <3>6. CASE s[i] < t
      BY <3>6, <3>3, <3>1, <3>2, <3>4, <1>1, <1>2
    <3>7. CASE s[i] > t
      BY <3>7, <3>1, <3>2, <1>1, <1>2
    <3> QED
      BY <3>5, <3>6, <3>7, <3>2, <1>1
  <2>2. (C(t - 1) + 1)..C(t) \subseteq 1..N
    BY <1>2
  <2> HIDE DEF s, C, N
  <2> QED
    BY <2>1, <2>2, <1>3
<1>5. /\ IsFiniteSet(At)
      /\ C(t) = C(t - 1) + Cardinality(At)
  <2>1. IsFiniteSet(At)
    <3>1. At \in SUBSET Since(times, from)
      OBVIOUS
    <3> QED
      BY <3>1, PositionsAreFinite, FS_Subset
  <2>2. ASSUME NEW j \in Since(times, from)
        PROVE  /\ j \in UpTo(times, from, t) <=> j \in UpTo(times, from, t - 1) \/ times[j] = t
               /\ ~(j \in UpTo(times, from, t - 1) /\ times[j] = t)
    <3>1. times[j] \in Time
      BY DEF Since
    <3>2. times[j] \in Int
      BY <3>1, Numbers
    <3> QED
      BY <3>2, <1>1 DEF UpTo
  <2>3. UpTo(times, from, t) = UpTo(times, from, t - 1) \cup At
    BY <2>2 DEF UpTo
  <2>4. UpTo(times, from, t - 1) \cap At = {}
    BY <2>2
  <2>5. IsFiniteSet(UpTo(times, from, t - 1))
    BY <1>1, PositionsAreFinite
  <2>6. Cardinality(At) \in Nat
    BY <2>1, FS_CardinalityType
  <2>7. C(t) = C(t - 1) + Cardinality(At) - Cardinality(UpTo(times, from, t - 1) \cap At)
    <3>1. PICK A : A = At
      OBVIOUS
    <3> QED
      BY <2>1, <2>3, <2>5, <3>1, FS_Union
  <2>8. Cardinality(UpTo(times, from, t - 1) \cap At) = 0
    BY <2>4, FS_EmptySet
  <2> QED
    BY <2>1, <2>6, <2>7, <2>8, <1>2
<1>6. Cardinality(At) = IF t > from THEN Occurs(times, t) ELSE 0
  <2>1. CASE t > from
    <3>1. At = {i \in DOMAIN times : times[i] = t}
      BY <2>1 DEF Since
    <3> QED
      BY <2>1, <3>1 DEF Occurs
  <2>2. CASE ~(t > from)
    <3>1. At = {}
      BY <2>2 DEF Since
    <3> QED
      BY <2>2, <3>1, FS_EmptySet
  <2> QED
    BY <2>1, <2>2
<1>7. Cardinality((C(t - 1) + 1)..C(t)) = C(t) - C(t - 1)
  <2>1. Cardinality(At) \in Nat
    BY <1>5, FS_CardinalityType
  <2> HIDE DEF C, At
  <2>2. PICK a \in Int, b \in Int : a = C(t - 1) + 1 /\ b = C(t)
    BY <1>2
  <2>3. Cardinality(a..b) = IF a > b THEN 0 ELSE b - a + 1
    BY FS_Interval
  <2> QED
    BY <2>1, <2>2, <2>3, <1>2, <1>5
<1>8. Cardinality(At) \in Nat
  BY <1>5, FS_CardinalityType
<1>9. Occurs(s, t) = Cardinality((C(t - 1) + 1)..C(t))
  BY <1>4 DEF Occurs
<1> HIDE DEF C, At, s
<1>10. Occurs(s, t) = Cardinality(At)
  BY <1>2, <1>5, <1>7, <1>8, <1>9
<1> QED
  BY <1>6, <1>10 DEF s

\* A time more.
LEMMA AppendingCounts ==
  ASSUME NEW times \in Seq(Time), NEW now \in Time, NEW t \in Time
  PROVE  /\ Append(times, now) \in Seq(Time)
         /\ Occurs(Append(times, now), t) = Occurs(times, t) + IF t = now THEN 1 ELSE 0
<1> DEFINE n == Len(times)
           s == Append(times, now)
           A == {i \in DOMAIN times : times[i] = t}
<1>1. s \in Seq(Time) /\ n \in Nat /\ DOMAIN times = 1..n /\ DOMAIN s = 1..(n + 1)
  OBVIOUS
<1>2. s[n + 1] = now /\ \A i \in 1..n : s[i] = times[i]
  OBVIOUS
<1>3. IsFiniteSet(A) /\ Occurs(times, t) = Cardinality(A) /\ Cardinality(A) \in Nat
  BY OccursIsNat DEF Occurs
<1>4. n + 1 \notin A /\ 1..(n + 1) = (1..n) \cup {n + 1}
  BY <1>1
<1> HIDE DEF s, n
<1>5. CASE t = now
  <2>1. {i \in DOMAIN s : s[i] = t} = A \cup {n + 1}
    BY <1>1, <1>2, <1>4, <1>5
  <2>2. Cardinality(A \cup {n + 1}) = Cardinality(A) + 1
    <3> HIDE DEF A
    <3> QED
      BY <1>3, <1>4, FS_AddElement
  <2>3. Occurs(s, t) = Cardinality(A \cup {n + 1})
    BY <2>1 DEF Occurs
  <2> HIDE DEF A
  <2> QED
    BY <1>1, <1>3, <1>5, <2>2, <2>3 DEF s
<1>6. CASE t # now
  <2>1. {i \in DOMAIN s : s[i] = t} = A
    BY <1>1, <1>2, <1>4, <1>6
  <2>2. Occurs(s, t) = Cardinality(A)
    BY <2>1 DEF Occurs
  <2> HIDE DEF A
  <2> QED
    BY <1>1, <1>3, <1>6, <2>2 DEF s
<1> QED
  BY <1>5, <1>6

\* One list after another.
LEMMA Joined ==
  ASSUME NEW u \in Seq(Time), NEW v \in Seq(Time)
  PROVE  /\ u \o v \in Seq(Time) /\ Len(u \o v) = Len(u) + Len(v) /\ Len(u) \in Nat /\ Len(v) \in Nat
         /\ \A j \in 1..Len(u) : (u \o v)[j] = u[j]
         /\ \A j \in (Len(u) + 1)..(Len(u) + Len(v)) : (u \o v)[j] = v[j - Len(u)]
OBVIOUS

\* A time less: no time is recorded more often than before, and the one that was
\* taken out once less.
LEMMA RemovingCounts ==
  ASSUME NEW times \in Seq(Time), NEW i \in DOMAIN times, NEW t \in Time
  PROVE  /\ RemoveAt(times, i) \in Seq(Time)
         /\ Occurs(RemoveAt(times, i), t) <= Occurs(times, t) - IF t = times[i] THEN 1 ELSE 0
<1> DEFINE n == Len(times)
           s == RemoveAt(times, i)
           A == {j \in DOMAIN times : times[j] = t}
           B == {j \in DOMAIN s : s[j] = t}
           f == [j \in B |-> IF j < i THEN j ELSE j + 1]
<1>1. n \in Nat /\ DOMAIN times = 1..n /\ i \in 1..n
  OBVIOUS
<1>2. /\ s \in Seq(Time) /\ DOMAIN s = 1..(n - 1)
      /\ \A j \in 1..(n - 1) : s[j] = times[IF j < i THEN j ELSE j + 1]
  <2>1. /\ SubSeq(times, 1, i - 1) \in Seq(Time) /\ Len(SubSeq(times, 1, i - 1)) = i - 1
        /\ \A j \in 1..(i - 1) : SubSeq(times, 1, i - 1)[j] = times[j]
    BY <1>1
  <2>2. /\ SubSeq(times, i + 1, n) \in Seq(Time) /\ Len(SubSeq(times, i + 1, n)) = n - i
        /\ \A j \in 1..(n - i) : SubSeq(times, i + 1, n)[j] = times[i + j]
    BY <1>1
  <2>3. PICK u \in Seq(Time), v \in Seq(Time) :
          u = SubSeq(times, 1, i - 1) /\ v = SubSeq(times, i + 1, n)
    BY <2>1, <2>2
  <2>4. s = u \o v
    BY <2>3 DEF RemoveAt
  <2>5. Len(u) = i - 1 /\ Len(v) = n - i
    BY <2>1, <2>2, <2>3
  <2> HIDE DEF s, n
  <2>6. s \in Seq(Time) /\ Len(s) = n - 1
    <3>1. u \o v \in Seq(Time) /\ Len(u \o v) = Len(u) + Len(v)
      BY Joined
    <3>2. n \in Int /\ i \in Int
      BY <1>1
    <3> QED
      BY <2>4, <2>5, <3>1, <3>2
  <2>7. ASSUME NEW j \in 1..(n - 1) PROVE s[j] = times[IF j < i THEN j ELSE j + 1]
    <3>1. CASE j < i
      <4>0. j \in 1..Len(u)
        BY <2>5, <3>1, <1>1
      <4>1. s[j] = u[j]
        BY <2>4, <4>0, Joined
      <4> QED
        BY <4>1, <2>1, <2>3, <3>1, <1>1
    <3>2. CASE ~(j < i)
      <4>0. j \in (Len(u) + 1)..(Len(u) + Len(v))
        BY <2>5, <3>2, <1>1
      <4>1. s[j] = v[j - (i - 1)]
        <5>1. s[j] = v[j - Len(u)]
          BY <2>4, <4>0, Joined
        <5> QED
          BY <5>1, <2>5
      <4>2. j - (i - 1) \in 1..(n - i) /\ i + (j - (i - 1)) = j + 1
        BY <3>2, <1>1
      <4>3. v[j - (i - 1)] = times[i + (j - (i - 1))]
        BY <4>2, <2>2, <2>3
      <4> QED
        BY <4>1, <4>2, <4>3, <3>2
    <3> QED
      BY <3>1, <3>2
  <2>8. DOMAIN s = 1..(n - 1)
    BY <2>6, <1>1
  <2> QED
    BY <2>6, <2>7, <2>8
<1>3. IsFiniteSet(A) /\ Occurs(times, t) = Cardinality(A) /\ Cardinality(A) \in Nat
  BY OccursIsNat DEF Occurs
<1> HIDE DEF s, n
<1>4. \A j \in B : f[j] \in A \ {i}
  BY <1>1, <1>2
<1>5. \A j, k \in B : f[j] = f[k] => j = k
  BY <1>1, <1>2
<1>6. f \in Injection(B, A \ {i})
  <2> HIDE DEF A, B
  <2>1. f \in [B -> A \ {i}]
    BY <1>4
  <2> HIDE DEF f
  <2> QED
    BY <1>5, <2>1 DEF Injection, IsInjective
<1>7. /\ IsFiniteSet(A \ {i}) /\ Cardinality(A \ {i}) = Cardinality(A) - IF i \in A THEN 1 ELSE 0
  <2> HIDE DEF A
  <2>1. IsFiniteSet(A \ {i}) /\ Cardinality(A \ {i}) = IF i \in A THEN Cardinality(A) - 1 ELSE Cardinality(A)
    BY <1>3, FS_RemoveElement
  <2> QED
    BY <1>3, <2>1
<1>8. Cardinality(B) <= Cardinality(A \ {i})
  <2> HIDE DEF A, B, f
  <2> QED
    BY <1>6, <1>7, FS_Injection
<1>9. i \in A <=> t = times[i]
  OBVIOUS
<1>10. Occurs(s, t) = Cardinality(B)
  BY DEF Occurs
<1> HIDE DEF A, B
<1>11. Occurs(s, t) \in Nat
  BY <1>2, OccursIsNat
<1> QED
  BY <1>2, <1>3, <1>7, <1>8, <1>9, <1>10, <1>11 DEF s

\* The times after from are those up to u and those after u.
LEMMA SinceSplits ==
  ASSUME NEW times \in Seq(Time), NEW from \in Int, NEW u \in Int, from <= u
  PROVE  Cardinality(Since(times, from)) = Cardinality(UpTo(times, from, u)) + Cardinality(Since(times, u))
<1>1. ASSUME NEW j \in DOMAIN times
      PROVE  /\ j \in Since(times, from) <=> j \in UpTo(times, from, u) \/ j \in Since(times, u)
             /\ ~(j \in UpTo(times, from, u) /\ j \in Since(times, u))
  <2>1. times[j] \in Time
    OBVIOUS
  <2>2. times[j] \in Int
    BY <2>1, Numbers
  <2> QED
    BY <2>2 DEF Since, UpTo
<1>2. PICK A, B, C : A = Since(times, from) /\ B = UpTo(times, from, u) /\ C = Since(times, u)
  OBVIOUS
<1>3. A \subseteq DOMAIN times /\ B \subseteq DOMAIN times /\ C \subseteq DOMAIN times
  BY <1>2 DEF Since, UpTo
<1>4. A = B \cup C /\ B \cap C = {}
  BY <1>1, <1>2, <1>3
<1>5. IsFiniteSet(B) /\ IsFiniteSet(C) /\ Cardinality(B) \in Nat /\ Cardinality(C) \in Nat
  BY <1>2, PositionsAreFinite
<1>6. Cardinality(A) = Cardinality(B) + Cardinality(C) - Cardinality(B \cap C)
  BY <1>4, <1>5, FS_Union
<1>7. Cardinality(B \cap C) = 0
  BY <1>4, FS_EmptySet
<1> QED
  BY <1>2, <1>5, <1>6, <1>7

\* What the time to wait rests on.  Of the times in the window, let e be the one
\* that has m - 1 after it.  When e has left the window fewer than m are in it, and
\* as long as e is in the window at least m are.
LEMMA WaitingIsExact ==
  ASSUME NEW times \in Seq(Time), NEW from \in Int, NEW m \in Nat, m > 0,
         Cardinality(Since(times, from)) >= m,
         NEW e, e = OldestFirst(times, from)[Cardinality(Since(times, from)) - m + 1]
  PROVE  /\ e \in Time /\ from < e
         /\ Cardinality(Since(times, e)) < m
         /\ \A u \in Int : u < e => Cardinality(Since(times, u)) >= m
<1> DEFINE N == Cardinality(Since(times, from))
           C(t) == Cardinality(UpTo(times, from, t))
           D(t) == Cardinality(Since(times, t))
<1>1. N \in Nat /\ \A t \in Int : C(t) \in Nat /\ D(t) \in Nat
  BY PositionsAreFinite
<1>2. PICK i \in 1..N : i = N - m + 1
  BY <1>1
<1>3. e \in Time /\ C(e) >= i /\ \A t \in Int : t < e => C(t) < i
  BY <1>2, OrderStatistic
<1>4. /\ e \in Int /\ e - 1 \in Int /\ e - 1 < e /\ i \in Int /\ i >= 1
      /\ C(e) \in Nat /\ C(e - 1) \in Nat /\ D(e) \in Nat /\ D(e - 1) \in Nat
  <2>1. e \in Int /\ e - 1 \in Int /\ e - 1 < e
    BY <1>3, Numbers
  <2>2. i \in Int /\ i >= 1
    BY <1>1, <1>2
  <2> HIDE DEF N, C, D
  <2> QED
    BY <2>1, <2>2, <1>1
<1>5. from < e
  <2>1. UpTo(times, from, e) # {}
    <3>1. IsFiniteSet(UpTo(times, from, e)) /\ C(e) # 0
      <4>1. IsFiniteSet(UpTo(times, from, e))
        BY <1>4, PositionsAreFinite
      <4> HIDE DEF C
      <4> QED
        BY <4>1, <1>3, <1>4
    <3> QED
      BY <3>1, FS_EmptySet
  <2>2. PICK j \in UpTo(times, from, e) : TRUE
    BY <2>1
  <2>3. times[j] \in Time /\ times[j] > from /\ times[j] <= e
    BY DEF UpTo, Since
  <2>4. times[j] \in Int
    BY <2>3, Numbers
  <2> QED
    BY <2>3, <2>4, <1>4
<1>6. N = C(e) + D(e)
  BY <1>4, <1>5, SinceSplits
<1>7. N = C(e - 1) + D(e - 1)
  BY <1>4, <1>5, SinceSplits
<1> HIDE DEF N, C, D
<1>8. D(e) < m
  BY <1>2, <1>3, <1>4, <1>6
<1>9. D(e - 1) >= m
  <2>1. C(e - 1) < i
    BY <1>3, <1>4
  <2> QED
    BY <2>1, <1>2, <1>4, <1>7
<1>10. ASSUME NEW u \in Int, u < e PROVE D(u) >= m
  <2>1. Since(times, e - 1) \in SUBSET Since(times, u)
    <3>1. ASSUME NEW j \in Since(times, e - 1) PROVE j \in Since(times, u)
      <4>1. times[j] \in Time /\ times[j] > e - 1
        BY DEF Since
      <4>2. times[j] \in Int
        BY <4>1, Numbers
      <4> QED
        BY <4>1, <4>2, <1>4, <1>10 DEF Since
    <3> QED
      BY <3>1
  <2>2. D(e - 1) <= D(u)
    <3>1. IsFiniteSet(Since(times, u))
      BY PositionsAreFinite
    <3> QED
      BY <2>1, <3>1, FS_Subset DEF D
  <2> QED
    <3>1. D(u) \in Nat
      BY <1>1
    <3> QED
      BY <2>2, <3>1, <1>9, <1>4
<1> QED
  BY <1>3, <1>5, <1>8, <1>10 DEF D

-----------------------------------------------------------------------------
(* One row.                                                                 *)

MaybeRow == LimitRow \cup {NoRow}

\* A row lasts until its latest time has left the window.
Lasts(row) == \A i \in DOMAIN TimesOf(row) : TimesOf(row)[i] + Window <= row.expires

LEMMA TimesType ==
  /\ \A row \in MaybeRow : TimesOf(row) \in Seq(Time)
  /\ \A row \in LimitRow : row # NoRow /\ TimesOf(row) = row.times
  /\ TimesOf(NoRow) = <<>> /\ \A t \in Time : Occurs(TimesOf(NoRow), t) = 0
<1>1. \A row \in LimitRow : row # NoRow /\ TimesOf(row) = row.times
  BY NoRowIsNone DEF TimesOf
<1>2. TimesOf(NoRow) = <<>>
  BY DEF TimesOf
<1>3. <<>> \in Seq(Time) /\ DOMAIN <<>> = {}
  OBVIOUS
<1>4. \A t \in Time : Occurs(<<>>, t) = 0
  BY <1>3, OccursIsNat
<1>5. \A row \in LimitRow : row.times \in Seq(Time)
  BY DEF LimitRow
<1> QED
  BY <1>1, <1>2, <1>3, <1>4, <1>5 DEF MaybeRow

\* What a call finds in the window.
LEMMA ActiveFacts ==
  ASSUME NEW row \in MaybeRow, NEW now \in Int
  PROVE  /\ Active(row, now) \in Seq(Time)
         /\ Len(Active(row, now)) = Cardinality(Since(TimesOf(row), now - Window))
         /\ Len(Active(row, now)) \in Nat
         /\ \A t \in Time : Occurs(Active(row, now), t) =
                              IF t > now - Window THEN Occurs(TimesOf(row), t) ELSE 0
<1>1. PICK times \in Seq(Time), from \in Int : times = TimesOf(row) /\ from = now - Window
  BY TimesType, Numbers
<1>2. Active(row, now) = OldestFirst(times, from)
  BY <1>1 DEF Active
<1>3. /\ OldestFirst(times, from) \in Seq(Time)
      /\ Len(OldestFirst(times, from)) = Cardinality(Since(times, from))
      /\ Cardinality(Since(times, from)) \in Nat
  BY OldestFirstType
<1>4. \A t \in Time : Occurs(OldestFirst(times, from), t) = IF t > from THEN Occurs(times, t) ELSE 0
  BY SortingKeepsTimes
<1> QED
  BY <1>1, <1>2, <1>3, <1>4

\* A list of times that is not empty makes a row.
LEMMA RowType ==
  ASSUME NEW times \in Seq(Time), times # <<>>
  PROVE  /\ Row(times) \in LimitRow /\ TimesOf(Row(times)) = times
         /\ Row(times).expires = times[Len(times)] + Window
<1>1. times[Len(times)] \in Time
  OBVIOUS
<1>2. Expiry(times) \in Nat
  BY <1>1, Numbers DEF Expiry
<1>3. Row(times) \in LimitRow
  BY <1>2 DEF Row, LimitRow
<1> QED
  BY <1>3, TimesType DEF Row, Expiry

\* How often t is recorded when what is in the window is kept and now is added.
Kept(row, now, t) == IF t > now - Window THEN Occurs(TimesOf(row), t) ELSE 0

LEMMA RecordedFacts ==
  ASSUME NEW row \in MaybeRow, NEW now \in Time
  PROVE  /\ Recorded(row, now) \in LimitRow
         /\ \A t \in Time : Occurs(TimesOf(Recorded(row, now)), t) =
                              Kept(row, now, t) + IF t = now THEN 1 ELSE 0
<1>1. now \in Int
  BY Numbers
<1>2. PICK act \in Seq(Time) : act = Active(row, now)
  BY <1>1, ActiveFacts
<1>3. \A t \in Time : Occurs(act, t) = Kept(row, now, t)
  BY <1>1, <1>2, ActiveFacts DEF Kept
<1>4. PICK s \in Seq(Time) : s = Append(act, now) /\ s # <<>>
  <2>1. Append(act, now) \in Seq(Time) /\ Len(act) + 1 \in DOMAIN Append(act, now)
    OBVIOUS
  <2>2. DOMAIN <<>> = {}
    OBVIOUS
  <2> QED
    BY <2>1, <2>2
<1>5. \A t \in Time : Occurs(s, t) = Occurs(act, t) + IF t = now THEN 1 ELSE 0
  BY <1>4, AppendingCounts
<1>6. Recorded(row, now) = Row(s)
  BY <1>2, <1>4 DEF Recorded
<1>7. Row(s) \in LimitRow /\ TimesOf(Row(s)) = s
  BY <1>4, RowType
<1> QED
  BY <1>3, <1>5, <1>6, <1>7

\* A sorted list that is not empty makes a row that lasts.
LEMMA SortedRowLasts ==
  ASSUME NEW times \in Seq(Time), NEW from \in Int, Cardinality(Since(times, from)) > 0
  PROVE  /\ Row(OldestFirst(times, from)) \in LimitRow
         /\ TimesOf(Row(OldestFirst(times, from))) = OldestFirst(times, from)
         /\ Lasts(Row(OldestFirst(times, from)))
<1>1. PICK s \in Seq(Time) : s = OldestFirst(times, from)
  BY OldestFirstType
<1>2. s # <<>> /\ s[Len(s)] \in Time /\ \A i \in DOMAIN s : s[i] <= s[Len(s)]
  BY <1>1, LastIsLatest
<1>3. Row(s) \in LimitRow /\ TimesOf(Row(s)) = s /\ Row(s).expires = s[Len(s)] + Window
  BY <1>2, RowType
<1>4. ASSUME NEW i \in DOMAIN s PROVE s[i] + Window <= s[Len(s)] + Window
  <2>1. s[i] \in Time
    OBVIOUS
  <2> QED
    BY <2>1, <1>2, Numbers
<1> QED
  BY <1>1, <1>3, <1>4 DEF Lasts

LEMMA AllowedFacts ==
  ASSUME NEW row \in MaybeRow, NEW now \in Time
  PROVE  /\ Allowed(row, now) \in LimitRow /\ Lasts(Allowed(row, now))
         /\ \A t \in Time : Occurs(TimesOf(Allowed(row, now)), t) =
                              Kept(row, now, t) + IF t = now THEN 1 ELSE 0
<1>1. now \in Int /\ -1 \in Int
  BY Numbers
<1>2. PICK act \in Seq(Time) : act = Active(row, now)
  BY <1>1, ActiveFacts
<1>3. \A t \in Time : Occurs(act, t) = Kept(row, now, t)
  BY <1>1, <1>2, ActiveFacts DEF Kept
<1>4. PICK s \in Seq(Time) : s = Append(act, now) /\ s # <<>>
  <2>1. Append(act, now) \in Seq(Time) /\ Len(act) + 1 \in DOMAIN Append(act, now)
    OBVIOUS
  <2>2. DOMAIN <<>> = {}
    OBVIOUS
  <2> QED
    BY <2>1, <2>2
<1>5. \A t \in Time : Occurs(s, t) = Occurs(act, t) + IF t = now THEN 1 ELSE 0
  BY <1>4, AppendingCounts
<1>6. \A t \in Time : t > -1
  BY Numbers
<1>7. \A t \in Time : Occurs(OldestFirst(s, -1), t) = Occurs(s, t)
  BY <1>1, <1>6, SortingKeepsTimes
<1>8. Cardinality(Since(s, -1)) > 0
  <2>1. Len(s) \in DOMAIN s
    BY <1>4
  <2>2. s[Len(s)] \in Time
    BY <2>1
  <2>3. Len(s) \in Since(s, -1)
    BY <2>1, <2>2, <1>6 DEF Since
  <2>4. IsFiniteSet(Since(s, -1)) /\ Cardinality(Since(s, -1)) \in Nat
    BY <1>1, PositionsAreFinite
  <2> QED
    BY <2>3, <2>4, FS_EmptySet
<1>9. /\ Row(OldestFirst(s, -1)) \in LimitRow /\ TimesOf(Row(OldestFirst(s, -1))) = OldestFirst(s, -1)
      /\ Lasts(Row(OldestFirst(s, -1)))
  BY <1>1, <1>8, SortedRowLasts
<1>10. Allowed(row, now) = Row(OldestFirst(s, -1))
  BY <1>2, <1>4 DEF Allowed
<1> QED
  BY <1>3, <1>5, <1>7, <1>9, <1>10

LEMMA PrunedFacts ==
  ASSUME NEW row \in MaybeRow, NEW now \in Time, Len(Active(row, now)) > 0
  PROVE  /\ Pruned(row, now) \in LimitRow /\ Lasts(Pruned(row, now))
         /\ \A t \in Time : Occurs(TimesOf(Pruned(row, now)), t) = Kept(row, now, t)
<1>1. now \in Int
  BY Numbers
<1>2. PICK times \in Seq(Time), from \in Int : times = TimesOf(row) /\ from = now - Window
  BY <1>1, TimesType, Numbers
<1>3. Cardinality(Since(times, from)) > 0
  BY <1>1, <1>2, ActiveFacts
<1>4. Pruned(row, now) = Row(OldestFirst(times, from))
  BY <1>2 DEF Pruned, Active
<1>5. /\ Row(OldestFirst(times, from)) \in LimitRow
      /\ TimesOf(Row(OldestFirst(times, from))) = OldestFirst(times, from)
      /\ Lasts(Row(OldestFirst(times, from)))
  BY <1>3, SortedRowLasts
<1>6. \A t \in Time : Occurs(OldestFirst(times, from), t) = Kept(row, now, t)
  BY <1>2, SortingKeepsTimes DEF Kept
<1> QED
  BY <1>4, <1>5, <1>6

\* Taking a reservation out: it counts once less if it was there, and nothing
\* counts more.
LEMMA WithoutFacts ==
  ASSUME NEW row \in MaybeRow, NEW t \in Time
  PROVE  /\ Without(row, t) \in MaybeRow /\ (row # NoRow => Without(row, t) # NoRow)
         /\ \A u \in Time : Occurs(TimesOf(Without(row, t)), u) <= Occurs(TimesOf(row), u)
         /\ \/ Occurs(TimesOf(Without(row, t)), t) = 0
            \/ Occurs(TimesOf(Without(row, t)), t) <= Occurs(TimesOf(row), t) - 1
<1>1. CASE row = NoRow
  <2>1. Without(row, t) = NoRow
    BY <1>1 DEF Without
  <2> QED
    BY <1>1, <2>1, TimesType DEF MaybeRow
<1>2. CASE row # NoRow
  <2>1. row \in LimitRow
    BY <1>2 DEF MaybeRow
  <2>2. PICK times \in Seq(Time) : times = TimesOf(row)
    BY TimesType
  <2>3. PICK found : found = {i \in DOMAIN times : times[i] = t}
    OBVIOUS
  <2>4. PICK rest : rest = IF found = {} THEN times ELSE RemoveAt(times, Max(found))
    OBVIOUS
  <2>5. Without(row, t) = [times |-> rest, expires |-> IF rest = <<>> THEN row.expires ELSE Expiry(rest)]
    BY <1>2, <2>2, <2>3, <2>4 DEF Without
  <2>6. /\ rest \in Seq(Time)
        /\ \A u \in Time : Occurs(rest, u) <= Occurs(times, u)
        /\ Occurs(rest, t) = 0 \/ Occurs(rest, t) <= Occurs(times, t) - 1
    <3>1. CASE found = {}
      <4>1. rest = times /\ Occurs(times, t) = 0
        BY <2>3, <2>4, <3>1, OccursIsNat
      <4>2. \A u \in Time : Occurs(times, u) \in Nat
        BY OccursIsNat
      <4> QED
        BY <4>1, <4>2
    <3>2. CASE found # {}
      <4>1. Max(found) \in found
        <5>1. IsFiniteSet(found)
          BY <2>3, OccursIsNat
        <5>2. \A x \in found : x \in Int
          BY <2>3
        <5>3. \E x \in found : \A y \in found : x >= y
          BY <3>2, <5>1, <5>2, ExtremesExist
        <5> QED
          BY <5>3 DEF Max
      <4>2. PICK i \in DOMAIN times : i = Max(found) /\ times[i] = t
        BY <2>3, <4>1
      <4>3. rest = RemoveAt(times, i)
        BY <2>4, <3>2, <4>2
      <4>4. rest \in Seq(Time) /\ \A u \in Time : Occurs(rest, u) <= Occurs(times, u) - IF u = t THEN 1 ELSE 0
        BY <4>2, <4>3, RemovingCounts
      <4>5. \A u \in Time : Occurs(times, u) \in Nat /\ Occurs(rest, u) \in Nat
        BY <4>4, OccursIsNat
      <4>6. ASSUME NEW u \in Time PROVE Occurs(rest, u) <= Occurs(times, u)
        <5>1. Occurs(times, u) \in Nat /\ Occurs(rest, u) \in Nat
          BY <4>5
        <5>2. CASE u = t
          BY <4>4, <5>1, <5>2
        <5>3. CASE u # t
          BY <4>4, <5>1, <5>3
        <5> QED
          BY <5>2, <5>3
      <4>7. Occurs(rest, t) <= Occurs(times, t) - 1
        BY <4>4, <4>5
      <4> QED
        BY <4>4, <4>6, <4>7
    <3> QED
      BY <3>1, <3>2
  <2>7. (IF rest = <<>> THEN row.expires ELSE Expiry(rest)) \in Nat
    <3>1. CASE rest = <<>>
      BY <2>1, <3>1 DEF LimitRow
    <3>2. CASE rest # <<>>
      <4>1. rest[Len(rest)] \in Time
        BY <2>6, <3>2
      <4> QED
        BY <3>2, <4>1, Numbers DEF Expiry
    <3> QED
      BY <3>1, <3>2
  <2>8. Without(row, t) \in LimitRow
    BY <2>5, <2>6, <2>7 DEF LimitRow
  <2>9. TimesOf(Without(row, t)) = rest
    BY <2>5, <2>8, TimesType
  <2>10. Without(row, t) # NoRow
    BY <2>8, TimesType
  <2> QED
    BY <2>2, <2>6, <2>8, <2>9, <2>10 DEF MaybeRow
<1> QED
  BY <1>1, <1>2

-----------------------------------------------------------------------------
(* The inductive invariant.                                                 *)

\* What a request may carry.
Tried == {<<k>> : k \in Credentials} \cup (Sessions \X Bearers)

\* A request under way: it has at most one reservation of each credential, none of
\* a credential it has yet to try, and, from the moment the credential it found is
\* to be charged, that one alone.
Sound(r) ==
  /\ r.pc = "allow" => r.held = {} /\ \E a \in Addresses : r.todo = <<a>>
  /\ r.pc \in {"begin", "reserve", "lookup"} => r.todo \in Tried /\ r.winner = NoRow
  /\ r.pc \in {"begin", "reserve"} => \A h \in r.held : \A i \in DOMAIN r.todo : h[1] # r.todo[i]
  /\ r.pc = "lookup" => /\ \E h \in r.held : h[1] = r.todo[1]
                        /\ \A h \in r.held : Len(r.todo) > 1 => h[1] # r.todo[2]
  /\ \A g, h \in r.held : g[1] = h[1] => g = h
  /\ r.pc = "settle" /\ r.winner # NoRow => \E h \in r.held : h[1] = r.winner
  /\ r.pc = "admit" => \E h \in r.held : h[1] = r.winner /\ r.held = {h}

RequestsAreSound == \A q \in Requests : requests[q] # NoRequest => Sound(requests[q])

\* A call decides with a time that has passed.
CallsLookBack == \A q \in Requests : requests[q] # NoRequest => requests[q].now <= clock

AddressRowsLast == \A k \in Addresses : Lasts(rows[k])

\* What PublicRequestsCount says of addresses.
AddressesCount ==
  \A k \in Addresses, t \in Time : t > clock - Window => Count(k, t) = charged[k][t]

RateInv ==
  /\ RateTypeOK /\ RequestsAreSound /\ CallsLookBack /\ AddressRowsLast
  /\ AddressesCount /\ NothingIsChargedTwice

-----------------------------------------------------------------------------
(* What becomes of a request.                                               *)

LEMMA TriedFacts ==
  ASSUME NEW todo \in Tried
  PROVE  /\ todo \in Seq(Keys) /\ todo[1] \in Credentials
         /\ Len(todo) = 1 => DOMAIN todo = {1}
         /\ Len(todo) # 1 => /\ Len(todo) = 2 /\ DOMAIN todo = {1, 2} /\ todo[2] \in Credentials
                             /\ todo[1] # todo[2] /\ Tail(todo) = <<todo[2]>> /\ Tail(todo) \in Tried
<1>1. CASE \E k \in Credentials : todo = <<k>>
  <2>1. PICK k \in Credentials : todo = <<k>>
    BY <1>1
  <2>2. k \in Keys
    BY DEF Keys
  <2>3. todo \in Seq(Keys) /\ Len(todo) = 1 /\ todo[1] = k /\ DOMAIN todo = {1}
    BY <2>1, <2>2
  <2> QED
    BY <2>3
<1>2. CASE todo \in Sessions \X Bearers
  <2>1. PICK s \in Sessions, b \in Bearers : todo = <<s, b>>
    BY <1>2
  <2>2. s \in Credentials /\ b \in Credentials /\ s \in Keys /\ b \in Keys /\ s # b
    BY ScopesAreDisjoint DEF Credentials, Keys
  <2>3. todo \in Seq(Keys) /\ Len(todo) = 2 /\ todo[1] = s /\ todo[2] = b /\ DOMAIN todo = {1, 2}
    BY <2>1, <2>2
  <2>4. Tail(todo) = <<b>>
    BY <2>1
  <2>5. <<b>> \in Tried
    BY <2>2 DEF Tried
  <2> QED
    BY <2>2, <2>3, <2>4, <2>5
<1> QED
  BY <1>1, <1>2 DEF Tried

\* A failure of the limiter is remembered.
LEMMA BrokenIsSound ==
  ASSUME NEW r \in Request, Sound(r), NEW r2, r2 = [r EXCEPT !.broken = TRUE]
  PROVE  /\ r2 \in Request /\ Sound(r2) /\ r2.pc = r.pc /\ r2.now = r.now /\ r2.held = r.held
<1>1. r2 \in Request
  BY DEF Request
<1>2. r2.pc = r.pc /\ r2.now = r.now /\ r2.held = r.held /\ r2.todo = r.todo /\ r2.winner = r.winner
  BY DEF Request
<1> QED
  BY <1>1, <1>2 DEF Sound

\* The clock is read, to reserve a slot or to charge the account.
MayRead(r) ==
  r.pc = "begin" \/ (r.pc = "settle" /\ r.winner # NoRow /\ \A h \in r.held : h[1] = r.winner)

ReadAt(r, p, c) == [r EXCEPT !.pc = p, !.now = c]

LEMMA ReadIsSound ==
  ASSUME NEW r \in Request, Sound(r), NEW c \in Time, MayRead(r),
         NEW p \in {"reserve", "admit"}, p = "reserve" <=> r.pc = "begin"
  PROVE  \E r2 \in Request : r2 = ReadAt(r, p, c) /\ Sound(r2) /\ r2.now = c /\ r2.held = r.held
<1> DEFINE r2 == ReadAt(r, p, c)
<1>1. r2 \in Request
  BY DEF Request, ReadAt
<1>2. /\ r2.now = c /\ r2.held = r.held /\ r2.todo = r.todo /\ r2.winner = r.winner /\ r2.pc = p
  BY DEF Request, ReadAt
<1>s. SUFFICES Sound(r2)
  BY <1>1, <1>2
<1> HIDE DEF r2
<1>3. CASE r.pc = "begin"
  BY <1>1, <1>2, <1>3 DEF Sound
<1>4. CASE r.pc = "settle" /\ r.winner # NoRow /\ \A h \in r.held : h[1] = r.winner
  <2>1. PICK g \in r.held : g[1] = r.winner
    BY <1>4 DEF Sound
  <2>2. \A a, b \in r.held : a[1] = b[1] => a = b
    BY DEF Sound
  <2>3. r.held = {g}
    BY <1>4, <2>1, <2>2
  <2> QED
    BY <1>1, <1>2, <1>4, <2>1, <2>2, <2>3 DEF Sound
<1> QED
  BY <1>3, <1>4 DEF MayRead

\* A slot is reserved.
LEMMA ReservedIsSound ==
  ASSUME NEW r \in Request, Sound(r), r.pc = "reserve",
         NEW r2, r2 = [r EXCEPT !.pc = "lookup", !.now = 0, !.held = @ \cup {<<r.todo[1], r.now>>}]
  PROVE  /\ r2 \in Request /\ Sound(r2) /\ r2.now = 0
         /\ r2.held = r.held \cup {<<r.todo[1], r.now>>}
         /\ <<r.todo[1], r.now>> \notin r.held /\ r.todo[1] \in Credentials /\ r.now \in Time
<1>1. PICK k, n : k = r.todo[1] /\ n = r.now
  OBVIOUS
<1>2. r.todo \in Tried /\ r.winner = NoRow
  BY DEF Sound
<1>3. k \in Credentials /\ n \in Time /\ r.held \in SUBSET (Credentials \X Time) /\ 0 \in Time
  BY <1>1, <1>2, TriedFacts, Numbers DEF Request, Time
<1>4. r2 \in Request
  <2>0. <<k, n>> \in Credentials \X Time
    BY <1>3
  <2>1. PICK H \in SUBSET (Credentials \X Time) : H = r.held \cup {<<k, n>>}
    BY <1>3, <2>0, Zenon
  <2>2. r2 = [r EXCEPT !.pc = "lookup", !.now = 0, !.held = H]
    BY <1>1, <2>1
  <2> QED
    BY <1>3, <2>2 DEF Request
<1>5. /\ r2.pc = "lookup" /\ r2.now = 0 /\ r2.held = r.held \cup {<<k, n>>} /\ r2.todo = r.todo
      /\ r2.winner = r.winner
  BY <1>1 DEF Request
<1>6. ASSUME NEW h \in r.held PROVE h[1] # k /\ (Len(r.todo) > 1 => h[1] # r.todo[2])
  <2>1. \A i \in DOMAIN r.todo : h[1] # r.todo[i]
    BY DEF Sound
  <2>2. 1 \in DOMAIN r.todo /\ (Len(r.todo) # 1 => 2 \in DOMAIN r.todo)
    BY <1>2, TriedFacts
  <2> QED
    BY <1>1, <2>1, <2>2
<1>7. <<k, n>>[1] = k
  OBVIOUS
<1>8. \A g, h \in r2.held : g[1] = h[1] => g = h
  <2>1. \A g, h \in r.held : g[1] = h[1] => g = h
    BY DEF Sound
  <2> QED
    BY <2>1, <1>5, <1>6, <1>7
<1>9. \A h \in r2.held : Len(r.todo) > 1 => h[1] # r.todo[2]
  <2>1. Len(r.todo) > 1 => k # r.todo[2]
    BY <1>1, <1>2, TriedFacts
  <2> QED
    BY <2>1, <1>5, <1>6, <1>7
<1>10. \E h \in r2.held : h[1] = k
  BY <1>5, <1>7
<1>11. Sound(r2)
  BY <1>1, <1>2, <1>5, <1>8, <1>9, <1>10 DEF Sound
<1>12. <<k, n>> \notin r.held
  BY <1>6, <1>7
<1> QED
  BY <1>1, <1>3, <1>4, <1>5, <1>11, <1>12

\* The next credential is tried.
LEMMA NextIsSound ==
  ASSUME NEW r \in Request, Sound(r), r.pc \in {"reserve", "lookup"}, Len(r.todo) > 1,
         NEW r2, r2 = [r EXCEPT !.pc = "begin", !.todo = Tail(@)]
  PROVE  r2 \in Request /\ Sound(r2) /\ r2.now = r.now /\ r2.held = r.held
<1>1. r.todo \in Tried /\ r.winner = NoRow
  BY DEF Sound
<1>2. /\ DOMAIN r.todo = {1, 2} /\ r.todo[2] \in Credentials
      /\ Tail(r.todo) = <<r.todo[2]>> /\ Tail(r.todo) \in Tried
  BY <1>1, TriedFacts
<1>3. Tail(r.todo) \in Seq(Keys)
  BY <1>2, TriedFacts
<1>4. r2 \in Request
  BY <1>3 DEF Request
<1>5. /\ r2.pc = "begin" /\ r2.now = r.now /\ r2.held = r.held /\ r2.todo = Tail(r.todo)
      /\ r2.winner = r.winner
  BY DEF Request
<1>6. ASSUME NEW h \in r.held PROVE h[1] # r.todo[2]
  <2>1. CASE r.pc = "reserve"
    BY <2>1, <1>2 DEF Sound
  <2>2. CASE r.pc = "lookup"
    BY <2>2 DEF Sound
  <2> QED
    BY <2>1, <2>2
<1>7. \A i \in DOMAIN <<r.todo[2]>> : <<r.todo[2]>>[i] = r.todo[2]
  OBVIOUS
<1>8. \A h \in r2.held : \A i \in DOMAIN r2.todo : h[1] # r2.todo[i]
  BY <1>2, <1>5, <1>6, <1>7
<1>9. \A g, h \in r2.held : g[1] = h[1] => g = h
  BY <1>5 DEF Sound
<1>10. Sound(r2)
  BY <1>1, <1>2, <1>5, <1>8, <1>9 DEF Sound
<1> QED
  BY <1>4, <1>5, <1>10

\* What it holds is to be given back.
LEMMA GivesBackIsSound ==
  ASSUME NEW r \in Request, Sound(r), r.pc \in {"reserve", "lookup"},
         NEW r2, r2 = [r EXCEPT !.pc = "settle", !.todo = <<>>]
  PROVE  r2 \in Request /\ Sound(r2) /\ r2.now = r.now /\ r2.held = r.held
<1>1. r.winner = NoRow
  BY DEF Sound
<1>2. r2 \in Request
  <2>1. <<>> \in Seq(Keys)
    OBVIOUS
  <2> QED
    BY <2>1 DEF Request
<1>3. r2.pc = "settle" /\ r2.now = r.now /\ r2.held = r.held /\ r2.winner = r.winner
  BY DEF Request
<1>4. \A g, h \in r2.held : g[1] = h[1] => g = h
  BY <1>3 DEF Sound
<1> QED
  BY <1>1, <1>2, <1>3, <1>4 DEF Sound

\* The credential was looked up: w is the one that was found, or none.
LEMMA LookedUpIsSound ==
  ASSUME NEW r \in Request, Sound(r), r.pc = "lookup", NEW w \in {NoRow, r.todo[1]},
         NEW r2, r2 = [r EXCEPT !.pc = "settle", !.winner = w]
  PROVE  r2 \in Request /\ Sound(r2) /\ r2.now = r.now /\ r2.held = r.held
<1>1. r.todo[1] \in Credentials
  BY TriedFacts DEF Sound
<1>2. r2 \in Request
  BY <1>1 DEF Request
<1>3. r2.pc = "settle" /\ r2.now = r.now /\ r2.held = r.held /\ r2.winner = w
  BY DEF Request
<1>4. \A g, h \in r2.held : g[1] = h[1] => g = h
  BY <1>3 DEF Sound
<1>5. \E h \in r2.held : h[1] = r.todo[1]
  BY <1>3 DEF Sound
<1> QED
  BY <1>2, <1>3, <1>4, <1>5 DEF Sound

\* One reservation is given back.
LEMMA CancelledIsSound ==
  ASSUME NEW r \in Request, Sound(r), r.pc = "settle", NEW h \in r.held, h[1] # r.winner,
         NEW r2, r2 = [r EXCEPT !.held = @ \ {h}]
  PROVE  r2 \in Request /\ Sound(r2) /\ r2.now = r.now /\ r2.held = r.held \ {h}
<1>1. r2 \in Request
  BY DEF Request
<1>2. r2.pc = "settle" /\ r2.now = r.now /\ r2.held = r.held \ {h} /\ r2.winner = r.winner
  BY DEF Request
<1>3. \A f, g \in r2.held : f[1] = g[1] => f = g
  BY <1>2 DEF Sound
<1>4. r2.winner # NoRow => \E g \in r2.held : g[1] = r2.winner
  BY <1>2 DEF Sound
<1> QED
  BY <1>1, <1>2, <1>3, <1>4 DEF Sound

-----------------------------------------------------------------------------
(* What becomes of the rows.                                                *)

LEMMA CountIsNat ==
  ASSUME rows \in [Keys -> MaybeRow]
  PROVE  \A k \in Keys, t \in Time : Count(k, t) \in Nat
<1> SUFFICES ASSUME NEW k \in Keys, NEW t \in Time PROVE Count(k, t) \in Nat
  OBVIOUS
<1>1. PICK s \in Seq(Time) : s = TimesOf(rows[k])
  BY TimesType
<1> QED
  BY <1>1, OccursIsNat DEF Count

LEMMA CountIsNatNext ==
  ASSUME rows' \in [Keys -> MaybeRow]
  PROVE  \A k \in Keys, t \in Time : Count(k, t)' \in Nat
<1> SUFFICES ASSUME NEW k \in Keys, NEW t \in Time PROVE Count(k, t)' \in Nat
  OBVIOUS
<1>1. PICK s \in Seq(Time) : s = TimesOf(rows'[k])
  BY TimesType
<1> QED
  BY <1>1, OccursIsNat DEF Count

\* What is kept of a row at a time that has passed.
LEMMA KeptFacts ==
  ASSUME NEW row \in MaybeRow, NEW now \in Time, NEW c \in Time, now <= c, NEW t \in Time
  PROVE  /\ Kept(row, now, t) \in Nat /\ Kept(row, now, t) <= Occurs(TimesOf(row), t)
         /\ t > c - Window => Kept(row, now, t) = Occurs(TimesOf(row), t)
<1>1. Occurs(TimesOf(row), t) \in Nat
  BY TimesType, OccursIsNat
<1>2. now \in Int /\ c \in Int /\ t \in Int /\ Window \in Int
  BY Numbers
<1> QED
  BY <1>1, <1>2 DEF Kept

\* Rows that have expired are deleted.  No row counts more, and the row of an
\* address goes only when its times have left the window.
LEMMA SweptFacts ==
  ASSUME rows \in [Keys -> MaybeRow], AddressRowsLast, clock \in Time, NEW n \in Time, n <= clock
  PROVE  /\ Swept(n) \in [Keys -> MaybeRow]
         /\ \A k \in Keys, t \in Time : Occurs(TimesOf(Swept(n)[k]), t) <= Count(k, t)
         /\ \A k \in Addresses : Lasts(Swept(n)[k])
         /\ \A k \in Addresses, t \in Time :
              t > clock - Window => Occurs(TimesOf(Swept(n)[k]), t) = Count(k, t)
<1>1. \A k \in Keys : Swept(n)[k] = IF rows[k] # NoRow /\ rows[k].expires <= n THEN NoRow ELSE rows[k]
  BY DEF Swept
<1>2. Swept(n) \in [Keys -> MaybeRow]
  BY DEF Swept, MaybeRow
<1>3. \A k \in Keys, t \in Time : Count(k, t) \in Nat
  BY CountIsNat
<1>4. ASSUME NEW k \in Keys, NEW t \in Time PROVE Occurs(TimesOf(Swept(n)[k]), t) <= Count(k, t)
  <2>1. CASE Swept(n)[k] = NoRow
    <3>1. Occurs(TimesOf(Swept(n)[k]), t) = 0
      BY <2>1, TimesType
    <3>2. Count(k, t) \in Nat
      BY <1>3
    <3> QED
      BY <3>1, <3>2
  <2>2. CASE Swept(n)[k] = rows[k]
    <3>1. Count(k, t) \in Nat
      BY <1>3
    <3> QED
      BY <2>2, <3>1 DEF Count
  <2> QED
    BY <2>1, <2>2, <1>1
<1>5. ASSUME NEW k \in Addresses
      PROVE  /\ Lasts(Swept(n)[k])
             /\ \A t \in Time : t > clock - Window => Occurs(TimesOf(Swept(n)[k]), t) = Count(k, t)
  <2>1. k \in Keys
    BY DEF Keys
  <2>2. CASE Swept(n)[k] = rows[k]
    BY <2>2 DEF AddressRowsLast, Count
  <2>3. CASE Swept(n)[k] = NoRow /\ rows[k] # NoRow /\ rows[k].expires <= n
    <3>1. TimesOf(Swept(n)[k]) = <<>> /\ \A t \in Time : Occurs(TimesOf(Swept(n)[k]), t) = 0
      BY <2>3, TimesType
    <3>2. DOMAIN <<>> = {}
      OBVIOUS
    <3>3. Lasts(Swept(n)[k])
      BY <3>1, <3>2 DEF Lasts
    <3>4. ASSUME NEW t \in Time, t > clock - Window PROVE Count(k, t) = 0
      <4>1. PICK s \in Seq(Time), e \in Nat : s = TimesOf(rows[k]) /\ e = rows[k].expires
        <5>1. rows[k] \in LimitRow
          BY <2>1, <2>3 DEF MaybeRow
        <5> QED
          BY <5>1, TimesType DEF LimitRow
      <4>2. ASSUME NEW i \in DOMAIN s, s[i] = t PROVE FALSE
        <5>1. s[i] + Window <= e
          BY <4>1 DEF AddressRowsLast, Lasts
        <5>2. t \in Int /\ clock \in Int /\ n \in Int /\ Window \in Int
          BY Numbers
        <5> QED
          BY <5>1, <5>2, <4>1, <4>2, <2>3, <3>4
      <4>3. Occurs(s, t) = 0
        BY <4>2, OccursIsNat
      <4> QED
        BY <4>1, <4>3 DEF Count
    <3> QED
      BY <3>1, <3>3, <3>4
  <2> QED
    BY <1>1, <2>1, <2>2, <2>3
<1> QED
  BY <1>2, <1>4, <1>5

-----------------------------------------------------------------------------
(* What a step has to see to.                                               *)

Holds(r, k, t) == r # NoRequest /\ <<k, t>> \in r.held
Holders(k, t) == {q \in Requests : Holds(requests[q], k, t)}

\* One request more or less is counted.
LEMMA OneMoreOrLess ==
  ASSUME NEW S \in SUBSET Requests, NEW T \in SUBSET Requests, NEW q \in Requests,
         \A p \in Requests : p # q => (p \in S <=> p \in T)
  PROVE  /\ Cardinality(S) \in Nat /\ Cardinality(T) \in Nat
         /\ Cardinality(T) + (IF q \in S THEN 1 ELSE 0) = Cardinality(S) + (IF q \in T THEN 1 ELSE 0)
         /\ q \in S => Cardinality(S) > 0
<1>1. IsFiniteSet(S) /\ IsFiniteSet(T)
  BY RateAssumptions, FS_Subset
<1>2. Cardinality(S) \in Nat /\ Cardinality(T) \in Nat
  BY <1>1, FS_CardinalityType
<1>3. S \ {q} = T \ {q}
  OBVIOUS
<1>4. Cardinality(S \ {q}) = IF q \in S THEN Cardinality(S) - 1 ELSE Cardinality(S)
  BY <1>1, FS_RemoveElement
<1>5. Cardinality(T \ {q}) = IF q \in T THEN Cardinality(T) - 1 ELSE Cardinality(T)
  BY <1>1, FS_RemoveElement
<1>6. q \in S => Cardinality(S) # 0
  BY <1>1, FS_EmptySet
<1> QED
  BY <1>2, <1>3, <1>4, <1>5, <1>6

\* What a step of q that leaves it as r has to see to: a credential's count grows
\* by no more than what q now holds of it, and what q lets go is charged, unless
\* the count goes down with it.
Balanced(q, r) ==
  \A k \in Credentials, t \in Time :
    \/ Count(k, t)' = 0
    \/ Count(k, t)' + charged[k][t] + (IF Holds(requests[q], k, t) THEN 1 ELSE 0)
         <= Count(k, t) + charged'[k][t] + (IF Holds(r, k, t) THEN 1 ELSE 0)

LEMMA BalanceSuffices ==
  ASSUME RateTypeOK, RateTypeOK', NothingIsChargedTwice, NEW q \in Requests, NEW r,
         requests' = [requests EXCEPT ![q] = r], Balanced(q, r)
  PROVE  NothingIsChargedTwice'
<1>1. SUFFICES ASSUME NEW k \in Credentials, NEW t \in Time
               PROVE  Count(k, t)' <= charged'[k][t] + Cardinality(Holders(k, t)')
  BY <1>1 DEF NothingIsChargedTwice, Holders, Holds
<1>2. k \in Keys /\ k \in Credentials \cup Addresses
  BY DEF Keys
<1>3. /\ rows \in [Keys -> MaybeRow] /\ rows' \in [Keys -> MaybeRow]
      /\ charged[k][t] \in Nat /\ charged'[k][t] \in Nat
  BY <1>2 DEF RateTypeOK, MaybeRow
<1>4. Count(k, t) \in Nat /\ Count(k, t)' \in Nat
  BY <1>2, <1>3, CountIsNat, CountIsNatNext
<1>5. PICK S \in SUBSET Requests, T \in SUBSET Requests : S = Holders(k, t) /\ T = Holders(k, t)'
  BY DEF Holders
<1>6. requests \in [Requests -> Request \cup {NoRequest}]
  BY DEF RateTypeOK
<1>7. \A p \in Requests : p # q => (p \in S <=> p \in T)
  BY <1>5, <1>6 DEF Holders
<1>8. (q \in S <=> Holds(requests[q], k, t)) /\ (q \in T <=> Holds(r, k, t))
  BY <1>5, <1>6 DEF Holders
<1>9. Count(k, t) <= charged[k][t] + Cardinality(S)
  BY <1>5 DEF NothingIsChargedTwice, Holders, Holds
<1>10. /\ Cardinality(S) \in Nat /\ Cardinality(T) \in Nat
       /\ Cardinality(T) + (IF q \in S THEN 1 ELSE 0) = Cardinality(S) + (IF q \in T THEN 1 ELSE 0)
  BY <1>7, OneMoreOrLess
<1>11. \/ Count(k, t)' = 0
       \/ Count(k, t)' + charged[k][t] + (IF q \in S THEN 1 ELSE 0)
            <= Count(k, t) + charged'[k][t] + (IF q \in T THEN 1 ELSE 0)
  BY <1>8 DEF Balanced
<1>12. PICK c0 \in Nat, c1 \in Nat, d0 \in Nat, d1 \in Nat :
         c0 = Count(k, t) /\ c1 = Count(k, t)' /\ d0 = charged[k][t] /\ d1 = charged'[k][t]
  BY <1>3, <1>4
<1>13. c1 <= d1 + Cardinality(T)
  BY <1>9, <1>10, <1>11, <1>12
<1> QED
  BY <1>5, <1>12, <1>13

\* When no request changes, no count may grow.
LEMMA FewerCounts ==
  ASSUME RateTypeOK, RateTypeOK', NothingIsChargedTwice, UNCHANGED <<requests, charged>>,
         \A k \in Credentials, t \in Time : Count(k, t)' <= Count(k, t)
  PROVE  NothingIsChargedTwice'
<1>1. SUFFICES ASSUME NEW k \in Credentials, NEW t \in Time
               PROVE  Count(k, t)' <= charged'[k][t] + Cardinality(Holders(k, t)')
  BY <1>1 DEF NothingIsChargedTwice, Holders, Holds
<1>2. k \in Keys /\ k \in Credentials \cup Addresses
  BY DEF Keys
<1>3. /\ rows \in [Keys -> MaybeRow] /\ rows' \in [Keys -> MaybeRow] /\ charged[k][t] \in Nat
  BY <1>2 DEF RateTypeOK, MaybeRow
<1>4. Count(k, t) \in Nat /\ Count(k, t)' \in Nat
  BY <1>2, <1>3, CountIsNat, CountIsNatNext
<1>5. PICK S \in SUBSET Requests : S = Holders(k, t) /\ S = Holders(k, t)'
  BY DEF Holders
<1>6. Cardinality(S) \in Nat
  BY RateAssumptions, FS_Subset, FS_CardinalityType
<1>7. Count(k, t) <= charged[k][t] + Cardinality(S)
  BY <1>5 DEF NothingIsChargedTwice, Holders, Holds
<1>8. Count(k, t)' <= Count(k, t)
  OBVIOUS
<1>9. Count(k, t)' <= charged[k][t] + Cardinality(S)
  BY <1>3, <1>4, <1>6, <1>7, <1>8
<1> QED
  BY <1>5, <1>9

\* The part of the invariant that is about requests.
LEMMA EnterSuffices ==
  ASSUME RateTypeOK, RequestsAreSound, CallsLookBack, NEW q \in Requests, NEW r,
         requests' = [requests EXCEPT ![q] = r], clock' = clock,
         r = NoRequest \/ (r \in Request /\ Sound(r) /\ r.now <= clock)
  PROVE  /\ requests' \in [Requests -> Request \cup {NoRequest}]
         /\ RequestsAreSound' /\ CallsLookBack'
<1>1. requests \in [Requests -> Request \cup {NoRequest}]
  BY DEF RateTypeOK
<1>2. requests' \in [Requests -> Request \cup {NoRequest}]
  BY <1>1
<1>3. \A p \in Requests : requests'[p] = IF p = q THEN r ELSE requests[p]
  BY <1>1
<1>4. RequestsAreSound'
  BY <1>3 DEF RequestsAreSound
<1>5. CallsLookBack'
  BY <1>3 DEF CallsLookBack
<1> QED
  BY <1>2, <1>4, <1>5

\* The part about addresses, when a step leaves them alone.
LEMMA AddressesLeftAlone ==
  ASSUME AddressRowsLast, AddressesCount, clock \in Time, clock' \in Time, clock' >= clock,
         \A k \in Addresses : rows'[k] = rows[k] /\ charged'[k] = charged[k]
  PROVE  AddressRowsLast' /\ AddressesCount'
<1>1. AddressRowsLast'
  BY DEF AddressRowsLast
<1>2. ASSUME NEW k \in Addresses, NEW t \in Time, t > clock' - Window
      PROVE  Count(k, t)' = charged'[k][t]
  <2>1. t > clock - Window
    <3>1. PICK c \in Int, d \in Int : c = clock /\ d = clock'
      BY Numbers
    <3>2. t \in Int /\ Window \in Int
      BY Numbers
    <3>3. t > d - Window
      BY <1>2, <3>1
    <3>4. d >= c
      BY <3>1
    <3>5. t > c - Window
      BY <3>2, <3>3, <3>4
    <3> QED
      BY <3>1, <3>5
  <2> QED
    BY <2>1 DEF AddressesCount, Count
<1> QED
  BY <1>1, <1>2 DEF AddressesCount

\* The same, when rows have been swept.
LEMMA AddressesSwept ==
  ASSUME rows \in [Keys -> MaybeRow], AddressRowsLast, AddressesCount, clock \in Time,
         clock' = clock, NEW n \in Time, n <= clock,
         \A k \in Addresses : rows'[k] = Swept(n)[k] /\ charged'[k] = charged[k]
  PROVE  AddressRowsLast' /\ AddressesCount'
<1>1. /\ \A k \in Addresses : Lasts(Swept(n)[k])
      /\ \A k \in Addresses, t \in Time :
           t > clock - Window => Occurs(TimesOf(Swept(n)[k]), t) = Count(k, t)
  BY SweptFacts
<1>2. AddressRowsLast'
  BY <1>1 DEF AddressRowsLast
<1>3. ASSUME NEW k \in Addresses, NEW t \in Time, t > clock' - Window
      PROVE  Count(k, t)' = charged'[k][t]
  <2>1. Occurs(TimesOf(Swept(n)[k]), t) = Count(k, t)
    BY <1>1, <1>3
  <2>2. Count(k, t) = charged[k][t]
    BY <1>3 DEF AddressesCount
  <2>3. Count(k, t)' = Occurs(TimesOf(Swept(n)[k]), t)
    BY DEF Count
  <2> QED
    BY <2>1, <2>2, <2>3
<1> QED
  BY <1>2, <1>3 DEF AddressesCount

-----------------------------------------------------------------------------
(* What is charged.                                                         *)

ChargedType == [Credentials \cup Addresses -> [Time -> Nat]]

LEMMA ChargeFacts ==
  ASSUME charged \in ChargedType, NEW k \in Credentials \cup Addresses, NEW t \in Time, Charge(k, t)
  PROVE  /\ charged' \in ChargedType
         /\ \A j \in Credentials \cup Addresses : j # k => charged'[j] = charged[j]
         /\ \A u \in Time : charged'[k][u] = charged[k][u] + IF u = t THEN 1 ELSE 0
<1>1. charged' = [charged EXCEPT ![k] = [charged[k] EXCEPT ![t] = charged[k][t] + 1]]
  BY DEF Charge, ChargedType
<1>2. charged[k] \in [Time -> Nat]
  BY DEF ChargedType
<1>3. PICK f \in [Time -> Nat] : f = [charged[k] EXCEPT ![t] = charged[k][t] + 1]
  <2>1. charged[k][t] + 1 \in Nat
    BY <1>2
  <2> QED
    BY <1>2, <2>1
<1>4. charged' = [charged EXCEPT ![k] = f]
  BY <1>1, <1>3
<1>5. \A u \in Time : f[u] = charged[k][u] + IF u = t THEN 1 ELSE 0
  <2>1. ASSUME NEW u \in Time PROVE f[u] = charged[k][u] + IF u = t THEN 1 ELSE 0
    <3>1. charged[k][u] \in Nat
      BY <1>2
    <3>2. f[u] = IF u = t THEN charged[k][t] + 1 ELSE charged[k][u]
      BY <1>2, <1>3
    <3> QED
      BY <3>1, <3>2
  <2> QED
    BY <2>1
<1>6. charged' \in ChargedType
  BY <1>4 DEF ChargedType
<1>7. charged'[k] = f /\ \A j \in Credentials \cup Addresses : j # k => charged'[j] = charged[j]
  BY <1>4 DEF ChargedType
<1> QED
  BY <1>5, <1>6, <1>7

\* A request that ends is charged what it holds.
LEMMA EndFacts ==
  ASSUME charged \in ChargedType, NEW q \in Requests, NEW r \in Request, End(q, r)
  PROVE  /\ charged' \in ChargedType
         /\ \A k \in Addresses : charged'[k] = charged[k]
         /\ \A k \in Credentials, t \in Time :
              charged'[k][t] = charged[k][t] + IF <<k, t>> \in r.held THEN 1 ELSE 0
<1>1. charged' = [k \in Credentials \cup Addresses |-> [t \in Time |->
                    charged[k][t] + IF <<k, t>> \in r.held THEN 1 ELSE 0]]
  BY DEF End, ChargedType
<1>2. \A k \in Credentials \cup Addresses, t \in Time : charged[k][t] \in Nat
  BY DEF ChargedType
<1>3. charged' \in ChargedType
  BY <1>1, <1>2 DEF ChargedType
<1>4. \A k \in Credentials \cup Addresses, t \in Time :
        charged'[k][t] = charged[k][t] + IF <<k, t>> \in r.held THEN 1 ELSE 0
  BY <1>1
<1>5. ASSUME NEW k \in Addresses PROVE charged'[k] = charged[k]
  <2>1. ASSUME NEW t \in Time PROVE charged'[k][t] = charged[k][t]
    <3>1. <<k, t>> \notin r.held
      BY ScopesAreDisjoint DEF Request
    <3>2. charged[k][t] \in Nat
      BY <1>2
    <3> QED
      BY <1>4, <3>1, <3>2
  <2>2. charged'[k] \in [Time -> Nat] /\ charged[k] \in [Time -> Nat]
    BY <1>3 DEF ChargedType
  <2>3. PICK f \in [Time -> Nat], g \in [Time -> Nat] : f = charged'[k] /\ g = charged[k]
    BY <2>2
  <2>4. \A t \in Time : f[t] = g[t]
    BY <2>1, <2>3
  <2> QED
    BY <2>3, <2>4
<1> QED
  BY <1>3, <1>4, <1>5

\* What a request holds is either kept or charged.
Settled(r, r2) ==
  /\ charged' \in ChargedType
  /\ \A k \in Addresses : charged'[k] = charged[k]
  /\ \A k \in Credentials, t \in Time :
       charged[k][t] + (IF Holds(r, k, t) THEN 1 ELSE 0) <= charged'[k][t] + (IF Holds(r2, k, t) THEN 1 ELSE 0)

\* A request that r may become.
Good(r) == r = NoRequest \/ (r \in Request /\ Sound(r) /\ r.now <= clock)

LEMMA SettledByKeeping ==
  ASSUME charged \in ChargedType, UNCHANGED charged, NEW r \in Request, NEW r2 \in Request, r2.held = r.held
  PROVE  Settled(r, r2)
<1>1. \A k \in Credentials, t \in Time : Holds(r, k, t) <=> Holds(r2, k, t)
  BY NoRowIsNone DEF Holds
<1>2. ASSUME NEW k \in Credentials, NEW t \in Time
      PROVE  charged[k][t] + (IF Holds(r, k, t) THEN 1 ELSE 0) <= charged'[k][t] + (IF Holds(r2, k, t) THEN 1 ELSE 0)
  <2>1. charged[k][t] \in Nat
    BY DEF ChargedType
  <2> QED
    BY <2>1, <1>1
<1> QED
  BY <1>2 DEF Settled

LEMMA SettledByEnding ==
  ASSUME charged \in ChargedType, NEW q \in Requests, NEW r \in Request, End(q, r)
  PROVE  Settled(r, NoRequest)
<1>1. /\ charged' \in ChargedType
      /\ \A k \in Addresses : charged'[k] = charged[k]
      /\ \A k \in Credentials, t \in Time :
           charged'[k][t] = charged[k][t] + IF <<k, t>> \in r.held THEN 1 ELSE 0
  BY EndFacts
<1>2. ASSUME NEW k \in Credentials, NEW t \in Time
      PROVE  charged[k][t] + (IF Holds(r, k, t) THEN 1 ELSE 0)
               <= charged'[k][t] + (IF Holds(NoRequest, k, t) THEN 1 ELSE 0)
  <2>1. charged[k][t] \in Nat /\ ~Holds(NoRequest, k, t)
    BY DEF ChargedType, Holds
  <2>2. Holds(r, k, t) <=> <<k, t>> \in r.held
    BY NoRowIsNone DEF Holds
  <2>3. charged'[k][t] = charged[k][t] + IF <<k, t>> \in r.held THEN 1 ELSE 0
    BY <1>1
  <2> QED
    BY <2>1, <2>2, <2>3
<1> QED
  BY <1>1, <1>2 DEF Settled

LEMMA TryNextFacts ==
  ASSUME charged \in ChargedType, NEW q \in Requests, NEW r \in Request, Good(r),
         r.pc \in {"reserve", "lookup"}, TryNext(q, r)
  PROVE  \E r2 : requests' = [requests EXCEPT ![q] = r2] /\ Good(r2) /\ Settled(r, r2)
<1>1. Sound(r) /\ r.now <= clock
  BY NoRowIsNone DEF Good
<1>2. CASE Len(r.todo) > 1
  <2>1. PICK r2 : r2 = [r EXCEPT !.pc = "begin", !.todo = Tail(@)]
    OBVIOUS
  <2>2. requests' = [requests EXCEPT ![q] = r2] /\ UNCHANGED charged
    BY <1>2, <2>1 DEF TryNext, Enter
  <2>3. r2 \in Request /\ Sound(r2) /\ r2.now = r.now /\ r2.held = r.held
    BY <1>1, <1>2, <2>1, NextIsSound
  <2>4. Settled(r, r2)
    BY <2>2, <2>3, SettledByKeeping
  <2> QED
    BY <1>1, <2>2, <2>3, <2>4 DEF Good
<1>3. CASE ~(Len(r.todo) > 1) /\ r.broken
  <2>1. PICK r2 : r2 = [r EXCEPT !.pc = "settle", !.todo = <<>>]
    OBVIOUS
  <2>2. requests' = [requests EXCEPT ![q] = r2] /\ UNCHANGED charged
    BY <1>3, <2>1 DEF TryNext, Enter
  <2>3. r2 \in Request /\ Sound(r2) /\ r2.now = r.now /\ r2.held = r.held
    BY <1>1, <2>1, GivesBackIsSound
  <2>4. Settled(r, r2)
    BY <2>2, <2>3, SettledByKeeping
  <2> QED
    BY <1>1, <2>2, <2>3, <2>4 DEF Good
<1>4. CASE ~(Len(r.todo) > 1) /\ ~r.broken
  <2>1. End(q, r)
    BY <1>4 DEF TryNext
  <2>2. Settled(r, NoRequest)
    BY <2>1, SettledByEnding
  <2> QED
    BY <2>1, <2>2 DEF End, Enter, Good
<1> QED
  BY <1>2, <1>3, <1>4

\* A step of q that leaves it as r2, settles what it held and adds to no row.
LEMMA SettledStep ==
  ASSUME RateInv, NEW q \in Requests, NEW r \in Request, r = requests[q], NEW r2, Good(r2),
         requests' = [requests EXCEPT ![q] = r2], Settled(r, r2), UNCHANGED <<limit, clock, made>>,
         \/ UNCHANGED rows
         \/ \E n \in Time : n <= clock /\ rows' = Swept(n)
  PROVE  RateInv'
<1>1. /\ RateTypeOK /\ rows \in [Keys -> MaybeRow] /\ clock \in Time /\ charged \in ChargedType
      /\ RequestsAreSound /\ CallsLookBack /\ AddressRowsLast /\ AddressesCount /\ NothingIsChargedTwice
  BY DEF RateInv, RateTypeOK, MaybeRow, ChargedType
<1>2. requests' \in [Requests -> Request \cup {NoRequest}] /\ RequestsAreSound' /\ CallsLookBack'
  BY <1>1, EnterSuffices DEF Good
<1>3. /\ rows' \in [Keys -> MaybeRow]
      /\ \A k \in Credentials, t \in Time : Count(k, t)' <= Count(k, t)
      /\ AddressRowsLast' /\ AddressesCount'
  <2>1. CASE UNCHANGED rows
    <3>1. AddressRowsLast' /\ AddressesCount'
      <4>1. clock' \in Time /\ clock' >= clock
        BY <1>1, Numbers
      <4>2. \A k \in Addresses : rows'[k] = rows[k] /\ charged'[k] = charged[k]
        BY <2>1 DEF Settled
      <4> QED
        BY <4>1, <4>2, <1>1, AddressesLeftAlone
    <3>2. ASSUME NEW k \in Credentials, NEW t \in Time PROVE Count(k, t)' <= Count(k, t)
      <4>1. Count(k, t) \in Nat
        BY <1>1, CountIsNat DEF Keys
      <4>2. Count(k, t)' = Count(k, t)
        BY <2>1 DEF Count
      <4> QED
        BY <4>1, <4>2
    <3> QED
      BY <1>1, <2>1, <3>1, <3>2
  <2>2. CASE \E n \in Time : n <= clock /\ rows' = Swept(n)
    <3>1. PICK n \in Time : n <= clock /\ rows' = Swept(n)
      BY <2>2
    <3>2. /\ Swept(n) \in [Keys -> MaybeRow]
          /\ \A k \in Keys, t \in Time : Occurs(TimesOf(Swept(n)[k]), t) <= Count(k, t)
      BY <1>1, <3>1, SweptFacts
    <3>3. \A k \in Credentials, t \in Time : Count(k, t)' <= Count(k, t)
      BY <3>1, <3>2 DEF Count, Keys
    <3>4. \A k \in Addresses : rows'[k] = Swept(n)[k] /\ charged'[k] = charged[k]
      BY <3>1 DEF Settled
    <3>5. AddressRowsLast' /\ AddressesCount'
      BY <1>1, <3>1, <3>4, AddressesSwept
    <3> QED
      BY <3>1, <3>2, <3>3, <3>5
  <2> QED
    BY <2>1, <2>2
<1>4. RateTypeOK'
  BY <1>1, <1>2, <1>3 DEF RateTypeOK, MaybeRow, ChargedType, Settled
<1>5. Balanced(q, r2)
  <2>1. ASSUME NEW k \in Credentials, NEW t \in Time
        PROVE  Count(k, t)' + charged[k][t] + (IF Holds(requests[q], k, t) THEN 1 ELSE 0)
                 <= Count(k, t) + charged'[k][t] + (IF Holds(r2, k, t) THEN 1 ELSE 0)
    <3>1. k \in Keys
      BY DEF Keys
    <3>2. PICK c0 \in Nat, c1 \in Nat, d0 \in Nat, d1 \in Nat :
            c0 = Count(k, t) /\ c1 = Count(k, t)' /\ d0 = charged[k][t] /\ d1 = charged'[k][t]
      <4>1. Count(k, t) \in Nat /\ Count(k, t)' \in Nat
        BY <3>1, <1>1, <1>3, CountIsNat, CountIsNatNext
      <4>2. charged[k][t] \in Nat /\ charged'[k][t] \in Nat
        BY <1>1 DEF ChargedType, Settled
      <4> QED
        BY <4>1, <4>2
    <3>3. c1 <= c0
      BY <1>3, <3>2
    <3>4. d0 + (IF Holds(r, k, t) THEN 1 ELSE 0) <= d1 + (IF Holds(r2, k, t) THEN 1 ELSE 0)
      BY <3>2 DEF Settled
    <3> QED
      BY <3>2, <3>3, <3>4
  <2> QED
    BY <2>1 DEF Balanced
<1>6. NothingIsChargedTwice'
  BY <1>1, <1>4, <1>5, BalanceSuffices
<1> QED
  BY <1>2, <1>3, <1>4, <1>6 DEF RateInv

-----------------------------------------------------------------------------
(* Every step keeps the invariant.                                          *)

LEMMA InvFacts ==
  ASSUME RateInv
  PROVE  /\ RateTypeOK /\ rows \in [Keys -> MaybeRow] /\ clock \in Time /\ charged \in ChargedType
         /\ limit \in Nat /\ limit > 0
         /\ RequestsAreSound /\ CallsLookBack /\ AddressRowsLast /\ AddressesCount /\ NothingIsChargedTwice
         /\ \A q \in Requests : requests[q] # NoRequest =>
              requests[q] \in Request /\ Sound(requests[q]) /\ requests[q].now <= clock /\ Good(requests[q])
<1>1. limit \in Limits
  BY DEF RateInv, RateTypeOK
<1>2. limit \in Nat /\ limit > 0
  BY <1>1, RateAssumptions
<1> QED
  BY <1>2 DEF RateInv, RateTypeOK, MaybeRow, ChargedType, RequestsAreSound, CallsLookBack, Good

\* A request begins.
LEMMA ArriveKeeps ==
  ASSUME RateInv, NEW q \in Requests, NEW r \in Request, Arrive(q, r), Sound(r), r.now <= clock, r.held = {},
         UNCHANGED <<rows, limit, clock, charged>>
  PROVE  RateInv'
<1>1. requests[q] = NoRequest /\ requests' = [requests EXCEPT ![q] = r] /\ made < MaxRequests /\ made' = made + 1
  BY DEF Arrive, Enter
<1>2. /\ RateTypeOK /\ rows \in [Keys -> MaybeRow] /\ clock \in Time /\ charged \in ChargedType
      /\ RequestsAreSound /\ CallsLookBack /\ AddressRowsLast /\ AddressesCount /\ NothingIsChargedTwice
  BY InvFacts
<1>3. requests' \in [Requests -> Request \cup {NoRequest}] /\ RequestsAreSound' /\ CallsLookBack'
  BY <1>1, <1>2, EnterSuffices
<1>4. made' \in 0..MaxRequests
  BY <1>1, <1>2, RateAssumptions DEF RateTypeOK
<1>5. RateTypeOK'
  BY <1>2, <1>3, <1>4 DEF RateTypeOK
<1>6. AddressRowsLast' /\ AddressesCount'
  <2>1. clock' \in Time /\ clock' >= clock
    BY <1>2, Numbers
  <2> QED
    BY <2>1, <1>2, AddressesLeftAlone
<1>7. Balanced(q, r)
  <2>1. ASSUME NEW k \in Credentials, NEW t \in Time
        PROVE  Count(k, t)' + charged[k][t] + (IF Holds(requests[q], k, t) THEN 1 ELSE 0)
                 <= Count(k, t) + charged'[k][t] + (IF Holds(r, k, t) THEN 1 ELSE 0)
    <3>1. Count(k, t) \in Nat /\ Count(k, t)' = Count(k, t)
      BY <1>2, CountIsNat DEF Keys, Count
    <3>2. charged[k][t] \in Nat /\ charged'[k][t] = charged[k][t]
      BY <1>2 DEF ChargedType
    <3>3. ~Holds(requests[q], k, t) /\ ~Holds(r, k, t)
      BY <1>1 DEF Holds
    <3> QED
      BY <3>1, <3>2, <3>3
  <2> QED
    BY <2>1 DEF Balanced
<1>8. NothingIsChargedTwice'
  BY <1>1, <1>2, <1>5, <1>7, BalanceSuffices
<1> QED
  BY <1>3, <1>5, <1>6, <1>8 DEF RateInv

LEMMA BeginKeeps ==
  ASSUME RateInv, NEW q \in Requests,
         (\E a \in Addresses : BeginPublic(q, a)) \/ (\E todo \in Carried : BeginRequest(q, todo))
  PROVE  RateInv'
<1>0. clock \in Time
  BY InvFacts
<1>1. ASSUME NEW a \in Addresses, BeginPublic(q, a) PROVE RateInv'
  <2>1. PICK r : r = NewRequest("allow", <<a>>)
    OBVIOUS
  <2>2. Arrive(q, r) /\ UNCHANGED <<rows, limit, clock, charged>>
    BY <1>1, <2>1 DEF BeginPublic
  <2>3. /\ r.pc = "allow" /\ r.now = clock /\ r.todo = <<a>> /\ r.held = {} /\ r.winner = NoRow
    BY <2>1 DEF NewRequest
  <2>4. r \in Request
    <3>1. <<a>> \in Seq(Keys)
      BY DEF Keys
    <3> QED
      BY <1>0, <2>1, <3>1 DEF NewRequest, Request
  <2>5. Sound(r)
    BY <2>3 DEF Sound
  <2>6. r.now <= clock
    BY <1>0, <2>3, Numbers
  <2> QED
    BY <2>2, <2>3, <2>4, <2>5, <2>6, ArriveKeeps
<1>2. ASSUME NEW todo \in Carried, BeginRequest(q, todo) PROVE RateInv'
  <2>1. PICK r : r = NewRequest("begin", todo)
    OBVIOUS
  <2>2. Arrive(q, r) /\ UNCHANGED <<rows, limit, clock, charged>>
    BY <1>2, <2>1 DEF BeginRequest
  <2>3. /\ r.pc = "begin" /\ r.now = clock /\ r.todo = todo /\ r.held = {} /\ r.winner = NoRow
    BY <2>1 DEF NewRequest
  <2>4. todo \in Tried
    BY RateAssumptions DEF Tried
  <2>5. r \in Request
    <3>1. todo \in Seq(Keys)
      BY <2>4, TriedFacts
    <3> QED
      BY <1>0, <2>1, <3>1 DEF NewRequest, Request
  <2>6. Sound(r)
    BY <2>3, <2>4 DEF Sound
  <2>7. r.now <= clock
    BY <1>0, <2>3, Numbers
  <2> QED
    BY <2>2, <2>3, <2>5, <2>6, <2>7, ArriveKeeps
<1> QED
  BY <1>1, <1>2

LEMMA ReadClockKeeps ==
  ASSUME RateInv, NEW q \in Requests, ReadClock(q)
  PROVE  RateInv'
<1>1. PICK r \in Request : r = requests[q] /\ Sound(r) /\ r.now <= clock
  BY InvFacts DEF ReadClock
<1>2. PICK c \in Time : c = clock
  BY InvFacts
<1>3. PICK p \in {"reserve", "admit"} : p = IF r.pc = "begin" THEN "reserve" ELSE "admit"
  OBVIOUS
<1>4. MayRead(r)
  BY <1>1 DEF ReadClock, MayRead
<1>5. PICK r2 \in Request : r2 = ReadAt(r, p, c) /\ Sound(r2) /\ r2.now = c /\ r2.held = r.held
  <2>1. p = "reserve" <=> r.pc = "begin"
    BY <1>3
  <2> QED
    BY <1>1, <1>4, <2>1, ReadIsSound
<1>6. requests' = [requests EXCEPT ![q] = r2] /\ UNCHANGED <<rows, limit, clock, made, charged>>
  BY <1>1, <1>2, <1>3, <1>5 DEF ReadClock, Enter, ReadAt
<1>7. c <= clock
  BY <1>2, Numbers
<1>8. Settled(r, r2)
  BY <1>5, <1>6, InvFacts, SettledByKeeping
<1>9. Good(r2)
  BY <1>5, <1>7 DEF Good
<1> QED
  BY <1>1, <1>6, <1>8, <1>9, SettledStep

LEMMA LookupKeeps ==
  ASSUME RateInv, NEW q \in Requests, Lookup(q)
  PROVE  RateInv'
<1>1. PICK r \in Request : r = requests[q] /\ Sound(r) /\ r.now <= clock /\ Good(r)
  BY InvFacts DEF Lookup
<1>2. r.pc = "lookup" /\ UNCHANGED <<rows, limit, clock, made>>
  BY <1>1 DEF Lookup
<1>3. ASSUME NEW w \in {NoRow, r.todo[1]}, Enter(q, [r EXCEPT !.pc = "settle", !.winner = w]), UNCHANGED charged
      PROVE  RateInv'
  <2>1. PICK r2 : r2 = [r EXCEPT !.pc = "settle", !.winner = w]
    OBVIOUS
  <2>2. requests' = [requests EXCEPT ![q] = r2]
    BY <1>3, <2>1 DEF Enter
  <2>3. r2 \in Request /\ Sound(r2) /\ r2.now = r.now /\ r2.held = r.held
    BY <1>1, <1>2, <2>1, LookedUpIsSound
  <2>4. Settled(r, r2)
    BY <1>3, <2>3, InvFacts, SettledByKeeping
  <2>5. Good(r2)
    BY <1>1, <2>3 DEF Good
  <2> QED
    BY <1>1, <1>2, <2>2, <2>4, <2>5, SettledStep
<1>4. CASE TryNext(q, r)
  <2>1. PICK r2 : requests' = [requests EXCEPT ![q] = r2] /\ Good(r2) /\ Settled(r, r2)
    BY <1>1, <1>2, <1>4, InvFacts, TryNextFacts
  <2> QED
    BY <1>1, <1>2, <2>1, SettledStep
<1>5. \/ \E w \in {NoRow, r.todo[1]} : Enter(q, [r EXCEPT !.pc = "settle", !.winner = w]) /\ UNCHANGED charged
      \/ TryNext(q, r)
  <2>1. PICK w \in {NoRow, r.todo[1]} : w = IF r.broken THEN NoRow ELSE r.todo[1]
    OBVIOUS
  <2> QED
    BY <1>1, <2>1 DEF Lookup
<1> QED
  BY <1>3, <1>4, <1>5

LEMMA GiveUpKeeps ==
  ASSUME RateInv, NEW q \in Requests, GiveUp(q)
  PROVE  RateInv'
<1>1. PICK r \in Request : r = requests[q]
  BY InvFacts DEF GiveUp
<1>2. End(q, r) /\ UNCHANGED <<rows, limit, clock, made>>
  BY <1>1 DEF GiveUp
<1>3. Settled(r, NoRequest)
  BY <1>2, InvFacts, SettledByEnding
<1>4. requests' = [requests EXCEPT ![q] = NoRequest]
  BY <1>2 DEF End, Enter
<1>5. PICK r2 : r2 = NoRequest
  OBVIOUS
<1>6. Good(r2)
  BY <1>5 DEF Good
<1> QED
  BY <1>1, <1>2, <1>3, <1>4, <1>5, <1>6, SettledStep

\* What r2 holds is what r holds, without one reservation.
LosesOnly(r, r2, k, t) ==
  \A j \in Credentials, u \in Time : Holds(r2, j, u) <=> <<j, u>> \in r.held /\ <<j, u>> # <<k, t>>

\* A slot is given back, by a cancellation or because the account is full.
LEMMA ReleaseKeeps ==
  ASSUME RateInv, NEW q \in Requests, NEW r \in Request, r = requests[q], NEW k \in Credentials, NEW t \in Time,
         <<k, t>> \in r.held, NEW r2, Good(r2), requests' = [requests EXCEPT ![q] = r2],
         LosesOnly(r, r2, k, t), rows' = [rows EXCEPT ![k] = Without(@, t)], UNCHANGED <<limit, clock, made, charged>>
  PROVE  RateInv'
<1>1. /\ RateTypeOK /\ rows \in [Keys -> MaybeRow] /\ clock \in Time /\ charged \in ChargedType
      /\ RequestsAreSound /\ CallsLookBack /\ AddressRowsLast /\ AddressesCount /\ NothingIsChargedTwice
  BY InvFacts
<1>2. k \in Keys /\ k \notin Addresses /\ Addresses \subseteq Keys
  BY ScopesAreDisjoint DEF Keys
<1>3. PICK row \in MaybeRow : row = rows[k]
  BY <1>1, <1>2
<1>4. /\ Without(row, t) \in MaybeRow
      /\ \A u \in Time : Occurs(TimesOf(Without(row, t)), u) <= Occurs(TimesOf(row), u)
      /\ \/ Occurs(TimesOf(Without(row, t)), t) = 0
         \/ Occurs(TimesOf(Without(row, t)), t) <= Occurs(TimesOf(row), t) - 1
  BY WithoutFacts
<1>5. rows' = [rows EXCEPT ![k] = Without(row, t)]
  BY <1>3
<1>6. rows' \in [Keys -> MaybeRow] /\ rows'[k] = Without(row, t) /\ \A j \in Keys : j # k => rows'[j] = rows[j]
  BY <1>1, <1>2, <1>4, <1>5
<1>7. requests' \in [Requests -> Request \cup {NoRequest}] /\ RequestsAreSound' /\ CallsLookBack'
  BY <1>1, EnterSuffices DEF Good
<1>8. RateTypeOK'
  BY <1>1, <1>6, <1>7 DEF RateTypeOK, MaybeRow
<1>9. AddressRowsLast' /\ AddressesCount'
  <2>1. clock' \in Time /\ clock' >= clock
    BY <1>1, Numbers
  <2>2. \A j \in Addresses : rows'[j] = rows[j] /\ charged'[j] = charged[j]
    BY <1>2, <1>6
  <2> QED
    BY <2>1, <2>2, <1>1, AddressesLeftAlone
<1>10. Balanced(q, r2)
  <2>1. ASSUME NEW j \in Credentials, NEW u \in Time
        PROVE  \/ Count(j, u)' = 0
               \/ Count(j, u)' + charged[j][u] + (IF Holds(requests[q], j, u) THEN 1 ELSE 0)
                    <= Count(j, u) + charged'[j][u] + (IF Holds(r2, j, u) THEN 1 ELSE 0)
    <3>1. PICK c0 \in Nat, c1 \in Nat, d \in Nat :
            c0 = Count(j, u) /\ c1 = Count(j, u)' /\ d = charged[j][u] /\ d = charged'[j][u]
      <4>1. Count(j, u) \in Nat /\ Count(j, u)' \in Nat
        BY <1>1, <1>6, CountIsNat, CountIsNatNext DEF Keys
      <4>2. charged[j][u] \in Nat
        BY <1>1 DEF ChargedType
      <4> QED
        BY <4>1, <4>2
    <3>2. Holds(requests[q], j, u) <=> <<j, u>> \in r.held
      BY NoRowIsNone DEF Holds
    <3> USE DEF LosesOnly
    <3>3. CASE j # k
      <4>1. c1 = c0
        BY <3>1, <3>3, <1>6 DEF Count, Keys
      <4>2. Holds(requests[q], j, u) <=> Holds(r2, j, u)
        BY <3>2, <3>3
      <4> QED
        BY <3>1, <4>1, <4>2
    <3>4. CASE j = k /\ u # t
      <4>1. c1 <= c0
        BY <3>1, <3>4, <1>3, <1>4, <1>6 DEF Count
      <4>2. Holds(requests[q], j, u) <=> Holds(r2, j, u)
        BY <3>2, <3>4
      <4> QED
        BY <3>1, <4>1, <4>2
    <3>5. CASE j = k /\ u = t
      <4>1. c1 = 0 \/ c1 <= c0 - 1
        BY <3>1, <3>5, <1>3, <1>4, <1>6 DEF Count
      <4>2. Holds(requests[q], j, u) /\ ~Holds(r2, j, u)
        BY <3>2, <3>5
      <4> QED
        BY <3>1, <4>1, <4>2
    <3> QED
      BY <3>3, <3>4, <3>5
  <2> QED
    BY <2>1 DEF Balanced
<1>11. NothingIsChargedTwice'
  BY <1>1, <1>8, <1>10, BalanceSuffices
<1> QED
  BY <1>7, <1>8, <1>9, <1>11 DEF RateInv

LEMMA CancelKeeps ==
  ASSUME RateInv, NEW q \in Requests, Cancel(q)
  PROVE  RateInv'
<1>1. PICK r \in Request : r = requests[q] /\ Sound(r) /\ r.now <= clock
  BY InvFacts DEF Cancel
<1>2. PICK h \in r.held : /\ h[1] # r.winner
                          /\ rows' = [rows EXCEPT ![h[1]] = Without(@, h[2])]
                          /\ Enter(q, [r EXCEPT !.held = @ \ {h}])
  BY <1>1 DEF Cancel
<1>3. r.pc = "settle" /\ UNCHANGED <<limit, clock, made, charged>>
  BY <1>1 DEF Cancel
<1>4. PICK k \in Credentials, t \in Time : h = <<k, t>>
  BY DEF Request
<1>5. PICK r2 : r2 = [r EXCEPT !.held = @ \ {h}]
  OBVIOUS
<1>6. requests' = [requests EXCEPT ![q] = r2]
  BY <1>2, <1>5 DEF Enter
<1>7. r2 \in Request /\ Sound(r2) /\ r2.now = r.now /\ r2.held = r.held \ {h}
  BY <1>1, <1>2, <1>3, <1>5, CancelledIsSound
<1>8. Good(r2)
  BY <1>1, <1>7 DEF Good
<1>9. h[1] = k /\ h[2] = t
  BY <1>4
<1>10. rows' = [rows EXCEPT ![k] = Without(@, t)] /\ <<k, t>> \in r.held
  BY <1>2, <1>4, <1>9
<1>11. LosesOnly(r, r2, k, t)
  BY <1>4, <1>7, NoRowIsNone DEF Holds, LosesOnly
<1> QED
  BY <1>1, <1>3, <1>6, <1>8, <1>10, <1>11, ReleaseKeeps

\* The account is charged, and so is the credential.
LEMMA AdmitKeeps ==
  ASSUME RateInv, NEW q \in Requests, NEW r \in Request, r = requests[q], NEW k \in Credentials, NEW t \in Time,
         r.held = {<<k, t>>}, NEW a \in Accounts, NEW n \in Time, rows' = [rows EXCEPT ![a] = Recorded(@, n)],
         Charge(k, t), requests' = [requests EXCEPT ![q] = NoRequest], UNCHANGED <<limit, clock, made>>
  PROVE  RateInv'
<1>1. /\ RateTypeOK /\ rows \in [Keys -> MaybeRow] /\ clock \in Time /\ charged \in ChargedType
      /\ RequestsAreSound /\ CallsLookBack /\ AddressRowsLast /\ AddressesCount /\ NothingIsChargedTwice
  BY InvFacts
<1>2. /\ a \in Keys /\ a \notin Addresses /\ a \notin Credentials /\ k \notin Addresses
      /\ Addresses \subseteq Keys /\ Credentials \subseteq Keys
  BY ScopesAreDisjoint DEF Keys
<1>3. PICK row \in MaybeRow : row = Recorded(rows[a], n)
  <2>1. PICK old \in MaybeRow : old = rows[a]
    BY <1>1, <1>2
  <2>2. Recorded(old, n) \in LimitRow
    BY RecordedFacts
  <2> QED
    BY <2>1, <2>2 DEF MaybeRow
<1>4. rows' = [rows EXCEPT ![a] = row]
  BY <1>3
<1>5. rows' \in [Keys -> MaybeRow] /\ \A j \in Keys : j # a => rows'[j] = rows[j]
  BY <1>1, <1>2, <1>4
<1>6. /\ charged' \in ChargedType
      /\ \A j \in Credentials \cup Addresses : j # k => charged'[j] = charged[j]
      /\ \A u \in Time : charged'[k][u] = charged[k][u] + IF u = t THEN 1 ELSE 0
  BY <1>1, ChargeFacts
<1>7. PICK r2 : r2 = NoRequest
  OBVIOUS
<1>8. requests' \in [Requests -> Request \cup {NoRequest}] /\ RequestsAreSound' /\ CallsLookBack'
  BY <1>1, <1>7, EnterSuffices
<1>9. RateTypeOK'
  BY <1>1, <1>5, <1>6, <1>8 DEF RateTypeOK, MaybeRow, ChargedType
<1>10. AddressRowsLast' /\ AddressesCount'
  <2>1. clock' \in Time /\ clock' >= clock
    BY <1>1, Numbers
  <2>2. \A j \in Addresses : rows'[j] = rows[j] /\ charged'[j] = charged[j]
    BY <1>2, <1>5, <1>6
  <2> QED
    BY <2>1, <2>2, <1>1, AddressesLeftAlone
<1>11. Balanced(q, r2)
  <2>1. ASSUME NEW j \in Credentials, NEW u \in Time
        PROVE  Count(j, u)' + charged[j][u] + (IF Holds(requests[q], j, u) THEN 1 ELSE 0)
                 <= Count(j, u) + charged'[j][u] + (IF Holds(r2, j, u) THEN 1 ELSE 0)
    <3>1. PICK c \in Nat, d0 \in Nat, d1 \in Nat :
            c = Count(j, u) /\ c = Count(j, u)' /\ d0 = charged[j][u] /\ d1 = charged'[j][u]
      <4>1. Count(j, u) \in Nat /\ Count(j, u)' = Count(j, u)
        BY <1>1, <1>2, <1>5, CountIsNat DEF Count
      <4>2. charged[j][u] \in Nat /\ charged'[j][u] \in Nat
        BY <1>1, <1>6 DEF ChargedType
      <4> QED
        BY <4>1, <4>2
    <3>2. Holds(requests[q], j, u) <=> <<j, u>> = <<k, t>>
      BY NoRowIsNone DEF Holds
    <3>3. ~Holds(r2, j, u)
      BY <1>7 DEF Holds
    <3>4. d1 = d0 + IF j = k /\ u = t THEN 1 ELSE 0
      <4>1. CASE j = k
        BY <3>1, <4>1, <1>6
      <4>2. CASE j # k
        BY <3>1, <4>2, <1>6
      <4> QED
        BY <4>1, <4>2
    <3>5. Holds(requests[q], j, u) <=> j = k /\ u = t
      BY <3>2
    <3> QED
      BY <3>1, <3>3, <3>4, <3>5
  <2> QED
    BY <2>1 DEF Balanced
<1>12. NothingIsChargedTwice'
  BY <1>1, <1>7, <1>9, <1>11, BalanceSuffices
<1> QED
  BY <1>8, <1>9, <1>10, <1>12 DEF RateInv

LEMMA FinalizeKeeps ==
  ASSUME RateInv, NEW q \in Requests, Finalize(q)
  PROVE  RateInv'
<1>1. PICK r \in Request : r = requests[q] /\ Sound(r) /\ r.now <= clock
  BY InvFacts DEF Finalize
<1>2. r.pc = "admit" /\ UNCHANGED <<limit, clock, made>> /\ requests' = [requests EXCEPT ![q] = NoRequest]
  BY <1>1 DEF Finalize, Enter
<1>3. PICK g \in r.held : g[1] = r.winner /\ r.held = {g}
  BY <1>1, <1>2 DEF Sound
<1>4. PICK k \in Credentials, t \in Time : g = <<k, t>>
  BY DEF Request
<1>5. g[1] = k /\ g[2] = t /\ r.winner = k
  BY <1>3, <1>4
<1>6. (CHOOSE h \in r.held : h[1] = r.winner) = g
  BY <1>3
<1>7. PICK a \in Accounts, n \in Time : a = AccountOf[k] /\ n = r.now
  BY RateAssumptions DEF Request
<1>8. \/ rows' = [rows EXCEPT ![a] = Recorded(@, n)] /\ Charge(k, t)
      \/ rows' = [rows EXCEPT ![k] = Without(@, t)] /\ UNCHANGED charged
  BY <1>1, <1>5, <1>6, <1>7 DEF Finalize, Refused
<1>9. CASE rows' = [rows EXCEPT ![a] = Recorded(@, n)] /\ Charge(k, t)
  BY <1>1, <1>2, <1>3, <1>4, <1>9, AdmitKeeps
<1>10. CASE rows' = [rows EXCEPT ![k] = Without(@, t)] /\ UNCHANGED charged
  <2>1. PICK r2 : r2 = NoRequest
    OBVIOUS
  <2>2. Good(r2)
    BY <2>1 DEF Good
  <2>3. LosesOnly(r, r2, k, t)
    BY <1>3, <1>4, <2>1 DEF Holds, LosesOnly
  <2>4. <<k, t>> \in r.held /\ requests' = [requests EXCEPT ![q] = r2] /\ UNCHANGED <<limit, clock, made, charged>>
    BY <1>2, <1>4, <1>10, <2>1
  <2> QED
    BY <1>1, <1>10, <2>2, <2>3, <2>4, ReleaseKeeps
<1> QED
  BY <1>8, <1>9, <1>10

\* A slot is reserved for one credential: it counts once more, and is held.
LEMMA ReservationKeeps ==
  ASSUME RateInv, NEW q \in Requests, NEW r \in Request, r = requests[q],
         NEW k \in Credentials, NEW n \in Time, n <= clock,
         NEW w \in [Keys -> MaybeRow], w = Swept(n), NEW new \in MaybeRow, new = Recorded(w[k], n),
         rows' = [w EXCEPT ![k] = new],
         NEW r2 \in Request, Sound(r2), r2.now = 0, r2.held = r.held \cup {<<k, n>>}, <<k, n>> \notin r.held,
         requests' = [requests EXCEPT ![q] = r2], UNCHANGED <<limit, clock, made, charged>>
  PROVE  RateInv'
<1>1. /\ RateTypeOK /\ rows \in [Keys -> MaybeRow] /\ clock \in Time /\ charged \in ChargedType
      /\ RequestsAreSound /\ CallsLookBack /\ AddressRowsLast /\ AddressesCount /\ NothingIsChargedTwice
  BY InvFacts
<1>2. /\ r2 \in Request /\ Sound(r2) /\ r2.now = 0 /\ r2.held = r.held \cup {<<k, n>>}
      /\ <<k, n>> \notin r.held
  OBVIOUS
<1>3. 0 <= clock
  BY <1>1, Numbers
<1>4. requests' \in [Requests -> Request \cup {NoRequest}] /\ RequestsAreSound' /\ CallsLookBack'
  <2>1. r2 \in Request /\ Sound(r2) /\ r2.now <= clock
    BY <1>2, <1>3
  <2> QED
    BY <1>1, <2>1, EnterSuffices
<1>5. k \in Keys /\ k \notin Addresses /\ Addresses \subseteq Keys /\ Credentials \subseteq Keys
  BY ScopesAreDisjoint DEF Keys
<1>6. \A j \in Keys, t \in Time : Occurs(TimesOf(w[j]), t) <= Count(j, t)
  BY <1>1, SweptFacts
<1>7. PICK row \in MaybeRow : row = w[k]
  BY <1>5
<1>8. \A t \in Time : Occurs(TimesOf(new), t) = Kept(row, n, t) + IF t = n THEN 1 ELSE 0
  BY <1>7, RecordedFacts
<1>10. rows' \in [Keys -> MaybeRow] /\ rows'[k] = new /\ \A j \in Keys : j # k => rows'[j] = w[j]
  BY <1>5
<1>11. RateTypeOK'
  BY <1>1, <1>4, <1>10 DEF RateTypeOK, MaybeRow
<1>12. AddressRowsLast' /\ AddressesCount'
  <2>1. \A j \in Addresses : rows'[j] = Swept(n)[j] /\ charged'[j] = charged[j]
    BY <1>5, <1>6, <1>10
  <2>2. clock' = clock
    OBVIOUS
  <2> QED
    BY <1>1, <2>1, <2>2, AddressesSwept
<1>13. Balanced(q, r2)
  <2>1. ASSUME NEW j \in Credentials, NEW u \in Time
        PROVE  Count(j, u)' + charged[j][u] + (IF Holds(requests[q], j, u) THEN 1 ELSE 0)
                 <= Count(j, u) + charged'[j][u] + (IF Holds(r2, j, u) THEN 1 ELSE 0)
    <3>1. PICK c0 \in Nat, c1 \in Nat, d \in Nat :
            c0 = Count(j, u) /\ c1 = Count(j, u)' /\ d = charged[j][u] /\ d = charged'[j][u]
      <4>1. Count(j, u) \in Nat /\ Count(j, u)' \in Nat
        BY <1>1, <1>5, <1>10, CountIsNat, CountIsNatNext
      <4>2. charged[j][u] \in Nat
        BY <1>1 DEF ChargedType
      <4> QED
        BY <4>1, <4>2
    <3>2. /\ Holds(requests[q], j, u) <=> <<j, u>> \in r.held
          /\ Holds(r2, j, u) <=> <<j, u>> \in r.held \/ <<j, u>> = <<k, n>>
      BY <1>2, NoRowIsNone DEF Holds
    <3>3. CASE j # k
      <4>1. c1 <= c0
        BY <3>1, <3>3, <1>5, <1>6, <1>10 DEF Count
      <4>2. Holds(requests[q], j, u) <=> Holds(r2, j, u)
        BY <3>2, <3>3
      <4> QED
        BY <3>1, <4>1, <4>2
    <3>4. CASE j = k
      <4>1. Kept(row, n, u) \in Nat /\ Kept(row, n, u) <= Occurs(TimesOf(row), u)
        <5>1. PICK c \in Time : c = clock
          BY <1>1
        <5>2. n <= c
          BY <5>1
        <5> QED
          BY <5>2, KeptFacts
      <4>2. Occurs(TimesOf(row), u) <= c0 /\ Occurs(TimesOf(row), u) \in Nat
        <5>1. Occurs(TimesOf(row), u) <= c0
          BY <3>1, <3>4, <1>5, <1>6, <1>7
        <5> QED
          BY <5>1, TimesType, OccursIsNat
      <4>3. c1 = Kept(row, n, u) + IF u = n THEN 1 ELSE 0
        BY <3>1, <3>4, <1>8, <1>10 DEF Count
      <4>4. CASE u = n
        <5>1. ~Holds(requests[q], j, u) /\ Holds(r2, j, u)
          BY <1>2, <3>2, <3>4, <4>4
        <5>2. c1 <= c0 + 1
          BY <3>1, <4>1, <4>2, <4>3, <4>4
        <5> QED
          BY <3>1, <5>1, <5>2
      <4>5. CASE u # n
        <5>1. Holds(requests[q], j, u) <=> Holds(r2, j, u)
          BY <3>2, <4>5
        <5>2. c1 <= c0
          BY <3>1, <4>1, <4>2, <4>3, <4>5
        <5> QED
          BY <3>1, <5>1, <5>2
      <4> QED
        BY <4>4, <4>5
    <3> QED
      BY <3>3, <3>4
  <2> QED
    BY <2>1 DEF Balanced
<1>14. NothingIsChargedTwice'
  BY <1>1, <1>11, <1>13, BalanceSuffices
<1> QED
  BY <1>4, <1>11, <1>12, <1>14 DEF RateInv

LEMMA ReserveKeeps ==
  ASSUME RateInv, NEW q \in Requests, Reserve(q)
  PROVE  RateInv'
<1>1. PICK r \in Request : r = requests[q] /\ Sound(r) /\ r.now <= clock /\ Good(r)
  BY InvFacts DEF Reserve
<1>2. r.pc = "reserve" /\ UNCHANGED <<limit, clock, made>>
  BY <1>1 DEF Reserve
<1>3. PICK k \in Credentials, n \in Time : k = r.todo[1] /\ n = r.now
  BY <1>1, <1>2, TriedFacts DEF Sound, Request
<1>4. n <= clock
  BY <1>1, <1>3
<1>5. PICK r1, rb : /\ r1 = [r EXCEPT !.pc = "lookup", !.now = 0, !.held = @ \cup {<<r.todo[1], r.now>>}]
                    /\ rb = [r EXCEPT !.broken = TRUE]
  OBVIOUS
<1>6. \/ /\ rows' = [Swept(n) EXCEPT ![k] = Recorded(@, n)]
         /\ requests' = [requests EXCEPT ![q] = r1] /\ UNCHANGED charged
      \/ rows' = Swept(n) /\ TryNext(q, r)
      \/ TryNext(q, rb) /\ UNCHANGED rows
  BY <1>1, <1>3, <1>5 DEF Reserve, Enter
<1>7. CASE /\ rows' = [Swept(n) EXCEPT ![k] = Recorded(@, n)]
           /\ requests' = [requests EXCEPT ![q] = r1] /\ UNCHANGED charged
  <2>1. UNCHANGED <<limit, clock, made, charged>>
    BY <1>2, <1>7
  <2>2. PICK w \in [Keys -> MaybeRow] : w = Swept(n)
    BY <1>4, InvFacts, SweptFacts
  <2>3. PICK new \in MaybeRow : new = Recorded(w[k], n)
    <3>1. PICK row \in MaybeRow : row = w[k]
      BY DEF Keys
    <3>2. Recorded(row, n) \in LimitRow
      BY RecordedFacts
    <3> QED
      BY <3>1, <3>2 DEF MaybeRow
  <2>4. rows' = [w EXCEPT ![k] = new]
    BY <1>7, <2>2, <2>3
  <2>5. requests' = [requests EXCEPT ![q] = r1]
    BY <1>7
  <2>6. r1 \in Request /\ Sound(r1) /\ r1.now = 0 /\ r1.held = r.held \cup {<<k, n>>} /\ <<k, n>> \notin r.held
    BY <1>1, <1>2, <1>3, <1>5, ReservedIsSound
  <2> QED
    BY <1>1, <1>3, <1>4, <2>1, <2>2, <2>3, <2>4, <2>5, <2>6, ReservationKeeps
<1>8. CASE rows' = Swept(n) /\ TryNext(q, r)
  <2>1. PICK r2 : requests' = [requests EXCEPT ![q] = r2] /\ Good(r2) /\ Settled(r, r2)
    BY <1>1, <1>2, <1>8, InvFacts, TryNextFacts
  <2>2. \E m \in Time : m <= clock /\ rows' = Swept(m)
    BY <1>4, <1>8
  <2> QED
    BY <1>1, <1>2, <2>1, <2>2, SettledStep
<1>9. CASE TryNext(q, rb) /\ UNCHANGED rows
  <2>1. rb \in Request /\ Sound(rb) /\ rb.pc = r.pc /\ rb.now = r.now /\ rb.held = r.held
    BY <1>1, <1>5, BrokenIsSound
  <2>2. Good(rb)
    BY <1>1, <2>1 DEF Good
  <2>3. PICK r2 : requests' = [requests EXCEPT ![q] = r2] /\ Good(r2) /\ Settled(rb, r2)
    BY <1>2, <1>9, <2>1, <2>2, InvFacts, TryNextFacts
  <2>4. \A j \in Credentials, t \in Time : Holds(rb, j, t) <=> Holds(r, j, t)
    BY <2>1, NoRowIsNone DEF Holds
  <2>5. Settled(r, r2)
    BY <2>3, <2>4 DEF Settled
  <2> QED
    BY <1>1, <1>2, <1>9, <2>3, <2>5, SettledStep
<1> QED
  BY <1>6, <1>7, <1>8, <1>9

\* A public request is let through or refused.  A row it writes keeps what is in
\* the window, and is needed as long as its latest time is.
LEMMA AllowKeeps ==
  ASSUME RateInv, NEW q \in Requests, Allow(q)
  PROVE  RateInv'
<1>1. PICK r \in Request : r = requests[q] /\ Sound(r) /\ r.now <= clock
  BY InvFacts DEF Allow
<1>2. /\ r.pc = "allow" /\ UNCHANGED <<limit, clock, made>> /\ requests' = [requests EXCEPT ![q] = NoRequest]
  BY <1>1 DEF Allow, Enter
<1>3. r.held = {} /\ \E a \in Addresses : r.todo = <<a>>
  BY <1>1, <1>2 DEF Sound
<1>4. PICK k \in Addresses, n \in Time : k = r.todo[1] /\ n = r.now
  BY <1>3 DEF Request
<1>5. /\ RateTypeOK /\ rows \in [Keys -> MaybeRow] /\ clock \in Time /\ charged \in ChargedType
      /\ RequestsAreSound /\ CallsLookBack /\ AddressRowsLast /\ AddressesCount /\ NothingIsChargedTwice
      /\ limit \in Nat /\ limit > 0
  BY InvFacts
<1>6. n <= clock
  BY <1>1, <1>4
<1>7. PICK r2 : r2 = NoRequest
  OBVIOUS
<1>8. requests' \in [Requests -> Request \cup {NoRequest}] /\ RequestsAreSound' /\ CallsLookBack'
  BY <1>2, <1>5, <1>7, EnterSuffices
<1>9. k \in Keys /\ k \notin Credentials /\ Addresses \subseteq Keys /\ Credentials \subseteq Keys
  BY ScopesAreDisjoint DEF Keys
<1>10. PICK w \in [Keys -> MaybeRow] :
        /\ w = Swept(n)
        /\ \A j \in Keys, t \in Time : Occurs(TimesOf(w[j]), t) <= Count(j, t)
        /\ \A j \in Addresses : Lasts(w[j])
        /\ \A j \in Addresses, t \in Time : t > clock - Window => Occurs(TimesOf(w[j]), t) = Count(j, t)
  BY <1>5, <1>6, SweptFacts
<1>11. PICK row \in MaybeRow : row = w[k]
  BY <1>9
<1>12. \/ HasRoom(row, n) /\ rows' = [w EXCEPT ![k] = Allowed(row, n)] /\ Charge(k, n)
       \/ ~HasRoom(row, n) /\ rows' = [w EXCEPT ![k] = Pruned(row, n)] /\ UNCHANGED charged
  BY <1>1, <1>4, <1>10, <1>11 DEF Allow
<1>13. PICK new \in LimitRow :
         /\ rows' = [w EXCEPT ![k] = new] /\ Lasts(new)
         /\ charged' \in ChargedType
         /\ \A j \in Credentials \cup Addresses : j # k => charged'[j] = charged[j]
         /\ \A t \in Time : /\ Occurs(TimesOf(new), t) \in Nat
                            /\ Occurs(TimesOf(new), t) - Kept(row, n, t) = charged'[k][t] - charged[k][t]
  <2>1. \A t \in Time : Kept(row, n, t) \in Nat /\ charged[k][t] \in Nat
    <3>1. PICK c \in Time : c = clock /\ n <= c
      BY <1>5, <1>6
    <3> QED
      BY <3>1, <1>5, KeptFacts DEF ChargedType
  <2>2. CASE HasRoom(row, n) /\ rows' = [w EXCEPT ![k] = Allowed(row, n)] /\ Charge(k, n)
    <3>1. /\ Allowed(row, n) \in LimitRow /\ Lasts(Allowed(row, n))
          /\ \A t \in Time : Occurs(TimesOf(Allowed(row, n)), t) = Kept(row, n, t) + IF t = n THEN 1 ELSE 0
      BY AllowedFacts
    <3>2. /\ charged' \in ChargedType
          /\ \A j \in Credentials \cup Addresses : j # k => charged'[j] = charged[j]
          /\ \A t \in Time : charged'[k][t] = charged[k][t] + IF t = n THEN 1 ELSE 0
      BY <1>5, <2>2, ChargeFacts
    <3>3. PICK new \in LimitRow : new = Allowed(row, n)
      BY <3>1
    <3>4. ASSUME NEW t \in Time
          PROVE  /\ Occurs(TimesOf(new), t) \in Nat
                 /\ Occurs(TimesOf(new), t) - Kept(row, n, t) = charged'[k][t] - charged[k][t]
      <4>1. /\ Occurs(TimesOf(new), t) = Kept(row, n, t) + IF t = n THEN 1 ELSE 0
            /\ charged'[k][t] = charged[k][t] + IF t = n THEN 1 ELSE 0
            /\ Kept(row, n, t) \in Nat /\ charged[k][t] \in Nat
        BY <2>1, <3>1, <3>2, <3>3
      <4> QED
        BY <4>1
    <3> QED
      BY <2>2, <3>1, <3>2, <3>3, <3>4
  <2>3. CASE ~HasRoom(row, n) /\ rows' = [w EXCEPT ![k] = Pruned(row, n)] /\ UNCHANGED charged
    <3>1. Len(Active(row, n)) > 0
      <4>1. Len(Active(row, n)) \in Nat
        BY ActiveFacts, Numbers
      <4> QED
        BY <4>1, <1>5, <2>3 DEF HasRoom
    <3>2. /\ Pruned(row, n) \in LimitRow /\ Lasts(Pruned(row, n))
          /\ \A t \in Time : Occurs(TimesOf(Pruned(row, n)), t) = Kept(row, n, t)
      BY <3>1, PrunedFacts
    <3>3. PICK new \in LimitRow : new = Pruned(row, n)
      BY <3>2
    <3>4. ASSUME NEW t \in Time
          PROVE  /\ Occurs(TimesOf(new), t) \in Nat
                 /\ Occurs(TimesOf(new), t) - Kept(row, n, t) = charged'[k][t] - charged[k][t]
      <4>1. /\ Occurs(TimesOf(new), t) = Kept(row, n, t) /\ charged'[k][t] = charged[k][t]
            /\ Kept(row, n, t) \in Nat /\ charged[k][t] \in Nat
        BY <2>1, <2>3, <3>2, <3>3
      <4> QED
        BY <4>1
    <3> QED
      BY <1>5, <2>3, <3>2, <3>3, <3>4
  <2> QED
    BY <1>12, <2>2, <2>3
<1>14. rows' \in [Keys -> MaybeRow] /\ rows'[k] = new /\ \A j \in Keys : j # k => rows'[j] = w[j]
  BY <1>9, <1>13 DEF MaybeRow
<1>15. RateTypeOK'
  BY <1>2, <1>5, <1>8, <1>13, <1>14 DEF RateTypeOK, MaybeRow, ChargedType
<1>16. AddressRowsLast'
  BY <1>9, <1>10, <1>13, <1>14 DEF AddressRowsLast
<1>17. ASSUME NEW j \in Addresses, NEW t \in Time, t > clock' - Window
       PROVE  Count(j, t)' = charged'[j][t]
  <2>1. Occurs(TimesOf(w[j]), t) = Count(j, t)
    BY <1>2, <1>10, <1>17
  <2>2. Count(j, t) = charged[j][t]
    BY <1>2, <1>5, <1>17 DEF AddressesCount
  <2>3. CASE j # k
    <3>1. Count(j, t)' = Occurs(TimesOf(w[j]), t)
      BY <2>3, <1>9, <1>14 DEF Count
    <3>2. charged'[j] = charged[j]
      BY <2>3, <1>13
    <3> QED
      BY <3>1, <3>2, <2>1, <2>2
  <2>4. CASE j = k
    <3>1. Kept(row, n, t) = Occurs(TimesOf(row), t)
      <4>1. PICK c \in Time : c = clock /\ n <= c
        BY <1>5, <1>6
      <4>2. t > c - Window
        BY <1>2, <1>17, <4>1
      <4> QED
        BY <4>1, <4>2, KeptFacts
    <3>2. PICK a \in Nat, b \in Nat, d0 \in Nat, d1 \in Nat :
            a = Occurs(TimesOf(new), t) /\ b = Count(k, t) /\ d0 = charged[k][t] /\ d1 = charged'[k][t]
      <4>1. Occurs(TimesOf(new), t) \in Nat
        BY <1>13
      <4>2. Count(k, t) \in Nat
        BY <1>5, <1>9, CountIsNat
      <4>3. charged[k][t] \in Nat /\ charged'[k][t] \in Nat
        BY <1>5, <1>13 DEF ChargedType
      <4> QED
        BY <4>1, <4>2, <4>3
    <3>3. a - b = d1 - d0
      BY <3>1, <3>2, <1>11, <1>13, <2>1, <2>4
    <3>4. b = d0
      BY <2>2, <2>4, <3>2
    <3>5. a = d1
      BY <3>3, <3>4
    <3>6. Count(j, t)' = a
      BY <1>14, <2>4, <3>2 DEF Count
    <3> QED
      BY <2>4, <3>2, <3>5, <3>6
  <2> QED
    BY <2>3, <2>4
<1>18. AddressesCount'
  BY <1>17 DEF AddressesCount
<1>19. Balanced(q, r2)
  <2>1. ASSUME NEW j \in Credentials, NEW t \in Time
        PROVE  Count(j, t)' + charged[j][t] + (IF Holds(requests[q], j, t) THEN 1 ELSE 0)
                 <= Count(j, t) + charged'[j][t] + (IF Holds(r2, j, t) THEN 1 ELSE 0)
    <3>1. PICK c0 \in Nat, c1 \in Nat, d \in Nat :
            c0 = Count(j, t) /\ c1 = Count(j, t)' /\ d = charged[j][t] /\ d = charged'[j][t]
      <4>1. Count(j, t) \in Nat /\ Count(j, t)' \in Nat
        BY <1>5, <1>9, <1>14, CountIsNat, CountIsNatNext
      <4>2. charged[j][t] \in Nat /\ charged'[j][t] = charged[j][t]
        BY <1>5, <1>9, <1>13 DEF ChargedType
      <4> QED
        BY <4>1, <4>2
    <3>2. c1 <= c0
      BY <3>1, <1>9, <1>10, <1>14 DEF Count
    <3>3. ~Holds(requests[q], j, t) /\ ~Holds(r2, j, t)
      BY <1>1, <1>3, <1>7 DEF Holds
    <3> QED
      BY <3>1, <3>2, <3>3
  <2> QED
    BY <2>1 DEF Balanced
<1>20. NothingIsChargedTwice'
  BY <1>2, <1>5, <1>7, <1>15, <1>19, BalanceSuffices
<1> QED
  BY <1>8, <1>15, <1>16, <1>18, <1>20 DEF RateInv

\* The cleanup job, the clock and the operator.
LEMMA DeleteExpiredKeeps ==
  ASSUME RateInv, DeleteExpired
  PROVE  RateInv'
<1>1. rows' = Swept(clock) /\ UNCHANGED <<limit, clock, requests, made, charged>>
  BY DEF DeleteExpired
<1>2. /\ RateTypeOK /\ rows \in [Keys -> MaybeRow] /\ clock \in Time
      /\ RequestsAreSound /\ CallsLookBack /\ AddressRowsLast /\ AddressesCount /\ NothingIsChargedTwice
  BY InvFacts
<1>3. PICK n \in Time : n = clock /\ n <= clock
  BY <1>2, Numbers
<1>4. rows' = Swept(n)
  BY <1>1, <1>3
<1>5. /\ Swept(n) \in [Keys -> MaybeRow]
      /\ \A k \in Keys, t \in Time : Occurs(TimesOf(Swept(n)[k]), t) <= Count(k, t)
  BY <1>2, <1>3, SweptFacts
<1>6. RateTypeOK'
  <2>1. rows' \in [Keys -> LimitRow \cup {NoRow}]
    BY <1>4, <1>5 DEF MaybeRow
  <2> QED
    BY <1>1, <1>2, <2>1 DEF RateTypeOK
<1>7. RequestsAreSound' /\ CallsLookBack'
  BY <1>1, <1>2 DEF RequestsAreSound, CallsLookBack
<1>8. AddressRowsLast' /\ AddressesCount'
  <2>1. \A k \in Addresses : rows'[k] = Swept(n)[k] /\ charged'[k] = charged[k]
    BY <1>1, <1>4
  <2>2. clock' = clock
    BY <1>1
  <2> QED
    BY <1>2, <1>3, <2>1, <2>2, AddressesSwept
<1>9. NothingIsChargedTwice'
  <2>1. \A k \in Credentials, t \in Time : Count(k, t)' <= Count(k, t)
    BY <1>4, <1>5 DEF Count, Keys
  <2>2. UNCHANGED <<requests, charged>>
    BY <1>1
  <2> QED
    BY <1>2, <1>6, <2>1, <2>2, FewerCounts
<1> QED
  BY <1>6, <1>7, <1>8, <1>9 DEF RateInv

\* Steps that only let time pass or change the limit.
LEMMA OutsideKeeps ==
  ASSUME RateInv, UNCHANGED <<rows, requests, made, charged>>, clock' \in Time, clock' >= clock, limit' \in Limits
  PROVE  RateInv'
<1>1. /\ RateTypeOK /\ rows \in [Keys -> MaybeRow] /\ clock \in Time
      /\ RequestsAreSound /\ CallsLookBack /\ AddressRowsLast /\ AddressesCount /\ NothingIsChargedTwice
  BY InvFacts
<1>2. RateTypeOK'
  BY <1>1 DEF RateTypeOK
<1>3. RequestsAreSound'
  BY <1>1 DEF RequestsAreSound
<1>4. CallsLookBack'
  <2> SUFFICES ASSUME NEW q \in Requests, requests[q] # NoRequest PROVE requests[q].now <= clock'
    BY DEF CallsLookBack
  <2>1. requests[q] \in Request /\ requests[q].now <= clock
    BY InvFacts
  <2>2. PICK n \in Time, c \in Time, d \in Time : n = requests[q].now /\ c = clock /\ d = clock'
    BY <1>1, <2>1 DEF Request
  <2>3. n <= c /\ c <= d
    BY <2>1, <2>2
  <2>4. n <= d
    BY <2>3, Numbers
  <2> QED
    BY <2>2, <2>4
<1>5. AddressRowsLast' /\ AddressesCount'
  BY <1>1, AddressesLeftAlone
<1>6. NothingIsChargedTwice'
  BY <1>1 DEF NothingIsChargedTwice, Count
<1> QED
  BY <1>2, <1>3, <1>4, <1>5, <1>6 DEF RateInv

LEMMA RateInitInv ==
  RateInit => RateInv
<1> SUFFICES ASSUME RateInit PROVE RateInv
  OBVIOUS
<1>1. 0 \in Time
  BY Numbers DEF Time
<1>2. RateTypeOK
  BY <1>1, RateAssumptions DEF RateInit, RateTypeOK
<1>3. RequestsAreSound /\ CallsLookBack
  BY DEF RateInit, RequestsAreSound, CallsLookBack
<1>4. \A k \in Keys : rows[k] = NoRow
  BY DEF RateInit
<1>5. \A k \in Keys, t \in Time : TimesOf(rows[k]) = <<>> /\ Count(k, t) = 0
  BY <1>4, TimesType DEF Count
<1>6. AddressRowsLast
  <2>1. DOMAIN <<>> = {}
    OBVIOUS
  <2> QED
    BY <1>5, <1>1, <2>1 DEF AddressRowsLast, Lasts, Keys
<1>7. \A k \in Credentials \cup Addresses, t \in Time : charged[k][t] = 0
  BY DEF RateInit
<1>8. AddressesCount
  BY <1>5, <1>7 DEF AddressesCount, Keys
<1>9. NothingIsChargedTwice
  <2> SUFFICES ASSUME NEW k \in Credentials, NEW t \in Time
               PROVE  Count(k, t) <= charged[k][t] + Cardinality(Holders(k, t))
    BY DEF NothingIsChargedTwice, Holders, Holds
  <2>1. Holders(k, t) = {}
    BY DEF RateInit, Holders, Holds
  <2>2. Cardinality(Holders(k, t)) = 0
    BY <2>1, FS_EmptySet
  <2> QED
    BY <2>2, <1>5, <1>7 DEF Keys
<1> QED
  BY <1>2, <1>3, <1>6, <1>8, <1>9 DEF RateInv

LEMMA RateNextInv ==
  RateInv /\ [RateNext]_rateVars => RateInv'
<1> SUFFICES ASSUME RateInv, [RateNext]_rateVars PROVE RateInv'
  OBVIOUS
<1>1. ASSUME NEW q \in Requests,
             (\E a \in Addresses : BeginPublic(q, a)) \/ (\E todo \in Carried : BeginRequest(q, todo))
      PROVE  RateInv'
  BY <1>1, BeginKeeps
<1>2. ASSUME NEW q \in Requests, Allow(q) PROVE RateInv'
  BY <1>2, AllowKeeps
<1>3. ASSUME NEW q \in Requests, ReadClock(q) PROVE RateInv'
  BY <1>3, ReadClockKeeps
<1>4. ASSUME NEW q \in Requests, Reserve(q) PROVE RateInv'
  BY <1>4, ReserveKeeps
<1>5. ASSUME NEW q \in Requests, Lookup(q) PROVE RateInv'
  BY <1>5, LookupKeeps
<1>6. ASSUME NEW q \in Requests, Cancel(q) PROVE RateInv'
  BY <1>6, CancelKeeps
<1>7. ASSUME NEW q \in Requests, GiveUp(q) PROVE RateInv'
  BY <1>7, GiveUpKeeps
<1>8. ASSUME NEW q \in Requests, Finalize(q) PROVE RateInv'
  BY <1>8, FinalizeKeeps
<1>9. CASE DeleteExpired
  BY <1>9, DeleteExpiredKeeps
<1>10. limit \in Limits /\ clock \in Time /\ clock >= clock
  BY InvFacts, Numbers DEF RateTypeOK
<1>11. CASE Tick
  <2>1. clock < MaxTime /\ clock' = clock + 1 /\ UNCHANGED <<rows, limit, requests, made, charged>>
    BY <1>11 DEF Tick
  <2>2. clock' \in Time /\ clock' >= clock
    BY <1>10, <2>1, Numbers DEF Time
  <2> QED
    BY <1>10, <2>1, <2>2, OutsideKeeps
<1>12. ASSUME NEW n \in Limits, SetLimit(n) PROVE RateInv'
  <2>1. limit' = n /\ UNCHANGED <<rows, clock, requests, made, charged>>
    BY <1>12 DEF SetLimit
  <2> QED
    BY <1>10, <2>1, OutsideKeeps
<1>13. CASE UNCHANGED rateVars
  <2>1. UNCHANGED <<rows, limit, clock, requests, made, charged>>
    BY <1>13 DEF rateVars
  <2> QED
    BY <1>10, <2>1, OutsideKeeps
<1> QED
  BY <1>1, <1>2, <1>3, <1>4, <1>5, <1>6, <1>7, <1>8, <1>9, <1>11, <1>12, <1>13 DEF RateNext

\* Whatever the rows hold, the wait that is announced is the shortest that helps.
LEMMA WaitIsExact ==
  RateTypeOK => RetryAfterIsExact
<1> SUFFICES ASSUME RateTypeOK, NEW k \in Keys, NEW now \in 0..clock, ~HasRoom(rows[k], now),
                    NEW later, later = now + RetryAfter(Active(rows[k], now), now)
             PROVE  HasRoom(rows[k], later) /\ \A t \in now..(later - 1) : ~HasRoom(rows[k], t)
  BY DEF RetryAfterIsExact
<1>1. PICK row \in MaybeRow : row = rows[k]
  BY DEF RateTypeOK, MaybeRow
<1>2. PICK m \in Nat : m = limit /\ m > 0
  BY RateAssumptions DEF RateTypeOK
<1>3. now \in Int /\ Window \in Int
  BY Numbers DEF RateTypeOK
<1>4. PICK times \in Seq(Time), from \in Int : times = TimesOf(row) /\ from = now - Window
  BY <1>3, TimesType
<1>5. \A t \in Int : /\ HasRoom(row, t) <=> Cardinality(Since(times, t - Window)) < m
                     /\ Cardinality(Since(times, t - Window)) \in Nat
  BY <1>2, <1>4, ActiveFacts DEF HasRoom
<1>6. Active(row, now) = OldestFirst(times, from) /\ Len(Active(row, now)) = Cardinality(Since(times, from))
  BY <1>3, <1>4, ActiveFacts DEF Active
<1>7. PICK e : e = OldestFirst(times, from)[Cardinality(Since(times, from)) - m + 1]
  OBVIOUS
<1>8. Cardinality(Since(times, from)) >= m
  BY <1>1, <1>2, <1>3, <1>4, <1>5
<1>9. /\ e \in Time /\ from < e /\ Cardinality(Since(times, e)) < m
      /\ \A u \in Int : u < e => Cardinality(Since(times, u)) >= m
  BY <1>2, <1>7, <1>8, WaitingIsExact
<1>10. later = now + (e + Window - now)
  BY <1>1, <1>2, <1>6, <1>7 DEF RetryAfter
<1>11. e \in Int
  BY <1>9, Numbers
<1>12. later \in Int /\ later - Window = e
  BY <1>3, <1>10, <1>11
<1>13. HasRoom(row, later)
  BY <1>5, <1>9, <1>12
<1>14. ASSUME NEW t \in now..(later - 1) PROVE ~HasRoom(row, t)
  <2>1. t \in Int /\ t - Window \in Int /\ t - Window < e
    BY <1>3, <1>12
  <2>2. PICK u \in Int : u = t - Window
    BY <2>1
  <2>3. Cardinality(Since(times, u)) >= m
    BY <1>9, <2>1, <2>2
  <2> QED
    BY <1>2, <1>5, <2>1, <2>2, <2>3
<1> QED
  BY <1>1, <1>13, <1>14

-----------------------------------------------------------------------------
(* How long a row gets.                                                     *)

\* No longer than some limit.
Within(row) == \E n \in Limits : Len(TimesOf(row)) <= n

RowsAreShort == \A k \in Keys : Within(rows[k])

LEMMA SinceIsShort ==
  ASSUME NEW times \in Seq(Time), NEW from \in Int
  PROVE  Cardinality(Since(times, from)) <= Len(times)
<1>1. DOMAIN times = 1..Len(times) /\ Len(times) \in Nat
  OBVIOUS
<1>2. PICK a \in Int, b \in Nat : a = 1 /\ b = Len(times)
  <2>1. 1 \in Int
    OBVIOUS
  <2>2. PICK b \in Nat : b = Len(times)
    BY <1>1
  <2> QED
    BY <2>1, <2>2
<1>3. IsFiniteSet(a..b) /\ Cardinality(a..b) = IF a > b THEN 0 ELSE b - a + 1
  BY FS_Interval
<1>4. Cardinality(1..Len(times)) = Len(times)
  BY <1>2, <1>3
<1>5. Since(times, from) \in SUBSET (1..Len(times))
  BY <1>1 DEF Since
<1> QED
  BY <1>2, <1>3, <1>4, <1>5, FS_Subset

LEMMA RemovingShortens ==
  ASSUME NEW times \in Seq(Time), NEW i \in DOMAIN times
  PROVE  Len(RemoveAt(times, i)) <= Len(times)
<1>1. Len(times) \in Nat /\ DOMAIN times = 1..Len(times)
  OBVIOUS
<1>2. SubSeq(times, 1, i - 1) \in Seq(Time) /\ Len(SubSeq(times, 1, i - 1)) = i - 1
  BY <1>1
<1>3. SubSeq(times, i + 1, Len(times)) \in Seq(Time) /\ Len(SubSeq(times, i + 1, Len(times))) = Len(times) - i
  BY <1>1
<1>4. PICK u \in Seq(Time), v \in Seq(Time) :
        u = SubSeq(times, 1, i - 1) /\ v = SubSeq(times, i + 1, Len(times))
  BY <1>2, <1>3
<1>5. Len(u) = i - 1 /\ Len(v) = Len(times) - i
  BY <1>2, <1>3, <1>4
<1>6. RemoveAt(times, i) = u \o v
  BY <1>4 DEF RemoveAt
<1>7. Len(RemoveAt(times, i)) = Len(u) + Len(v)
  BY <1>6, Joined
<1>8. i \in 1..Len(times)
  BY <1>1
<1>9. Len(RemoveAt(times, i)) = Len(times) - 1
  BY <1>1, <1>5, <1>7, <1>8
<1> QED
  BY <1>1, <1>9

LEMMA WithoutShortens ==
  ASSUME NEW row \in MaybeRow, NEW t \in Time
  PROVE  Len(TimesOf(Without(row, t))) <= Len(TimesOf(row))
<1>1. PICK times \in Seq(Time) : times = TimesOf(row)
  BY TimesType
<1>2. Len(times) \in Nat
  OBVIOUS
<1>3. CASE row = NoRow
  BY <1>1, <1>2, <1>3 DEF Without
<1>4. CASE row # NoRow
  <2>1. PICK found : found = {i \in DOMAIN times : times[i] = t}
    OBVIOUS
  <2>2. PICK rest : rest = IF found = {} THEN times ELSE RemoveAt(times, Max(found))
    OBVIOUS
  <2>3. Without(row, t) = [times |-> rest, expires |-> IF rest = <<>> THEN row.expires ELSE Expiry(rest)]
    BY <1>1, <1>4, <2>1, <2>2 DEF Without
  <2>4. Without(row, t) # NoRow
    BY <1>4, WithoutFacts
  <2>5. TimesOf(Without(row, t)) = rest
    BY <2>3, <2>4 DEF TimesOf
  <2>6. CASE found = {}
    BY <1>1, <1>2, <2>2, <2>5, <2>6
  <2>7. CASE found # {}
    <3>1. IsFiniteSet(found)
      BY <2>1, OccursIsNat
    <3>2. \A x \in found : x \in Int
      BY <2>1
    <3>3. \E x \in found : \A y \in found : x >= y
      BY <2>7, <3>1, <3>2, ExtremesExist
    <3>4. Max(found) \in found
      BY <3>3 DEF Max
    <3>5. PICK i \in DOMAIN times : i = Max(found)
      BY <2>1, <3>4
    <3> QED
      BY <1>1, <2>2, <2>5, <2>7, <3>5, RemovingShortens
  <2> QED
    BY <2>6, <2>7
<1> QED
  BY <1>3, <1>4

\* What a call writes is at most one longer than what it found in the window.
LEMMA WrittenLengths ==
  ASSUME NEW row \in MaybeRow, NEW now \in Time
  PROVE  /\ Len(Active(row, now)) \in Nat /\ Len(Active(row, now)) <= Len(TimesOf(row))
         /\ Len(TimesOf(Recorded(row, now))) = Len(Active(row, now)) + 1
         /\ Len(TimesOf(Allowed(row, now))) <= Len(Active(row, now)) + 1
         /\ Len(Active(row, now)) > 0 => Len(TimesOf(Pruned(row, now))) = Len(Active(row, now))
<1>1. now \in Int /\ Window \in Int /\ now - Window \in Int /\ -1 \in Int
  BY Numbers
<1>2. PICK act \in Seq(Time) : act = Active(row, now)
  BY <1>1, ActiveFacts
<1>3. Len(act) \in Nat
  OBVIOUS
<1>4. Len(act) <= Len(TimesOf(row))
  <2>1. PICK times \in Seq(Time), from \in Int : times = TimesOf(row) /\ from = now - Window
    BY <1>1, TimesType
  <2>2. Len(act) = Cardinality(Since(times, from))
    BY <1>1, <1>2, <2>1, ActiveFacts
  <2> QED
    BY <2>1, <2>2, SinceIsShort
<1>5. PICK s \in Seq(Time) : s = Append(act, now) /\ Len(s) = Len(act) + 1
  <2>1. Append(act, now) \in Seq(Time) /\ Len(Append(act, now)) = Len(act) + 1
    OBVIOUS
  <2> QED
    BY <2>1
<1>6. Len(TimesOf(Recorded(row, now))) = Len(act) + 1
  <2>1. Recorded(row, now) \in LimitRow
    BY RecordedFacts
  <2>2. Recorded(row, now).times = s
    BY <1>2, <1>5 DEF Recorded, Row
  <2> QED
    BY <1>5, <2>1, <2>2, TimesType
<1>7. Len(TimesOf(Allowed(row, now))) <= Len(act) + 1
  <2>1. Allowed(row, now) \in LimitRow
    BY AllowedFacts
  <2>2. Allowed(row, now).times = OldestFirst(s, -1)
    BY <1>2, <1>5 DEF Allowed, Row
  <2>3. PICK from \in Int : from = -1
    BY <1>1
  <2>4. Len(OldestFirst(s, from)) = Cardinality(Since(s, from)) /\ Cardinality(Since(s, from)) <= Len(s)
    BY OldestFirstType, SinceIsShort
  <2>5. TimesOf(Allowed(row, now)) = OldestFirst(s, from)
    BY <2>1, <2>2, <2>3, TimesType
  <2> QED
    BY <1>5, <2>4, <2>5
<1>8. Len(act) > 0 => Len(TimesOf(Pruned(row, now))) = Len(act)
  <2> SUFFICES ASSUME Len(act) > 0 PROVE Len(TimesOf(Pruned(row, now))) = Len(act)
    OBVIOUS
  <2>1. Pruned(row, now) \in LimitRow
    BY <1>2, PrunedFacts
  <2>2. Pruned(row, now).times = act
    BY <1>2 DEF Pruned, Row
  <2> QED
    BY <2>1, <2>2, TimesType
<1> QED
  BY <1>2, <1>3, <1>4, <1>6, <1>7, <1>8

\* A row that is no longer than one within a limit, or than the limit in force.
LEMMA ShorterIsWithin ==
  ASSUME NEW row \in MaybeRow, NEW new \in MaybeRow,
         \/ Within(row) /\ Len(TimesOf(new)) <= Len(TimesOf(row))
         \/ limit \in Limits /\ Len(TimesOf(new)) <= limit
  PROVE  Within(new)
<1>1. PICK a \in Nat, b \in Nat : a = Len(TimesOf(row)) /\ b = Len(TimesOf(new))
  <2>1. PICK u \in Seq(Time), v \in Seq(Time) : u = TimesOf(row) /\ v = TimesOf(new)
    BY TimesType
  <2>2. Len(u) \in Nat /\ Len(v) \in Nat
    OBVIOUS
  <2> QED
    BY <2>1, <2>2
<1>2. CASE Within(row) /\ b <= a
  <2>1. PICK n \in Limits : a <= n
    BY <1>1, <1>2 DEF Within
  <2>2. n \in Nat
    BY RateAssumptions
  <2>3. b <= n
    BY <1>2, <2>1, <2>2
  <2> QED
    BY <1>1, <2>3 DEF Within
<1>3. CASE limit \in Limits /\ b <= limit
  BY <1>1, <1>3 DEF Within
<1> QED
  BY <1>1, <1>2, <1>3

\* One row is written, after a sweep or without one.
LEMMA OneRowWritten ==
  ASSUME NEW w \in [Keys -> MaybeRow], \A j \in Keys : Within(w[j]),
         NEW k \in Keys, NEW new, Within(new), rows' = [w EXCEPT ![k] = new]
  PROVE  RowsAreShort'
<1>1. \A j \in Keys : rows'[j] = IF j = k THEN new ELSE w[j]
  OBVIOUS
<1> QED
  BY <1>1 DEF RowsAreShort, Within

LEMMA SweptIsShort ==
  ASSUME RateInv, RowsAreShort, NEW n \in Time, n <= clock
  PROVE  Swept(n) \in [Keys -> MaybeRow] /\ \A k \in Keys : Within(Swept(n)[k])
<1>1. Swept(n) \in [Keys -> MaybeRow]
  BY InvFacts, SweptFacts
<1>2. ASSUME NEW k \in Keys PROVE Within(Swept(n)[k])
  <2>1. Swept(n)[k] = rows[k] \/ Swept(n)[k] = NoRow
    BY DEF Swept
  <2>2. Within(rows[k])
    BY DEF RowsAreShort
  <2>3. Within(NoRow)
    <3>1. PICK m \in Limits : m = limit
      BY InvFacts DEF RateTypeOK
    <3>2. m \in Nat /\ Len(<<>>) = 0
      BY RateAssumptions
    <3>3. Len(TimesOf(NoRow)) <= m
      BY <3>2, TimesType
    <3> QED
      BY <3>3 DEF Within
  <2> QED
    BY <2>1, <2>2, <2>3
<1> QED
  BY <1>1, <1>2

\* A call that finds room writes a row within the limit in force; the others write
\* no longer one than they found.
LEMMA RowsStayShort ==
  RateInv /\ RowsAreShort /\ [RateNext]_rateVars => RowsAreShort'
<1> SUFFICES ASSUME RateInv, RowsAreShort, [RateNext]_rateVars PROVE RowsAreShort'
  OBVIOUS
<1>1. rows \in [Keys -> MaybeRow] /\ clock \in Time /\ limit \in Limits /\ limit \in Nat /\ limit > 0
  BY InvFacts DEF RateTypeOK
<1>2. \A k \in Keys : Within(rows[k])
  BY DEF RowsAreShort
<1>3. ASSUME UNCHANGED rows PROVE RowsAreShort'
  BY <1>3 DEF RowsAreShort, Within
<1>4. ASSUME NEW n \in Time, n <= clock, rows' = Swept(n) PROVE RowsAreShort'
  <2>1. \A k \in Keys : Within(rows'[k])
    BY <1>4, SweptIsShort
  <2> QED
    BY <2>1 DEF RowsAreShort, Within
<1>5. \A q \in Requests : requests[q] # NoRequest =>
        requests[q] \in Request /\ Sound(requests[q]) /\ requests[q].now <= clock
  BY InvFacts
<1>6. ASSUME NEW q \in Requests, Allow(q) PROVE RowsAreShort'
  <2>1. PICK r \in Request : r = requests[q] /\ Sound(r) /\ r.now <= clock
    BY <1>5, <1>6 DEF Allow
  <2>2. r.pc = "allow"
    BY <1>6, <2>1 DEF Allow
  <2>3. \E a \in Addresses : r.todo = <<a>>
    BY <2>1, <2>2 DEF Sound
  <2>4. PICK k \in Addresses, n \in Time : k = r.todo[1] /\ n = r.now
    BY <2>3 DEF Request
  <2>5. k \in Keys /\ n <= clock
    BY <2>1, <2>4 DEF Keys
  <2>6. PICK w \in [Keys -> MaybeRow] : w = Swept(n) /\ \A j \in Keys : Within(w[j])
    BY <2>5, SweptIsShort
  <2>7. PICK row \in MaybeRow : row = w[k]
    BY <2>5
  <2>8. \/ HasRoom(row, n) /\ rows' = [w EXCEPT ![k] = Allowed(row, n)]
        \/ ~HasRoom(row, n) /\ rows' = [w EXCEPT ![k] = Pruned(row, n)]
    BY <1>6, <2>1, <2>4, <2>6, <2>7 DEF Allow
  <2>9. /\ Len(Active(row, n)) \in Nat /\ Len(Active(row, n)) <= Len(TimesOf(row))
        /\ Len(TimesOf(Allowed(row, n))) <= Len(Active(row, n)) + 1
        /\ Len(Active(row, n)) > 0 => Len(TimesOf(Pruned(row, n))) = Len(Active(row, n))
    BY WrittenLengths
  <2>10. CASE HasRoom(row, n) /\ rows' = [w EXCEPT ![k] = Allowed(row, n)]
    <3>1. PICK new \in MaybeRow : new = Allowed(row, n)
      BY AllowedFacts DEF MaybeRow
    <3>2. PICK m \in Nat : m = Len(TimesOf(new))
      BY TimesType
    <3>3. Len(TimesOf(new)) <= limit
      BY <1>1, <2>9, <2>10, <3>1, <3>2 DEF HasRoom
    <3>4. Within(new)
      BY <1>1, <3>3, ShorterIsWithin
    <3> QED
      BY <2>5, <2>6, <2>10, <3>1, <3>4, OneRowWritten
  <2>11. CASE ~HasRoom(row, n) /\ rows' = [w EXCEPT ![k] = Pruned(row, n)]
    <3>1. Len(Active(row, n)) > 0
      BY <1>1, <2>9, <2>11 DEF HasRoom
    <3>2. PICK new \in MaybeRow : new = Pruned(row, n)
      BY <3>1, PrunedFacts DEF MaybeRow
    <3>3. Within(row) /\ Len(TimesOf(new)) <= Len(TimesOf(row))
      BY <2>5, <2>6, <2>7, <2>9, <3>1, <3>2
    <3>4. Within(new)
      BY <3>3, ShorterIsWithin
    <3> QED
      BY <2>5, <2>6, <2>11, <3>2, <3>4, OneRowWritten
  <2> QED
    BY <2>8, <2>10, <2>11
<1>7. ASSUME NEW row \in MaybeRow, NEW n \in Time, HasRoom(row, n)
      PROVE  Recorded(row, n) \in MaybeRow /\ Within(Recorded(row, n))
  <2>1. PICK new \in MaybeRow : new = Recorded(row, n)
    BY RecordedFacts DEF MaybeRow
  <2>2. Len(TimesOf(new)) = Len(Active(row, n)) + 1 /\ Len(Active(row, n)) \in Nat
    BY <2>1, WrittenLengths
  <2>3. Len(TimesOf(new)) <= limit
    BY <1>1, <1>7, <2>2 DEF HasRoom
  <2>4. Within(new)
    BY <1>1, <2>3, ShorterIsWithin
  <2> QED
    BY <2>1, <2>4
<1>8. ASSUME NEW k \in Credentials, NEW t \in Time, rows' = [rows EXCEPT ![k] = Without(@, t)]
      PROVE  RowsAreShort'
  <2>1. k \in Keys
    BY DEF Keys
  <2>2. PICK row \in MaybeRow : row = rows[k] /\ Within(row)
    BY <1>1, <1>2, <2>1
  <2>3. PICK new \in MaybeRow : new = Without(row, t) /\ Len(TimesOf(new)) <= Len(TimesOf(row))
    BY WithoutFacts, WithoutShortens
  <2>4. Within(new)
    BY <2>2, <2>3, ShorterIsWithin
  <2>5. rows' = [rows EXCEPT ![k] = new]
    BY <1>8, <2>2, <2>3
  <2>6. PICK w \in [Keys -> MaybeRow] : w = rows
    BY <1>1
  <2> QED
    BY <1>2, <2>1, <2>4, <2>5, <2>6, OneRowWritten
<1>9. ASSUME NEW q \in Requests, Reserve(q) PROVE RowsAreShort'
  <2>1. PICK r \in Request : r = requests[q] /\ Sound(r) /\ r.now <= clock
    BY <1>5, <1>9 DEF Reserve
  <2>2. r.pc = "reserve"
    BY <1>9, <2>1 DEF Reserve
  <2>3. PICK k \in Credentials, n \in Time : k = r.todo[1] /\ n = r.now
    BY <2>1, <2>2, TriedFacts DEF Sound, Request
  <2>4. k \in Keys /\ n <= clock
    BY <2>1, <2>3 DEF Keys
  <2>5. PICK w \in [Keys -> MaybeRow] : w = Swept(n) /\ \A j \in Keys : Within(w[j])
    BY <2>4, SweptIsShort
  <2>6. PICK row \in MaybeRow : row = w[k]
    BY <2>4
  <2>7. \/ HasRoom(row, n) /\ rows' = [w EXCEPT ![k] = Recorded(row, n)]
        \/ rows' = Swept(n)
        \/ UNCHANGED rows
    BY <1>9, <2>1, <2>3, <2>5, <2>6 DEF Reserve
  <2>8. CASE HasRoom(row, n) /\ rows' = [w EXCEPT ![k] = Recorded(row, n)]
    <3>1. PICK new : new = Recorded(row, n) /\ Within(new)
      BY <1>7, <2>8
    <3> QED
      BY <2>4, <2>5, <2>8, <3>1, OneRowWritten
  <2> QED
    BY <1>3, <1>4, <2>4, <2>7, <2>8
<1>10. ASSUME NEW q \in Requests, Cancel(q) PROVE RowsAreShort'
  <2>1. PICK r \in Request : r = requests[q]
    BY <1>5, <1>10 DEF Cancel
  <2>2. PICK h \in r.held : rows' = [rows EXCEPT ![h[1]] = Without(@, h[2])]
    BY <1>10, <2>1 DEF Cancel
  <2>3. PICK k \in Credentials, t \in Time : h = <<k, t>>
    BY DEF Request
  <2>4. rows' = [rows EXCEPT ![k] = Without(@, t)]
    BY <2>2, <2>3
  <2> QED
    BY <1>8, <2>4
<1>11. ASSUME NEW q \in Requests, Finalize(q) PROVE RowsAreShort'
  <2>1. PICK r \in Request : r = requests[q] /\ Sound(r)
    BY <1>5, <1>11 DEF Finalize
  <2>2. r.pc = "admit"
    BY <1>11, <2>1 DEF Finalize
  <2>3. PICK g \in r.held : g[1] = r.winner /\ r.held = {g}
    BY <2>1, <2>2 DEF Sound
  <2>4. PICK k \in Credentials, t \in Time : g = <<k, t>>
    BY DEF Request
  <2>5. g[1] = k /\ g[2] = t /\ r.winner = k
    BY <2>3, <2>4
  <2>6. (CHOOSE h \in r.held : h[1] = r.winner) = g
    BY <2>3
  <2>7. PICK a \in Accounts, n \in Time : a = AccountOf[k] /\ n = r.now
    BY RateAssumptions DEF Request
  <2>8. a \in Keys
    BY DEF Keys
  <2>9. PICK row \in MaybeRow : row = rows[a]
    BY <1>1, <2>8
  <2>10. \/ HasRoom(row, n) /\ rows' = [rows EXCEPT ![a] = Recorded(row, n)]
         \/ rows' = [rows EXCEPT ![k] = Without(@, t)]
    BY <1>11, <2>1, <2>5, <2>6, <2>7, <2>9 DEF Finalize, Refused
  <2>11. CASE HasRoom(row, n) /\ rows' = [rows EXCEPT ![a] = Recorded(row, n)]
    <3>1. PICK new : new = Recorded(row, n) /\ Within(new)
      BY <1>7, <2>11
    <3>2. PICK w \in [Keys -> MaybeRow] : w = rows
      BY <1>1
    <3> QED
      BY <1>2, <2>8, <2>11, <3>1, <3>2, OneRowWritten
  <2> QED
    BY <1>8, <2>10, <2>11
<1>12. CASE DeleteExpired
  <2>1. PICK n \in Time : n = clock /\ n <= clock
    BY <1>1, Numbers
  <2> QED
    BY <1>4, <1>12, <2>1 DEF DeleteExpired
<1>13. \/ \E q \in Requests : Allow(q) \/ Reserve(q) \/ Cancel(q) \/ Finalize(q)
       \/ DeleteExpired
       \/ UNCHANGED rows
  BY DEF RateNext, rateVars, BeginPublic, BeginRequest, ReadClock, Lookup, GiveUp, Tick, SetLimit
<1> QED
  BY <1>3, <1>6, <1>9, <1>10, <1>11, <1>12, <1>13

LEMMA RowsBeginShort ==
  RateInit => RowsAreShort
<1> SUFFICES ASSUME RateInit, NEW k \in Keys PROVE Within(rows[k])
  BY DEF RowsAreShort
<1>1. rows[k] = NoRow /\ limit \in Limits
  BY DEF RateInit
<1>2. limit \in Nat /\ Len(<<>>) = 0
  BY <1>1, RateAssumptions
<1>3. Len(TimesOf(rows[k])) <= limit
  BY <1>1, <1>2, TimesType
<1> QED
  BY <1>1, <1>3 DEF Within

-----------------------------------------------------------------------------
(* What the limiter promises.                                               *)

\* The invariant above holds in every reachable state of the limiter.
THEOREM RateInvHolds ==
  RateSpec => []RateInv
BY RateInitInv, RateNextInv, PTL DEF RateSpec

\* Every row, request and charge has its type: no step writes a time, an expiry
\* or a reservation that another could not read.
THEOREM RateTypesHold ==
  RateSpec => []RateTypeOK
<1>1. RateInv => RateTypeOK
  BY DEF RateInv
<1> QED
  BY <1>1, RateInvHolds, PTL

\* Allow counts every public request that it let through within the last window,
\* and no other, for any number of callers that write their times out of order
\* while expired rows are deleted; and no row, of an address or of another key,
\* gets longer than some limit that may be set, whoever else writes to it.
THEOREM PublicRequestsAreCounted ==
  RateSpec => []PublicRequestsCount
<1>1. RateSpec => []RowsAreShort
  BY RateInvHolds, RowsBeginShort, RowsStayShort, PTL DEF RateSpec
<1>2. RateInv /\ RowsAreShort => PublicRequestsCount
  BY DEF RateInv, AddressesCount, RowsAreShort, Within, PublicRequestsCount
<1> QED
  BY <1>1, <1>2, RateInvHolds, PTL

\* What CancelCredential and FinalizeCredential give back leaves nothing behind: a
\* credential counts no more than what was charged to it and what requests hold.
THEOREM NoDoubleCharge ==
  RateSpec => []NothingIsChargedTwice
<1>1. RateInv => NothingIsChargedTwice
  BY DEF RateInv
<1> QED
  BY <1>1, RateInvHolds, PTL

\* retryAfter is exact, whatever the limit was when the row was written.
THEOREM RetryAfterHolds ==
  RateSpec => []RetryAfterIsExact
BY WaitIsExact, RateTypesHold, PTL

-----------------------------------------------------------------------------
(* Part two: the retention job.                                             *)

\* One batch more, as far as batches are counted.
Another(n) == IF n < MaxBatches THEN n + 1 ELSE MaxBatches

\* Of the rules in A those in S have had their turn in this round.
Even(b, A, S) ==
  \A r, s \in A : /\ (r \in S <=> s \in S) => b[r] = b[s]
                  /\ r \in S /\ s \notin S => b[r] = Another(b[s])

Batches == [r \in Rules |-> job.results[r].batches]

\* The rules before the one whose turn it is have had theirs, and so has that one
\* once its batch is committed.
Served == IF job.pc = "check" THEN 1 .. job.rule ELSE 1 .. (job.rule - 1)

Rounds == Even(Batches, job.active, Served)

\* The rule whose turn it is goes on, and its transaction stays in the budget.
Turn ==
  /\ job.pc \in {"idle", "batch", "commit", "check"} => job.rule \in job.active
  /\ job.pc \in {"idle", "batch"} => job.taken = 0
  /\ job.pc = "commit" => Current.affected + job.taken <= RowBudget

\* The inductive invariant.
CleanupInv == TypeOK /\ Turn /\ Rounds /\ ReportIsHonest

-----------------------------------------------------------------------------
(* Minima.                                                                  *)

LEMMA MinOfTwo ==
  ASSUME NEW a \in Int, NEW b \in Int
  PROVE  /\ Min({a, b}) \in {a, b} /\ Min({a, b}) <= a /\ Min({a, b}) <= b
<1>1. \E x \in {a, b} : \A y \in {a, b} : x <= y
  OBVIOUS
<1> QED
  BY <1>1 DEF Min

\* A set of rules has a first one.
LEMMA MinOfRules ==
  ASSUME NEW A, A \subseteq Rules, A # {}
  PROVE  Min(A) \in A /\ \A s \in A : Min(A) <= s
<1>1. IsFiniteSet(Rules)
  BY FS_Interval, CleanupAssumptions DEF Rules
<1>2. IsFiniteSet(A)
  BY <1>1, FS_Subset
<1>3. \A x \in A : x \in Int
  BY CleanupAssumptions DEF Rules
<1>4. \E x \in A : \A y \in A : x =< y
  BY <1>2, <1>3, ExtremesExist
<1> QED
  BY <1>4 DEF Min

\* The rule that is next, and that only rules up to r are passed over.
LEMMA NextRuleIs ==
  ASSUME NEW A, A \subseteq Rules, A # {}, NEW r \in Rules
  PROVE  /\ NextRule(A, r) \in A
         /\ \/ NextRule(A, r) > r /\ \A s \in A : s < NextRule(A, r) <=> s <= r
            \/ \A s \in A : s <= r /\ NextRule(A, r) <= s
<1>1. \A s \in A : s \in Int /\ r \in Int
  BY CleanupAssumptions DEF Rules
<1>2. CASE \E s \in A : s > r
  <2> DEFINE B == {s \in A : s > r}
  <2>1. Min(B) \in B /\ \A s \in B : Min(B) <= s
    <3>1. B \subseteq Rules /\ B # {}
      BY <1>2
    <3> HIDE DEF B
    <3> QED
      BY <3>1, MinOfRules
  <2>2. NextRule(A, r) = Min(B)
    BY <1>2 DEF NextRule
  <2> QED
    BY <1>1, <2>1, <2>2
<1>3. CASE ~\E s \in A : s > r
  <2>1. NextRule(A, r) = Min(A)
    BY <1>3 DEF NextRule
  <2>2. Min(A) \in A /\ \A s \in A : Min(A) <= s
    BY MinOfRules
  <2> QED
    BY <1>1, <1>3, <2>1, <2>2
<1> QED
  BY <1>2, <1>3

-----------------------------------------------------------------------------
(* Rounds.                                                                  *)

\* A rule that gets its batch has had its turn.
LEMMA BatchCounts ==
  ASSUME NEW A, A \subseteq Rules, NEW r \in A, NEW b, NEW c,
         Even(b, A, 1 .. (r - 1)),
         c[r] = Another(b[r]), \A s \in A \ {r} : c[s] = b[s]
  PROVE  Even(c, A, 1 .. r)
<1>1. \A s \in A : s \in Nat \ {0}
  BY DEF Rules
<1>2. \A s \in A : s \in 1 .. r <=> s = r \/ s \in 1 .. (r - 1)
  BY <1>1
<1>3. r \notin 1 .. (r - 1)
  BY <1>1
<1> HIDE DEF Another
<1> QED
  BY <1>2, <1>3 DEF Even

\* Passing on the turn keeps the rounds, also into the next one.
LEMMA TurnPasses ==
  ASSUME NEW A, A \subseteq Rules, A # {}, NEW r \in Rules, NEW b, Even(b, A, 1 .. r)
  PROVE  Even(b, A, 1 .. (NextRule(A, r) - 1))
<1>1. \A s \in A : s \in Nat \ {0} /\ r \in Nat
  BY DEF Rules
<1>2. NextRule(A, r) \in A /\ NextRule(A, r) \in Nat
  BY <1>1, NextRuleIs
<1>3. CASE \A s \in A : s < NextRule(A, r) <=> s <= r
  <2>1. \A s \in A : s \in 1 .. (NextRule(A, r) - 1) <=> s \in 1 .. r
    BY <1>1, <1>2, <1>3
  <2> QED
    BY <2>1 DEF Even
<1>4. CASE \A s \in A : s <= r /\ NextRule(A, r) <= s
  <2>1. \A s \in A : s \notin 1 .. (NextRule(A, r) - 1) /\ s \in 1 .. r
    BY <1>1, <1>2, <1>4
  <2> QED
    BY <2>1 DEF Even
<1> QED
  BY <1>3, <1>4, NextRuleIs

\* A rule that gives up leaves the others as they were.
LEMMA TurnDropped ==
  ASSUME NEW A, A \subseteq Rules, NEW r \in Rules, NEW b, NEW c, NEW S,
         S \in {1 .. r, 1 .. (r - 1)}, Even(b, A, S),
         \A s \in A \ {r} : c[s] = b[s]
  PROVE  Even(c, A \ {r}, 1 .. r)
<1>1. \A s \in A : s \in Nat \ {0} /\ r \in Nat
  BY DEF Rules
<1>2. \A s \in A \ {r} : s \in 1 .. r <=> s \in S
  BY <1>1
<1> QED
  BY <1>2 DEF Even

-----------------------------------------------------------------------------
(* The end of a turn.                                                       *)

\* What TurnOver changes.
LEMMA TurnOverIs ==
  ASSUME TypeOK, NEW result \in Result, NEW A, A \subseteq job.active, NEW goesOn \in BOOLEAN,
         A = IF goesOn THEN job.active ELSE job.active \ {job.rule},
         job' = TurnOver(result, goesOn)
  PROVE  /\ job' \in Job
         /\ job'.results[job.rule] = result
         /\ \A s \in Rules \ {job.rule} : job'.results[s] = job.results[s]
         /\ job'.taken = 0 /\ job'.active = A /\ job'.expired = job.expired
         /\ A = {} => job'.pc = "report" /\ job'.rule = job.rule
         /\ A # {} => job'.pc = "batch" /\ job'.rule = NextRule(A, job.rule)
<1>1. /\ job \in Job /\ job.rule \in Rules /\ job.active \subseteq Rules
      /\ job.results \in [Rules -> Result]
  BY DEF TypeOK, Job
<1>2. A # {} => NextRule(A, job.rule) \in Rules
  BY <1>1, NextRuleIs
<1>3. PICK pc \in {"report", "batch"}, rule \in Rules :
        /\ A = {} => pc = "report" /\ rule = job.rule
        /\ A # {} => pc = "batch" /\ rule = NextRule(A, job.rule)
        /\ job' = [job EXCEPT !.results[job.rule] = result, !.taken = 0, !.active = A,
                              !.pc = pc, !.rule = rule]
  BY <1>1, <1>2 DEF TurnOver
<1>4. /\ job'.results = [job.results EXCEPT ![job.rule] = result]
      /\ job'.taken = 0 /\ job'.active = A /\ job'.expired = job.expired
      /\ job'.pc = pc /\ job'.rule = rule
  BY <1>1, <1>3 DEF Job
<1>5. /\ job'.results \in [Rules -> Result] /\ job'.results[job.rule] = result
      /\ \A s \in Rules \ {job.rule} : job'.results[s] = job.results[s]
  BY <1>1, <1>4
<1>6. job' = [pc |-> pc, rule |-> rule, active |-> A, taken |-> 0, expired |-> job.expired,
              results |-> [job.results EXCEPT ![job.rule] = result]]
  BY <1>1, <1>3 DEF Job
<1>7. job' \in Job
  BY <1>1, <1>4, <1>5, <1>6 DEF Job
<1> QED
  BY <1>3, <1>4, <1>5, <1>7

\* A turn that ends keeps the order of the turns: the rule is dropped, or it goes
\* on and has had one batch in this turn.
LEMMA TurnEnds ==
  ASSUME TypeOK, Turn, Rounds, job.pc \in {"batch", "commit", "check"},
         NEW result \in Result, NEW goesOn \in BOOLEAN, job' = TurnOver(result, goesOn),
         goesOn => \/ job.pc = "check" /\ result.batches = Current.batches
                   \/ job.pc = "commit" /\ result.batches = Another(Current.batches)
  PROVE  /\ job' \in Job /\ Turn' /\ Rounds'
         /\ job'.results[job.rule] = result
         /\ \A s \in Rules \ {job.rule} : job'.results[s] = job.results[s]
         /\ job'.pc \in {"batch", "report"} /\ job'.expired = job.expired
<1> DEFINE A == IF goesOn THEN job.active ELSE job.active \ {job.rule}
<1>1. /\ job.rule \in job.active /\ job.active \subseteq Rules /\ job.rule \in Rules
  BY DEF TypeOK, Job, Turn
<1>2. A \subseteq job.active /\ A \subseteq Rules
  BY <1>1
<1>3. /\ job' \in Job
      /\ job'.results[job.rule] = result
      /\ \A s \in Rules \ {job.rule} : job'.results[s] = job.results[s]
      /\ job'.taken = 0 /\ job'.active = A /\ job'.expired = job.expired
      /\ A = {} => job'.pc = "report" /\ job'.rule = job.rule
      /\ A # {} => job'.pc = "batch" /\ job'.rule = NextRule(A, job.rule)
  <2>1. A = IF goesOn THEN job.active ELSE job.active \ {job.rule}
    OBVIOUS
  <2> HIDE DEF A
  <2> QED
    BY <1>2, <2>1, TurnOverIs
<1>4. A # {} => NextRule(A, job.rule) \in A
  <2> HIDE DEF A
  <2> QED
    BY <1>1, <1>2, NextRuleIs
<1>5. Turn'
  <2> HIDE DEF A
  <2> QED
    BY <1>3, <1>4 DEF Turn
<1>6. /\ Batches'[job.rule] = result.batches
      /\ \A s \in Rules \ {job.rule} : Batches'[s] = Batches[s]
      /\ Batches[job.rule] = Current.batches
  BY <1>1, <1>3 DEF Batches, Current
<1>7. Even(Batches', A, 1 .. job.rule)
  <2>1. CASE ~goesOn
    <3>1. Served \in {1 .. job.rule, 1 .. (job.rule - 1)} /\ Even(Batches, job.active, Served)
      BY DEF Served, Rounds
    <3>2. A = job.active \ {job.rule}
      BY <2>1
    <3>3. \A s \in job.active \ {job.rule} : Batches'[s] = Batches[s]
      BY <1>1, <1>6
    <3> HIDE DEF A
    <3> QED
      BY <1>1, <3>1, <3>2, <3>3, TurnDropped
  <2>2. CASE goesOn /\ job.pc = "check" /\ result.batches = Current.batches
    <3>1. Even(Batches, job.active, 1 .. job.rule) /\ A = job.active
      BY <2>2 DEF Served, Rounds
    <3>2. \A s \in job.active : Batches'[s] = Batches[s]
      BY <1>1, <1>6, <2>2
    <3> HIDE DEF A
    <3> QED
      BY <3>1, <3>2 DEF Even
  <2>3. CASE goesOn /\ job.pc = "commit" /\ result.batches = Another(Current.batches)
    <3>1. Even(Batches, job.active, 1 .. (job.rule - 1)) /\ A = job.active
      BY <2>3 DEF Served, Rounds
    <3>2. Batches'[job.rule] = Another(Batches[job.rule])
      BY <1>6, <2>3
    <3>3. \A s \in job.active \ {job.rule} : Batches'[s] = Batches[s]
      BY <1>1, <1>6
    <3> HIDE DEF A
    <3> QED
      BY <1>1, <3>1, <3>2, <3>3, BatchCounts
  <2> QED
    BY <2>1, <2>2, <2>3
<1>8. Rounds'
  <2> HIDE DEF A
  <2>1. CASE A = {}
    BY <1>3, <2>1 DEF Rounds, Even
  <2>2. CASE A # {}
    <3>1. Even(Batches', A, 1 .. (NextRule(A, job.rule) - 1))
      BY <1>1, <1>2, <1>7, <2>2, TurnPasses
    <3>2. Served' = 1 .. (NextRule(A, job.rule) - 1) /\ job'.active = A
      BY <1>3, <2>2 DEF Served
    <3> QED
      BY <3>1, <3>2 DEF Rounds
  <2> QED
    BY <2>1, <2>2
<1>9. job'.pc \in {"batch", "report"}
  <2> HIDE DEF A
  <2> QED
    BY <1>3
<1> HIDE DEF A
<1> QED
  BY <1>3, <1>5, <1>8, <1>9

\* A turn that is passed over changes no count.
LEMMA RoundsFramed ==
  ASSUME TypeOK, Rounds, job' \in Job, job'.active = job.active, job'.rule = job.rule,
         job'.pc = "check" <=> job.pc = "check",
         \A r \in Rules : job'.results[r].batches = job.results[r].batches
  PROVE  Rounds'
<1>1. Batches' = Batches /\ Served' = Served
  BY DEF Batches, Served
<1> QED
  BY <1>1 DEF Rounds

-----------------------------------------------------------------------------
(* What is left.                                                            *)

LEMMA NothingLeft ==
  ASSUME TypeOK, NEW r \in Rules
  PROVE  /\ Left(r) \in Nat
         /\ Left(r) = 0 <=> /\ free[r] = 0 /\ held[r] = 0
                            /\ job.pc = "commit" /\ job.rule = r => job.taken = 0
<1>1. free[r] \in Nat /\ held[r] \in Nat /\ job.taken \in Nat
  BY DEF TypeOK, Job
<1>2. CASE job.pc = "commit" /\ job.rule = r
  BY <1>1, <1>2 DEF Left
<1>3. CASE ~(job.pc = "commit" /\ job.rule = r)
  BY <1>1, <1>3 DEF Left
<1> QED
  BY <1>2, <1>3

\* What is left grows by the rows that lapse, and by no other.
LEMMA LeftGrows ==
  ASSUME TypeOK, Turn, Next, TypeOK', NEW r \in Rules
  PROVE  \/ Left(r)' <= Left(r) /\ late'[r] = late[r]
         \/ /\ r \in Lapsing /\ Left(r)' = Left(r) + 1 /\ job' = job
            /\ job.results[r].backlog = FALSE => late'[r] = late[r] + 1
<1>1. /\ free \in [Rules -> Nat] /\ held \in [Rules -> Nat] /\ late \in [Rules -> Nat]
      /\ free' \in [Rules -> Nat] /\ held' \in [Rules -> Nat]
      /\ job \in Job /\ job.rule \in Rules /\ job.taken \in Nat /\ job'.taken \in Nat
  BY DEF TypeOK, Job
<1>2. PICK m \in Nat, n \in Nat :
        /\ Left(r) = free[r] + held[r] + m /\ Left(r)' = free'[r] + held'[r] + n
        /\ m = IF job.pc = "commit" /\ job.rule = r THEN job.taken ELSE 0
        /\ n = IF job'.pc = "commit" /\ job'.rule = r THEN job'.taken ELSE 0
  BY <1>1 DEF Left
<1>3. /\ free[r] \in Nat /\ held[r] \in Nat /\ free'[r] \in Nat /\ held'[r] \in Nat
  BY <1>1
<1>4. CASE \E s \in Rules : Hold(s) \/ LetGo(s)
  <2>1. PICK s \in Rules : Hold(s) \/ LetGo(s)
    BY <1>4
  <2>2. m = n /\ late' = late
    BY <1>2, <2>1 DEF Hold, LetGo
  <2>3. free'[r] + held'[r] <= free[r] + held[r]
    <3>1. CASE s # r
      BY <1>1, <2>1, <3>1 DEF Hold, LetGo
    <3>2. CASE s = r
      BY <1>1, <2>1, <3>2 DEF Hold, LetGo
    <3> QED
      BY <3>1, <3>2
  <2> QED
    BY <1>2, <1>3, <2>2, <2>3
<1>5. CASE \E s \in Lapsing : Lapse(s)
  <2>1. PICK s \in Lapsing : Lapse(s)
    BY <1>5
  <2>2. s \in Rules
    BY CleanupAssumptions DEF Rules
  <2>3. /\ free' = [free EXCEPT ![s] = @ + 1] /\ held' = held /\ job' = job
        /\ late' = IF job.results[s].backlog = FALSE THEN [late EXCEPT ![s] = @ + 1] ELSE late
    BY <2>1 DEF Lapse
  <2>4. m = n
    BY <1>2, <2>3
  <2>5. CASE s = r
    <3>1. free'[r] = free[r] + 1 /\ held'[r] = held[r]
      BY <1>1, <2>3, <2>5
    <3>2. job.results[r].backlog = FALSE => late'[r] = late[r] + 1
      BY <1>1, <2>3, <2>5
    <3> QED
      BY <1>2, <1>3, <2>3, <2>4, <2>5, <3>1, <3>2
  <2>6. CASE s # r
    <3>1. free'[r] = free[r] /\ held'[r] = held[r] /\ late'[r] = late[r]
      BY <1>1, <2>2, <2>3, <2>6
    <3> QED
      BY <1>2, <1>3, <2>4, <3>1
  <2> QED
    BY <2>5, <2>6
<1>6. CASE TakeBatch
  <2>1. PICK k : /\ free' = [free EXCEPT ![job.rule] = @ - k]
                 /\ job' = [job EXCEPT !.pc = "commit", !.taken = k]
                 /\ job.pc = "batch" /\ held' = held /\ late' = late
    BY <1>6 DEF TakeBatch
  <2>2. job'.taken = k /\ job'.rule = job.rule /\ job'.pc = "commit" /\ k \in Nat
    BY <1>1, <2>1 DEF Job
  <2>3. m = 0 /\ held'[r] = held[r]
    BY <1>2, <2>1
  <2>4. CASE job.rule = r
    <3>1. n = k /\ free'[r] = free[r] - k
      BY <1>1, <1>2, <2>1, <2>2, <2>4
    <3> QED
      BY <1>2, <1>3, <2>1, <2>2, <2>3, <3>1
  <2>5. CASE job.rule # r
    <3>1. n = 0 /\ free'[r] = free[r]
      BY <1>1, <1>2, <2>1, <2>2, <2>5
    <3> QED
      BY <1>2, <1>3, <2>1, <2>3, <3>1
  <2> QED
    BY <2>4, <2>5
<1>7. CASE BatchFails
  <2>1. job'.pc # "commit" /\ held' = held /\ late' = late
        /\ free' \in {free, [free EXCEPT ![job.rule] = @ + job.taken]}
    BY <1>1, <1>7 DEF BatchFails, TurnOver, Job
  <2>2. job.rule = r => m = job.taken
    BY <1>2, <1>7 DEF BatchFails, Turn
  <2>3. free'[r] <= free[r] + m
    <3>1. CASE job.rule = r
      BY <1>1, <1>3, <2>1, <2>2, <3>1
    <3>2. CASE job.rule # r
      BY <1>1, <1>2, <1>3, <2>1, <3>2
    <3> QED
      BY <3>1, <3>2
  <2>4. n = 0 /\ held'[r] = held[r]
    BY <1>2, <2>1
  <2> QED
    BY <1>2, <1>3, <2>1, <2>3, <2>4
<1>8. CASE CommitBatch \/ CheckBacklog \/ CheckFails \/ Start \/ LeaveLoop \/ Complete
  <2>1. free' = free /\ held' = held /\ late' = late
    BY <1>8 DEF CommitBatch, CheckBacklog, CheckFails, Start, LeaveLoop, Complete
  <2>2. job'.pc # "commit"
    <3>1. CASE CommitBatch \/ CheckBacklog \/ CheckFails
      BY <1>1, <3>1 DEF CommitBatch, CheckBacklog, CheckFails, TurnOver, Job
    <3>2. CASE Start \/ LeaveLoop \/ Complete
      BY <1>1, <3>2 DEF Start, LeaveLoop, Complete, Job
    <3> QED
      BY <1>8, <3>1, <3>2
  <2>3. n = 0
    BY <1>2, <2>2
  <2> QED
    BY <1>2, <1>3, <2>1, <2>3
<1>9. CASE Expire \/ ReadBacklog \/ ReadFails
  <2>1. /\ free' = free /\ held' = held /\ late' = late
        /\ job'.pc = job.pc /\ job'.rule = job.rule /\ job'.taken = job.taken
    BY <1>1, <1>9 DEF Expire, ReadBacklog, ReadFails, Job
  <2>2. m = n
    BY <1>2, <2>1
  <2> QED
    BY <1>2, <1>3, <2>1, <2>2
<1> QED
  BY <1>4, <1>5, <1>6, <1>7, <1>8, <1>9 DEF Next, JobStep

-----------------------------------------------------------------------------
(* The steps.                                                               *)

\* The part of the report that a step may change is about one rule.
LEMMA HonestStep ==
  ASSUME CleanupInv, Next, TypeOK',
         \A r \in Rules : job'.results[r].backlog = FALSE =>
                            job.results[r].backlog = FALSE \/ Left(r) = 0,
         job'.pc = "done" /\ Unread' # {} => job'.expired
  PROVE  ReportIsHonest'
<1>1. ASSUME NEW r \in Rules, job'.results[r].backlog = FALSE
      PROVE  Left(r)' <= late'[r] /\ (r \notin Lapsing => Left(r)' = 0)
  <2>1. late[r] \in Nat /\ Left(r) \in Nat
    BY NothingLeft DEF CleanupInv, TypeOK
  <2>2. Left(r)' \in Nat
    <3>1. free'[r] \in Nat /\ held'[r] \in Nat /\ job'.taken \in Nat
      BY DEF TypeOK, Job
    <3> QED
      BY <3>1 DEF Left
  <2>3. Left(r) <= late[r] /\ (r \notin Lapsing => Left(r) = 0)
    BY <1>1, <2>1 DEF CleanupInv, ReportIsHonest
  <2>4. \/ Left(r)' <= Left(r) /\ late'[r] = late[r]
        \/ /\ r \in Lapsing /\ Left(r)' = Left(r) + 1 /\ job' = job
           /\ job.results[r].backlog = FALSE => late'[r] = late[r] + 1
    BY LeftGrows DEF CleanupInv
  <2> QED
    BY <1>1, <2>1, <2>2, <2>3, <2>4
<1> QED
  BY <1>1 DEF ReportIsHonest

LEMMA ServerKeeps ==
  ASSUME CleanupInv, Next, NEW r \in Rules, Hold(r) \/ LetGo(r) \/ Lapse(r)
  PROVE  CleanupInv'
<1>1. TypeOK'
  <2>1. CASE Hold(r) \/ LetGo(r)
    BY <2>1 DEF CleanupInv, Hold, LetGo, TypeOK
  <2>2. CASE Lapse(r)
    BY <2>2 DEF CleanupInv, Lapse, TypeOK
  <2> QED
    BY <2>1, <2>2
<1>2. job' = job
  BY DEF Hold, LetGo, Lapse
<1>3. Turn' /\ Rounds'
  BY <1>2 DEF CleanupInv, Turn, Current, Rounds, Batches, Served
<1>4. ReportIsHonest'
  BY <1>1, <1>2, HonestStep DEF CleanupInv, ReportIsHonest, Unread
<1> QED
  BY <1>1, <1>3, <1>4 DEF CleanupInv

LEMMA MovesKeep ==
  ASSUME CleanupInv, Next, Start \/ Expire \/ LeaveLoop \/ Complete
  PROVE  CleanupInv'
<1>1. job \in Job /\ job.results \in [Rules -> Result]
  BY DEF CleanupInv, TypeOK, Job
<1>2. /\ job' \in Job /\ job'.results = job.results /\ job'.active = job.active
      /\ job'.rule = job.rule /\ job'.taken = job.taken
      /\ free' = free /\ held' = held /\ faults' = faults /\ late' = late
  BY <1>1 DEF Start, Expire, LeaveLoop, Complete, Job
<1>3. TypeOK'
  BY <1>2 DEF CleanupInv, TypeOK
<1>4. /\ job.expired => job'.expired
      /\ job'.pc # job.pc => \/ job.pc = "idle" /\ job'.pc = "batch"
                             \/ job.pc = "batch" /\ job'.pc = "report"
                             \/ job.pc = "report" /\ job'.pc = "done"
                                /\ (job'.expired \/ Unread = {})
  BY <1>1 DEF Start, Expire, LeaveLoop, Complete, Job
<1>5. job.pc = "idle" => job.taken = 0 /\ job.rule \in job.active
  BY DEF CleanupInv, Turn
<1>6. Turn'
  BY <1>2, <1>4, <1>5 DEF CleanupInv, Turn, Current
<1>7. Rounds'
  BY <1>2, <1>4, RoundsFramed DEF CleanupInv
<1>8. ReportIsHonest'
  <2>1. Unread' = Unread
    BY <1>2 DEF Unread
  <2>2. job'.pc = "done" /\ Unread' # {} => job'.expired
    BY <1>4, <2>1 DEF CleanupInv, ReportIsHonest
  <2> QED
    BY <1>2, <1>3, <2>2, HonestStep
<1> QED
  BY <1>3, <1>6, <1>7, <1>8 DEF CleanupInv

LEMMA TakeBatchKeeps ==
  ASSUME CleanupInv, Next, TakeBatch
  PROVE  CleanupInv'
<1>1. /\ job \in Job /\ job.results \in [Rules -> Result] /\ job.rule \in Rules
      /\ free \in [Rules -> Nat]
  BY DEF CleanupInv, TypeOK, Job
<1>2. PICK n : n = Min({Limit, free[job.rule]})
  OBVIOUS
<1>3. Current.affected \in 0 .. RowBudget
  BY <1>1 DEF Current, Result
<1>4. RowBudget - Current.affected \in Nat /\ free[job.rule] \in Nat
  BY <1>1, <1>3, CleanupAssumptions
<1>5. Limit \in Nat /\ Limit <= RowBudget - Current.affected
  <2>1. BatchSize \in Int /\ RowBudget - Current.affected \in Int
    BY <1>4, CleanupAssumptions
  <2>2. /\ Limit \in {BatchSize, RowBudget - Current.affected}
        /\ Limit <= RowBudget - Current.affected
    BY <2>1, MinOfTwo, Zenon DEF Limit
  <2> QED
    BY <1>4, <2>2, CleanupAssumptions
<1>6. n \in Nat /\ n <= Limit /\ n <= free[job.rule]
  <2>1. Limit \in Int /\ free[job.rule] \in Int
    BY <1>4, <1>5
  <2>2. n \in {Limit, free[job.rule]} /\ n <= Limit /\ n <= free[job.rule]
    BY <1>2, <2>1, MinOfTwo, Zenon
  <2> QED
    BY <1>4, <1>5, <2>2
<1>7. /\ free' = [free EXCEPT ![job.rule] = @ - n]
      /\ job' = [job EXCEPT !.pc = "commit", !.taken = n]
      /\ job.pc = "batch" /\ held' = held /\ faults' = faults /\ late' = late
  BY <1>2 DEF TakeBatch
<1>8. /\ job' \in Job /\ job'.results = job.results /\ job'.active = job.active
      /\ job'.rule = job.rule /\ job'.taken = n /\ job'.pc = "commit" /\ job'.expired = job.expired
  BY <1>1, <1>6, <1>7 DEF Job
<1>9. TypeOK'
  <2>1. free' \in [Rules -> Nat]
    BY <1>1, <1>4, <1>6, <1>7
  <2> QED
    BY <1>7, <1>8, <2>1 DEF CleanupInv, TypeOK
<1>10. Turn'
  <2>1. Current' = Current
    BY <1>8 DEF Current
  <2>2. Current.affected + n <= RowBudget
    BY <1>3, <1>5, <1>6, CleanupAssumptions
  <2> QED
    BY <1>7, <1>8, <2>1, <2>2 DEF CleanupInv, Turn
<1>11. Rounds'
  BY <1>7, <1>8, RoundsFramed DEF CleanupInv
<1>12. ReportIsHonest'
  BY <1>8, <1>9, HonestStep
<1> QED
  BY <1>9, <1>10, <1>11, <1>12 DEF CleanupInv

\* What a statement that fails does to the counter of faults.
LEMMA FaultsCounted ==
  ASSUME TypeOK, Fault
  PROVE  faults' \in 0 .. MaxFaults
BY CleanupAssumptions DEF TypeOK, Fault

\* A batch or a check that fails.
LEMMA FailuresKeep ==
  ASSUME CleanupInv, Next, BatchFails \/ CheckFails
  PROVE  CleanupInv'
<1>1. /\ job \in Job /\ job.results \in [Rules -> Result] /\ job.rule \in Rules
      /\ free \in [Rules -> Nat] /\ job.taken \in Nat
  BY DEF CleanupInv, TypeOK, Job
<1> DEFINE result == [Current EXCEPT !.error = TRUE]
<1>2. result \in Result /\ result.backlog = Current.backlog
  BY <1>1 DEF Current, Result
<1>3. job' = TurnOver(result, FALSE) /\ job.pc \in {"batch", "commit", "check"}
  BY DEF BatchFails, CheckFails
<1> HIDE DEF result
<1>4. /\ job' \in Job /\ Turn' /\ Rounds'
      /\ job'.results[job.rule] = result
      /\ \A s \in Rules \ {job.rule} : job'.results[s] = job.results[s]
      /\ job'.pc \in {"batch", "report"}
  BY <1>2, <1>3, TurnEnds DEF CleanupInv
<1>5. TypeOK'
  <2>1. free' \in [Rules -> Nat] /\ held' = held /\ late' = late
    <3>1. CASE CheckFails
      BY <1>1, <3>1 DEF CheckFails
    <3>2. CASE BatchFails
      <4>1. [free EXCEPT ![job.rule] = @ + job.taken] \in [Rules -> Nat]
        BY <1>1
      <4> QED
        BY <1>1, <3>2, <4>1 DEF BatchFails
    <3> QED
      BY <3>1, <3>2
  <2>2. faults' \in 0 .. MaxFaults
    BY FaultsCounted DEF CleanupInv, BatchFails, CheckFails
  <2> QED
    BY <1>4, <2>1, <2>2 DEF CleanupInv, TypeOK
<1>6. ReportIsHonest'
  <2>1. \A r \in Rules : job'.results[r].backlog = job.results[r].backlog
    BY <1>2, <1>4 DEF Current
  <2> QED
    BY <1>4, <1>5, <2>1, HonestStep
<1> QED
  BY <1>4, <1>5, <1>6 DEF CleanupInv

\* The result of a committed batch.
LEMMA BatchResult ==
  ASSUME CleanupInv, job.pc = "commit", NEW reached \in BOOLEAN, NEW new,
         new = [Current EXCEPT !.batches = Min({@ + 1, MaxBatches}),
                               !.affected = Current.affected + job.taken,
                               !.budgetReached = reached]
  PROVE  /\ new \in Result /\ new.batches = Another(Current.batches)
         /\ new.backlog = Current.backlog /\ new.budgetReached = reached
<1>1. Current \in Result /\ job.taken \in Nat
  BY DEF CleanupInv, TypeOK, Job, Current
<1>2. Current.batches \in 0 .. MaxBatches /\ Current.affected \in 0 .. RowBudget
  BY <1>1 DEF Result
<1>3. Current.affected + job.taken \in 0 .. RowBudget
  BY <1>1, <1>2, CleanupAssumptions DEF CleanupInv, Turn
<1>4. PICK m : m = Min({Current.batches + 1, MaxBatches})
  OBVIOUS
<1>5. m \in {Current.batches + 1, MaxBatches} /\ m <= Current.batches + 1 /\ m <= MaxBatches
  <2>1. Current.batches + 1 \in Int /\ MaxBatches \in Int
    BY <1>2, CleanupAssumptions
  <2> QED
    BY <1>4, <2>1, MinOfTwo, Zenon
<1>6. m = Another(Current.batches) /\ m \in 0 .. MaxBatches
  BY <1>2, <1>5, CleanupAssumptions DEF Another
<1>7. new = [Current EXCEPT !.batches = m, !.affected = Current.affected + job.taken,
                            !.budgetReached = reached]
  BY <1>4
<1> QED
  BY <1>1, <1>3, <1>6, <1>7 DEF Result

LEMMA CommitBatchKeeps ==
  ASSUME CleanupInv, Next, CommitBatch
  PROVE  CleanupInv'
<1>1. /\ job \in Job /\ job.results \in [Rules -> Result] /\ job.rule \in Rules
      /\ job.pc = "commit" /\ job.rule \in job.active /\ job.active \subseteq Rules
  BY DEF CleanupInv, TypeOK, Job, CommitBatch, Turn
<1> DEFINE full == job.taken = Limit
           total == Current.affected + job.taken
           reached == full /\ total >= RowBudget
           new == [Current EXCEPT !.batches = Min({@ + 1, MaxBatches}), !.affected = total,
                                  !.budgetReached = reached]
<1>2. /\ job' = IF full THEN TurnOver(new, ~new.budgetReached)
                        ELSE [job EXCEPT !.pc = "check", !.results[job.rule] = new]
      /\ free' = free /\ held' = held /\ faults' = faults /\ late' = late
  BY DEF CommitBatch
<1>3. reached \in BOOLEAN
  OBVIOUS
<1> HIDE DEF reached
<1>4. /\ new \in Result /\ new.batches = Another(Current.batches)
      /\ new.backlog = Current.backlog /\ new.budgetReached = reached
  BY <1>1, <1>3, BatchResult
<1> HIDE DEF new
<1>5. /\ job' \in Job /\ Turn' /\ Rounds'
      /\ job'.results[job.rule] = new
      /\ \A s \in Rules \ {job.rule} : job'.results[s] = job.results[s]
      /\ job'.pc # "done"
  <2>1. CASE full
    <3>1. PICK goesOn \in BOOLEAN : job' = TurnOver(new, goesOn)
      <4>1. (~new.budgetReached) \in BOOLEAN
        BY <1>3, <1>4
      <4>2. job' = TurnOver(new, ~new.budgetReached)
        BY <1>2, <2>1
      <4> QED
        BY <4>1, <4>2, Zenon
    <3> QED
      BY <1>1, <1>4, <3>1, TurnEnds DEF CleanupInv
  <2>2. CASE ~full
    <3>1. job' = [job EXCEPT !.pc = "check", !.results[job.rule] = new]
      BY <1>2, <2>2
    <3>2. /\ job'.pc = "check" /\ job'.rule = job.rule /\ job'.active = job.active
          /\ job'.taken = job.taken
          /\ job'.results = [job.results EXCEPT ![job.rule] = new]
      BY <1>1, <3>1 DEF Job
    <3>3. /\ job'.results \in [Rules -> Result] /\ job'.results[job.rule] = new
          /\ \A s \in Rules \ {job.rule} : job'.results[s] = job.results[s]
      BY <1>1, <1>4, <3>2
    <3>4. job' \in Job
      BY <1>1, <1>4, <3>1 DEF Job
    <3>5. Turn'
      BY <1>1, <3>2 DEF Turn
    <3>6. Rounds'
      <4>1. Batches'[job.rule] = Another(Batches[job.rule])
        BY <1>1, <1>4, <3>3 DEF Batches, Current
      <4>2. \A s \in job.active \ {job.rule} : Batches'[s] = Batches[s]
        BY <1>1, <3>3 DEF Batches
      <4>3. Even(Batches, job.active, 1 .. (job.rule - 1))
        BY <1>1 DEF CleanupInv, Rounds, Served
      <4>4. Even(Batches', job.active, 1 .. job.rule)
        BY <1>1, <4>1, <4>2, <4>3, BatchCounts
      <4> QED
        BY <3>2, <4>4 DEF Rounds, Served
    <3> QED
      BY <3>2, <3>3, <3>4, <3>5, <3>6
  <2> QED
    BY <2>1, <2>2
<1>6. TypeOK'
  BY <1>2, <1>5 DEF CleanupInv, TypeOK
<1>7. ReportIsHonest'
  <2>1. \A r \in Rules : job'.results[r].backlog = job.results[r].backlog
    BY <1>4, <1>5 DEF Current
  <2> QED
    BY <1>5, <1>6, <2>1, HonestStep
<1> QED
  BY <1>5, <1>6, <1>7 DEF CleanupInv

LEMMA CheckBacklogKeeps ==
  ASSUME CleanupInv, Next, CheckBacklog
  PROVE  CleanupInv'
<1>1. /\ job \in Job /\ job.results \in [Rules -> Result] /\ job.rule \in Rules
      /\ job.pc = "check"
  BY DEF CleanupInv, TypeOK, Job, CheckBacklog
<1>2. PICK b \in BOOLEAN, goesOn \in BOOLEAN :
        /\ b <=> Backlog(job.rule)
        /\ job' = TurnOver([Current EXCEPT !.backlog = b], goesOn)
  <2>1. Backlog(job.rule) \in BOOLEAN
    BY DEF Backlog
  <2>2. GoesOn(Backlog(job.rule), job.taken) \in BOOLEAN
    BY DEF GoesOn
  <2>3. job' = TurnOver([Current EXCEPT !.backlog = Backlog(job.rule)],
                        GoesOn(Backlog(job.rule), job.taken))
    BY DEF CheckBacklog
  <2> QED
    BY <2>1, <2>2, <2>3, Zenon
<1> DEFINE result == [Current EXCEPT !.backlog = b]
<1>3. result \in Result /\ result.backlog = b /\ result.batches = Current.batches
  BY <1>1 DEF Current, Result
<1>4. job' = TurnOver(result, goesOn)
  BY <1>2
<1> HIDE DEF result
<1>5. /\ job' \in Job /\ Turn' /\ Rounds'
      /\ job'.results[job.rule] = result
      /\ \A s \in Rules \ {job.rule} : job'.results[s] = job.results[s]
      /\ job'.pc # "done"
  BY <1>1, <1>3, <1>4, TurnEnds DEF CleanupInv
<1>6. TypeOK'
  BY <1>5 DEF CleanupInv, TypeOK, CheckBacklog
<1>7. ReportIsHonest'
  <2>1. b = FALSE => Left(job.rule) = 0
    BY <1>1, <1>2, NothingLeft DEF CleanupInv, Backlog
  <2>2. \A r \in Rules : job'.results[r].backlog = FALSE =>
          job.results[r].backlog = FALSE \/ Left(r) = 0
    BY <1>3, <1>5, <2>1
  <2> QED
    BY <1>5, <1>6, <2>2, HonestStep
<1> QED
  BY <1>5, <1>6, <1>7 DEF CleanupInv

\* The last loop reads the backlog of one rule, or fails to.
LEMMA ReadsKeep ==
  ASSUME CleanupInv, Next, ReadBacklog \/ ReadFails
  PROVE  CleanupInv'
<1>1. /\ job \in Job /\ job.results \in [Rules -> Result]
      /\ job.pc = "report"
  BY DEF CleanupInv, TypeOK, Job, ReadBacklog, ReadFails
<1>2. PICK r : r = Min(Unread)
  OBVIOUS
<1>3. r \in Rules
  <2>1. Unread \subseteq Rules /\ Unread # {}
    BY DEF Unread, ReadBacklog, ReadFails
  <2> QED
    BY <1>2, <2>1, MinOfRules
<1>4. PICK row \in Result :
        /\ row.batches = job.results[r].batches
        /\ row.backlog = FALSE => job.results[r].backlog = FALSE \/ Left(r) = 0
        /\ job' = [job EXCEPT !.results[r] = row]
  <2>1. CASE ReadBacklog
    <3>1. PICK b \in BOOLEAN : (b <=> Backlog(r)) /\ job' = [job EXCEPT !.results[r].backlog = b]
      <4>1. Backlog(r) \in BOOLEAN
        BY DEF Backlog
      <4>2. job' = [job EXCEPT !.results[r].backlog = Backlog(r)]
        BY <1>2, <2>1 DEF ReadBacklog
      <4> QED
        BY <4>1, <4>2, Zenon
    <3>2. b = FALSE => Left(r) = 0
      BY <1>3, <3>1, NothingLeft DEF CleanupInv, Backlog
    <3> DEFINE row == [job.results[r] EXCEPT !.backlog = b]
    <3>3. row \in Result /\ row.batches = job.results[r].batches /\ row.backlog = b
      BY <1>1, <1>3 DEF Result
    <3>4. job' = [job EXCEPT !.results[r] = row]
      BY <3>1
    <3> QED
      BY <3>2, <3>3, <3>4
  <2>2. CASE ReadFails
    <3> DEFINE row == [job.results[r] EXCEPT !.error = TRUE]
    <3>1. /\ row \in Result /\ row.batches = job.results[r].batches
          /\ row.backlog = job.results[r].backlog
      BY <1>1, <1>3 DEF Result
    <3>2. job' = [job EXCEPT !.results[r] = row]
      BY <1>2, <2>2 DEF ReadFails
    <3> QED
      BY <3>1, <3>2
  <2> QED
    BY <2>1, <2>2
<1>5. /\ job' \in Job /\ job'.pc = "report" /\ job'.rule = job.rule /\ job'.active = job.active
      /\ job'.taken = job.taken /\ job'.results[r] = row
      /\ \A s \in Rules \ {r} : job'.results[s] = job.results[s]
  BY <1>1, <1>3, <1>4 DEF Job
<1>6. TypeOK'
  <2>1. free' = free /\ held' = held /\ late' = late
    BY DEF ReadBacklog, ReadFails
  <2>2. faults' \in 0 .. MaxFaults
    BY FaultsCounted DEF CleanupInv, TypeOK, ReadBacklog, ReadFails
  <2> QED
    BY <1>5, <2>1, <2>2 DEF CleanupInv, TypeOK
<1>7. Turn'
  BY <1>5 DEF Turn
<1>8. Rounds'
  BY <1>1, <1>4, <1>5, RoundsFramed DEF CleanupInv
<1>9. ReportIsHonest'
  BY <1>4, <1>5, <1>6, HonestStep
<1> QED
  BY <1>6, <1>7, <1>8, <1>9 DEF CleanupInv

-----------------------------------------------------------------------------
(* The invariant, and what follows from it.                                 *)

LEMMA InitEstablishes == Init => CleanupInv
<1> SUFFICES ASSUME Init PROVE CleanupInv
  OBVIOUS
<1>1. NewResult \in Result
  BY CleanupAssumptions DEF NewResult, Result
<1>2. 1 \in Rules
  BY CleanupAssumptions DEF Rules
<1>3. /\ job \in Job /\ job.pc = "idle" /\ job.rule = 1 /\ job.active = Rules /\ job.taken = 0
      /\ \A r \in Rules : job.results[r] = NewResult
  BY <1>1, <1>2 DEF Init, Job
<1>4. TypeOK
  BY <1>3, CleanupAssumptions DEF Init, TypeOK
<1>5. Turn
  BY <1>2, <1>3 DEF Turn
<1>6. Rounds
  <2>1. \A r \in Rules : Batches[r] = 0 /\ r \notin Served
    BY <1>3 DEF Batches, Served, NewResult
  <2> QED
    BY <1>3, <2>1 DEF Rounds, Even
<1>7. ReportIsHonest
  <2>1. NewResult.backlog = None
    BY DEF NewResult
  <2>2. None # FALSE
    BY CleanupAssumptions, Zenon
  <2>3. \A r \in Rules : job.results[r].backlog # FALSE
    BY <1>3, <2>1, <2>2
  <2> QED
    BY <1>3, <2>3 DEF ReportIsHonest
<1> QED
  BY <1>4, <1>5, <1>6, <1>7 DEF CleanupInv

LEMMA NextPreserves == CleanupInv /\ [Next]_vars => CleanupInv'
<1> SUFFICES ASSUME CleanupInv, [Next]_vars PROVE CleanupInv'
  OBVIOUS
<1>1. CASE Next
  BY <1>1, ServerKeeps, MovesKeep, TakeBatchKeeps, CommitBatchKeeps, FailuresKeep,
     CheckBacklogKeeps, ReadsKeep, CleanupAssumptions DEF Next, JobStep, Rules
<1>2. CASE UNCHANGED vars
  BY <1>2 DEF vars, CleanupInv, TypeOK, Turn, Current, Rounds, Batches, Served, ReportIsHonest, Left, Unread
<1> QED
  BY <1>1, <1>2

\* The turns, the transaction under way and the report agree in every reachable
\* state of the job.
THEOREM CleanupInvariant == Spec => []CleanupInv
BY InitEstablishes, NextPreserves, PTL DEF Spec

\* Rules that have work get the same number of batches, but for the turn under
\* way, and none deletes more than its budget.
THEOREM FairBatches == Spec => []BatchesAreFair
<1>1. ASSUME CleanupInv PROVE BatchesAreFair
  <2>1. job \in Job /\ job.active \subseteq Rules /\ job.results \in [Rules -> Result]
    BY <1>1 DEF CleanupInv, TypeOK, Job
  <2>2. \A r \in Rules : /\ job.results[r].affected <= RowBudget
                         /\ job.results[r].batches \in 0 .. MaxBatches
    BY <2>1, CleanupAssumptions DEF Result
  <2>3. ASSUME NEW r \in job.active, NEW s \in job.active
        PROVE  job.results[r].batches - job.results[s].batches <= 1
    <3>1. Batches[r] = job.results[r].batches /\ Batches[s] = job.results[s].batches
      BY <2>1 DEF Batches
    <3>2. \/ Batches[r] = Batches[s] \/ Batches[r] = Another(Batches[s])
          \/ Batches[s] = Another(Batches[r])
      BY <1>1 DEF CleanupInv, Rounds, Even
    <3> QED
      BY <2>1, <2>2, <3>1, <3>2, CleanupAssumptions DEF Another
  <2> QED
    BY <2>2, <2>3 DEF BatchesAreFair
<1>2. CleanupInv => BatchesAreFair
  BY <1>1
<1> QED
  BY <1>2, CleanupInvariant, PTL

\* The report never calls a rule finished while an eligible row of it is left,
\* locked or not, but for rows that became eligible after the query that said so,
\* which only the rules of Lapsing have; and it is silent only on failure or past
\* the deadline.
THEOREM HonestReport == Spec => []ReportIsHonest
<1>1. CleanupInv => ReportIsHonest
  BY DEF CleanupInv
<1> QED
  BY <1>1, CleanupInvariant, PTL

=============================================================================
