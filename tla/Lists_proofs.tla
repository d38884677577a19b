---------------------------- MODULE Lists_proofs ----------------------------
(***************************************************************************)
(* The Inbox, subtasks, storage and idempotency keys, for any numbers of   *)
(* lists, cards and keys, any sizes and any plans.                         *)
(***************************************************************************)
EXTENDS Lists, FiniteSetTheorems, TLAPS

\* Lists and cards have the numbers that were given out.
Numbered == DOMAIN lists \subseteq 1 .. made.lists /\ DOMAIN cards \subseteq 1 .. made.cards

\* At most one list has the Inbox marker.
OneInbox == \A l, m \in DOMAIN lists : lists[l].inbox /\ lists[m].inbox => l = m

\* A subtask has none itself.
Nested == \A c \in DOMAIN cards : cards[c].parent # None => cards[cards[c].parent].parent = None

\* A key has the fingerprint of the request that stored it.
Stamped == \A k \in DOMAIN keys : keys[k].fingerprint = Fingerprint(keys[k].request, keys[k].request.list)

\* The inductive invariant.
IInv == TypeOK /\ Numbered /\ OneInbox /\ Nested /\ UsageIsExact /\ Stamped


-----------------------------------------------------------------------------
(* Sums over finite sets.                                                   *)

\* Among sets of members of a finite set, one contains no other.
LEMMA SmallestSet ==
  ASSUME NEW S, IsFiniteSet(S), NEW T, T \subseteq SUBSET S, T # {}
  PROVE  \E U \in T : \A V \in T : V \subseteq U => V = U
<1>1. IsWellFoundedOn(StrictSubsetOrdering(S), SUBSET S)
  BY FS_StrictSubsetOrderingWellFounded, FS_FiniteSubsetsOfFinite
<1>2. \E U \in T : \A V \in T : ~(<<V, U>> \in StrictSubsetOrdering(S))
  BY <1>1, WFMin
<1> QED
  BY <1>2 DEF StrictSubsetOrdering

\* The member a fold takes next, and the equation of the partial sums.
Taken(s) == CHOOSE x \in s : TRUE
Partial(w, g, s) == IF s = {} THEN 0 ELSE w[Taken(s)] + g[s \ {Taken(s)}]
Adds(w, S, g) == \A s \in SUBSET S : g[s] = Partial(w, g, s)

LEMMA TakenIsMember ==
  ASSUME NEW s, s # {}
  PROVE  Taken(s) \in s
BY DEF Taken

\* There is one way to add.
LEMMA AddsOnce ==
  ASSUME NEW S, IsFiniteSet(S), NEW w, NEW g, NEW h, NEW V, S \subseteq V,
         Adds(w, S, g), Adds(w, V, h)
  PROVE  \A s \in SUBSET S : g[s] = h[s]
<1> DEFINE Bad == {s \in SUBSET S : g[s] # h[s]}
<1> SUFFICES ASSUME Bad # {} PROVE FALSE
  OBVIOUS
<1>1. PICK U \in Bad : \A s \in Bad : s \subseteq U => s = U
  <2>1. Bad \subseteq SUBSET S
    OBVIOUS
  <2> HIDE DEF Bad
  <2> QED
    BY <2>1, SmallestSet
<1>2. U \in SUBSET S /\ U \in SUBSET V /\ g[U] # h[U]
  BY <1>1
<1>3. g[U] = Partial(w, g, U) /\ h[U] = Partial(w, h, U)
  BY <1>2 DEF Adds
<1>4. CASE U = {}
  BY <1>2, <1>3, <1>4 DEF Partial
<1>5. CASE U # {}
  <2>1. Taken(U) \in U
    BY <1>5, TakenIsMember
  <2>2. U \ {Taken(U)} \notin Bad
    BY <1>1, <2>1
  <2>3. g[U \ {Taken(U)}] = h[U \ {Taken(U)}]
    BY <1>2, <2>2
  <2> QED
    BY <1>2, <1>3, <1>5, <2>3 DEF Partial
<1> QED
  BY <1>4, <1>5

\* And there is a way: a smallest set that cannot be added up could be, from the
\* sums of the sets inside it.
LEMMA AddsExists ==
  ASSUME NEW S, IsFiniteSet(S), NEW D, S \subseteq D, NEW w \in [D -> Int]
  PROVE  \E g \in [SUBSET S -> Int] : Adds(w, S, g)
<1> DEFINE Good(T) == \E g \in [SUBSET T -> Int] : Adds(w, T, g)
           Bad == {T \in SUBSET S : ~Good(T)}
           G(T) == CHOOSE g \in [SUBSET T -> Int] : Adds(w, T, g)
<1> SUFFICES ASSUME Bad # {} PROVE FALSE
  OBVIOUS
<1>1. PICK U \in Bad : \A T \in Bad : T \subseteq U => T = U
  <2>1. Bad \subseteq SUBSET S
    OBVIOUS
  <2> HIDE DEF Bad
  <2> QED
    BY <2>1, SmallestSet
<1>2. U \subseteq S /\ ~Good(U)
  BY <1>1
<1>3. \A T \in SUBSET U : T # U => G(T) \in [SUBSET T -> Int] /\ Adds(w, T, G(T))
  <2> SUFFICES ASSUME NEW T \in SUBSET U, T # U
               PROVE  G(T) \in [SUBSET T -> Int] /\ Adds(w, T, G(T))
    OBVIOUS
  <2>1. Good(T)
    BY <1>1, <1>2
  <2> QED
    BY <2>1
<1> HIDE DEF G, Good, Bad
<1>4. PICK v : v = [T \in SUBSET U |-> G(T)[T]]
  OBVIOUS
<1>5. \A T \in SUBSET U : T # U => v[T] \in Int /\ v[T] = Partial(w, v, T)
  <2> SUFFICES ASSUME NEW T \in SUBSET U, T # U
               PROVE  v[T] \in Int /\ v[T] = Partial(w, v, T)
    OBVIOUS
  <2>1. v[T] = G(T)[T] /\ G(T) \in [SUBSET T -> Int] /\ Adds(w, T, G(T))
    BY <1>3, <1>4
  <2>2. v[T] = Partial(w, G(T), T) /\ v[T] \in Int
    BY <2>1 DEF Adds
  <2>3. CASE T = {}
    BY <2>2, <2>3 DEF Partial
  <2>4. CASE T # {}
    <3>1. PICK R : R = T \ {Taken(T)}
      OBVIOUS
    <3>2. R \subseteq T /\ R \in SUBSET U /\ R # U
      BY <2>4, <3>1, TakenIsMember
    <3>3. v[R] = G(R)[R] /\ Adds(w, R, G(R))
      BY <1>3, <1>4, <3>2
    <3>4. IsFiniteSet(R)
      BY <1>2, <3>2, FS_Subset
    <3>5. PICK g, h : g = G(R) /\ h = G(T)
      OBVIOUS
    <3>6. \A s \in SUBSET R : g[s] = h[s]
      BY <2>1, <3>2, <3>3, <3>4, <3>5, AddsOnce
    <3>7. v[R] = G(T)[R]
      BY <3>3, <3>5, <3>6
    <3> QED
      BY <2>2, <2>4, <3>1, <3>7 DEF Partial
  <2> QED
    BY <2>3, <2>4
<1>6. PICK h : h = [T \in SUBSET U |-> IF T = U THEN Partial(w, v, U) ELSE v[T]]
  OBVIOUS
<1>7. \A T \in SUBSET U : h[T] \in Int /\ h[T] = Partial(w, h, T)
  <2> SUFFICES ASSUME NEW T \in SUBSET U
               PROVE  h[T] \in Int /\ h[T] = Partial(w, h, T)
    OBVIOUS
  <2>1. h[T] = Partial(w, v, T)
    BY <1>5, <1>6
  <2>2. CASE T = {}
    BY <2>1, <2>2 DEF Partial
  <2>3. CASE T # {}
    <3>1. PICK R : R = T \ {Taken(T)}
      OBVIOUS
    <3>2. Taken(T) \in T /\ R \in SUBSET U /\ R # U
      BY <2>3, <3>1, TakenIsMember
    <3>3. h[R] = v[R] /\ v[R] \in Int
      BY <1>5, <1>6, <3>2
    <3>4. w[Taken(T)] \in Int
      BY <1>2, <3>2
    <3> QED
      BY <2>1, <2>3, <3>1, <3>3, <3>4 DEF Partial
  <2> QED
    BY <2>2, <2>3
<1>8. h \in [SUBSET U -> Int]
  BY <1>6, <1>7
<1>9. Adds(w, U, h)
  BY <1>7 DEF Adds
<1> QED
  BY <1>2, <1>8, <1>9 DEF Good

\* So the sum is an integer, and zero or a member and the sum of the others.
LEMMA SumIs ==
  ASSUME NEW S, IsFiniteSet(S), NEW D, S \subseteq D, NEW w \in [D -> Int]
  PROVE  \E g \in [SUBSET S -> Int] : Adds(w, S, g) /\ SumFunctionOnSet(w, S) = g[S]
<1> DEFINE P(g) == g = [s \in SUBSET S |-> Partial(w, g, s)]
<1>1. PICK g \in [SUBSET S -> Int] : Adds(w, S, g)
  BY AddsExists
<1>2. P(g)
  BY <1>1 DEF Adds
<1>3. PICK h : P(h) /\ SumFunctionOnSet(w, S) = h[S]
  <2>1. PICK h : h = CHOOSE f : P(f)
    OBVIOUS
  <2>2. P(h)
    BY <1>2, <2>1, Zenon
  <2>3. SumFunctionOnSet(w, S) = h[S]
    BY <2>1, Zenon DEF SumFunctionOnSet, FoldFunctionOnSet, MapThenFoldSet, Partial, Taken
  <2> QED
    BY <2>2, <2>3
<1>4. Adds(w, S, h)
  BY <1>3 DEF Adds
<1>5. g[S] = h[S]
  BY <1>1, <1>4, AddsOnce
<1> QED
  BY <1>1, <1>3, <1>5

LEMMA SumStep ==
  ASSUME NEW S, IsFiniteSet(S), NEW D, S \subseteq D, NEW w \in [D -> Int]
  PROVE  /\ SumFunctionOnSet(w, S) \in Int
         /\ S = {} => SumFunctionOnSet(w, S) = 0
         /\ S # {} => SumFunctionOnSet(w, S) =
                        w[Taken(S)] + SumFunctionOnSet(w, S \ {Taken(S)})
<1>1. PICK g \in [SUBSET S -> Int] : Adds(w, S, g) /\ SumFunctionOnSet(w, S) = g[S]
  BY SumIs
<1>2. g[S] = Partial(w, g, S) /\ g[S] \in Int
  BY <1>1 DEF Adds
<1>3. ASSUME S # {}
      PROVE  SumFunctionOnSet(w, S) = w[Taken(S)] + SumFunctionOnSet(w, S \ {Taken(S)})
  <2>1. PICK R : R = S \ {Taken(S)}
    OBVIOUS
  <2>2. IsFiniteSet(R) /\ R \subseteq D /\ R \subseteq S
    BY <2>1, FS_Subset
  <2>3. PICK h \in [SUBSET R -> Int] : Adds(w, R, h) /\ SumFunctionOnSet(w, R) = h[R]
    BY <2>2, SumIs
  <2>4. \A s \in SUBSET R : h[s] = g[s]
    BY <1>1, <2>2, <2>3, AddsOnce
  <2>5. SumFunctionOnSet(w, R) = g[R]
    BY <2>3, <2>4
  <2> QED
    BY <1>1, <1>2, <1>3, <2>1, <2>5 DEF Partial
<1> QED
  BY <1>1, <1>2, <1>3 DEF Partial

\* The order does not matter: any member may be taken first.
LEMMA SumTake ==
  ASSUME NEW S, IsFiniteSet(S), NEW D, S \subseteq D, NEW w \in [D -> Int], NEW x \in S
  PROVE  SumFunctionOnSet(w, S) = w[x] + SumFunctionOnSet(w, S \ {x})
<1> DEFINE Bad == {T \in SUBSET S : \E y \in T :
                     SumFunctionOnSet(w, T) # w[y] + SumFunctionOnSet(w, T \ {y})}
<1> SUFFICES ASSUME Bad # {} PROVE FALSE
  OBVIOUS
<1>1. PICK U \in Bad : \A T \in Bad : T \subseteq U => T = U
  <2>1. Bad \subseteq SUBSET S
    OBVIOUS
  <2> HIDE DEF Bad
  <2> QED
    BY <2>1, SmallestSet
<1>2. PICK y \in U : SumFunctionOnSet(w, U) # w[y] + SumFunctionOnSet(w, U \ {y})
  BY <1>1
<1>3. U \subseteq S /\ IsFiniteSet(U)
  BY <1>1, FS_Subset
<1>4. PICK p \in U : SumFunctionOnSet(w, U) = w[p] + SumFunctionOnSet(w, U \ {p})
  <2>1. Taken(U) \in U
    BY TakenIsMember
  <2> QED
    BY <1>3, <2>1, SumStep
<1>5. p # y
  BY <1>2, <1>4
<1>6. PICK Y, Z, R : Y = U \ {y} /\ Z = U \ {p} /\ R = U \ {y, p}
  OBVIOUS
<1>7. /\ Y \in SUBSET S /\ p \in Y /\ Y \subseteq U /\ Y # U /\ Y \ {p} = R
      /\ Z \in SUBSET S /\ y \in Z /\ Z \subseteq U /\ Z # U /\ Z \ {y} = R
      /\ IsFiniteSet(R) /\ R \subseteq D
  BY <1>3, <1>5, <1>6, FS_Subset
<1>8. Y \notin Bad /\ Z \notin Bad
  BY <1>1, <1>7
<1>9. /\ SumFunctionOnSet(w, Y) = w[p] + SumFunctionOnSet(w, R)
      /\ SumFunctionOnSet(w, Z) = w[y] + SumFunctionOnSet(w, R)
  BY <1>7, <1>8
<1>10. SumFunctionOnSet(w, R) \in Int /\ w[p] \in Int /\ w[y] \in Int
  BY <1>3, <1>7, SumStep
<1> QED
  BY <1>2, <1>4, <1>6, <1>9, <1>10

\* Taking some members away takes their sum away.
LEMMA SumMinus ==
  ASSUME NEW S, IsFiniteSet(S), NEW D, S \subseteq D, NEW w \in [D -> Int], NEW T, T \subseteq S
  PROVE  SumFunctionOnSet(w, S \ T) = SumFunctionOnSet(w, S) - SumFunctionOnSet(w, T)
<1> DEFINE Bad == {U \in SUBSET S :
                     SumFunctionOnSet(w, S \ U) # SumFunctionOnSet(w, S) - SumFunctionOnSet(w, U)}
<1> SUFFICES ASSUME Bad # {} PROVE FALSE
  OBVIOUS
<1>1. PICK U \in Bad : \A V \in Bad : V \subseteq U => V = U
  <2>1. Bad \subseteq SUBSET S
    OBVIOUS
  <2> HIDE DEF Bad
  <2> QED
    BY <2>1, SmallestSet
<1>2. U \subseteq S /\ IsFiniteSet(U)
      /\ SumFunctionOnSet(w, S \ U) # SumFunctionOnSet(w, S) - SumFunctionOnSet(w, U)
  BY <1>1, FS_Subset
<1>3. SumFunctionOnSet(w, S) \in Int /\ SumFunctionOnSet(w, U) \in Int
  BY <1>2, SumStep
<1>4. CASE U = {}
  <2>1. S \ U = S
    BY <1>4
  <2>2. SumFunctionOnSet(w, U) = 0
    BY <1>2, <1>4, SumStep
  <2>3. SumFunctionOnSet(w, S) - SumFunctionOnSet(w, U) = SumFunctionOnSet(w, S)
    BY <1>3, <2>2
  <2>4. SumFunctionOnSet(w, S \ U) = SumFunctionOnSet(w, S)
    BY <2>1
  <2> QED
    BY <1>2, <2>3, <2>4
<1>5. CASE U # {}
  <2>1. PICK x \in U : TRUE
    BY <1>5
  <2>2. PICK R, A, B : R = U \ {x} /\ A = S \ U /\ B = S \ R
    OBVIOUS
  <2>3. /\ R \in SUBSET S /\ R \subseteq U /\ R # U
        /\ x \in B /\ B \ {x} = A /\ B \subseteq S /\ A \subseteq S
        /\ IsFiniteSet(R) /\ IsFiniteSet(A) /\ IsFiniteSet(B)
    BY <1>2, <2>1, <2>2, FS_Subset
  <2>4. R \notin Bad
    BY <1>1, <2>3
  <2>5. SumFunctionOnSet(w, B) = SumFunctionOnSet(w, S) - SumFunctionOnSet(w, R)
    BY <2>2, <2>3, <2>4
  <2>6. SumFunctionOnSet(w, U) = w[x] + SumFunctionOnSet(w, R)
    BY <1>2, <2>1, <2>2, SumTake
  <2>7. SumFunctionOnSet(w, B) = w[x] + SumFunctionOnSet(w, A)
    <3>1. SumFunctionOnSet(w, B) = w[x] + SumFunctionOnSet(w, B \ {x})
      BY <2>3, SumTake
    <3> QED
      BY <2>3, <3>1
  <2>8. SumFunctionOnSet(w, A) \in Int /\ SumFunctionOnSet(w, R) \in Int /\ w[x] \in Int
    BY <1>2, <2>1, <2>3, SumStep
  <2> QED
    BY <1>2, <1>3, <2>2, <2>5, <2>6, <2>7, <2>8
<1> QED
  BY <1>4, <1>5

\* The sum depends on the members only.
LEMMA SumSame ==
  ASSUME NEW S, IsFiniteSet(S), NEW D, S \subseteq D, NEW w \in [D -> Int],
         NEW E, S \subseteq E, NEW v \in [E -> Int], \A x \in S : v[x] = w[x]
  PROVE  SumFunctionOnSet(v, S) = SumFunctionOnSet(w, S)
<1> DEFINE Bad == {T \in SUBSET S : SumFunctionOnSet(v, T) # SumFunctionOnSet(w, T)}
<1> SUFFICES ASSUME Bad # {} PROVE FALSE
  OBVIOUS
<1>1. PICK U \in Bad : \A T \in Bad : T \subseteq U => T = U
  <2>1. Bad \subseteq SUBSET S
    OBVIOUS
  <2> HIDE DEF Bad
  <2> QED
    BY <2>1, SmallestSet
<1>2. U \subseteq S /\ IsFiniteSet(U) /\ SumFunctionOnSet(v, U) # SumFunctionOnSet(w, U)
  BY <1>1, FS_Subset
<1>3. CASE U = {}
  BY <1>2, <1>3, SumStep
<1>4. CASE U # {}
  <2>1. PICK x \in U : TRUE
    BY <1>4
  <2>2. U \ {x} \notin Bad
    BY <1>1, <2>1
  <2>3. SumFunctionOnSet(v, U \ {x}) = SumFunctionOnSet(w, U \ {x})
    BY <1>2, <2>2
  <2>4. /\ SumFunctionOnSet(v, U) = v[x] + SumFunctionOnSet(v, U \ {x})
        /\ SumFunctionOnSet(w, U) = w[x] + SumFunctionOnSet(w, U \ {x})
    BY <1>2, <2>1, SumTake
  <2> QED
    BY <1>2, <2>1, <2>3, <2>4
<1> QED
  BY <1>3, <1>4

\* A change of one member changes the sum by the difference.
LEMMA SumChange ==
  ASSUME NEW S, IsFiniteSet(S), NEW w \in [S -> Int], NEW v \in [S -> Int], NEW c \in S,
         \A x \in S \ {c} : v[x] = w[x]
  PROVE  SumFunctionOnSet(v, S) = SumFunctionOnSet(w, S) + (v[c] - w[c])
<1>1. PICK R : R = S \ {c}
  OBVIOUS
<1>2. IsFiniteSet(R) /\ R \subseteq S
  BY <1>1, FS_Subset
<1>3. SumFunctionOnSet(v, R) = SumFunctionOnSet(w, R) /\ SumFunctionOnSet(w, R) \in Int
  BY <1>1, <1>2, SumSame, SumStep
<1>4. /\ SumFunctionOnSet(v, S) = v[c] + SumFunctionOnSet(v, R)
      /\ SumFunctionOnSet(w, S) = w[c] + SumFunctionOnSet(w, R)
  BY <1>1, SumTake
<1> QED
  BY <1>3, <1>4

\* Natural numbers have a natural sum.
LEMMA SumIsNat ==
  ASSUME NEW S, IsFiniteSet(S), NEW D, S \subseteq D, NEW w \in [D -> Nat]
  PROVE  SumFunctionOnSet(w, S) \in Nat
<1> DEFINE Bad == {T \in SUBSET S : SumFunctionOnSet(w, T) \notin Nat}
<1> SUFFICES ASSUME Bad # {} PROVE FALSE
  OBVIOUS
<1>1. PICK U \in Bad : \A T \in Bad : T \subseteq U => T = U
  <2>1. Bad \subseteq SUBSET S
    OBVIOUS
  <2> HIDE DEF Bad
  <2> QED
    BY <2>1, SmallestSet
<1>2. U \subseteq S /\ U \subseteq D /\ IsFiniteSet(U) /\ SumFunctionOnSet(w, U) \notin Nat
  BY <1>1, FS_Subset
<1>3. w \in [D -> Int]
  OBVIOUS
<1>4. CASE U = {}
  <2>1. SumFunctionOnSet(w, U) = 0
    BY <1>2, <1>3, <1>4, SumStep
  <2> QED
    BY <1>2, <2>1
<1>5. CASE U # {}
  <2>1. PICK x \in U : TRUE
    BY <1>5
  <2>2. U \ {x} \notin Bad
    BY <1>1, <2>1
  <2>3. SumFunctionOnSet(w, U \ {x}) \in Nat /\ w[x] \in Nat
    BY <1>2, <2>1, <2>2
  <2>4. SumFunctionOnSet(w, U) = w[x] + SumFunctionOnSet(w, U \ {x})
    BY <1>2, <1>3, <2>1, SumTake
  <2> QED
    BY <1>2, <2>3, <2>4
<1> QED
  BY <1>4, <1>5
-----------------------------------------------------------------------------
(* Extremes and ranks.                                                      *)

\* A finite set of integers has a largest and a smallest member: of the sets of
\* its members from one of them on, one is the smallest.
LEMMA ExtremesExist ==
  ASSUME NEW S, IsFiniteSet(S), \A x \in S : x \in Int, S # {}
  PROVE  /\ \E x \in S : \A y \in S : x >= y
         /\ \E x \in S : \A y \in S : x =< y
<1> DEFINE From(m) == {x \in S : x >= m}
           Upto(m) == {x \in S : x =< m}
           T == {From(m) : m \in S}
           V == {Upto(m) : m \in S}
<1>1. T \subseteq SUBSET S /\ T # {} /\ V \subseteq SUBSET S /\ V # {}
  OBVIOUS
<1>2. /\ \E U \in T : \A W \in T : W \subseteq U => W = U
      /\ \E U \in V : \A W \in V : W \subseteq U => W = U
  <2>1. PICK A, B : A = T /\ B = V
    OBVIOUS
  <2>2. A \subseteq SUBSET S /\ A # {} /\ B \subseteq SUBSET S /\ B # {}
    BY <1>1, <2>1
  <2>3. \E U \in A : \A W \in A : W \subseteq U => W = U
    BY <2>2, SmallestSet
  <2>4. \E U \in B : \A W \in B : W \subseteq U => W = U
    BY <2>2, SmallestSet
  <2> QED
    BY <2>1, <2>3, <2>4
<1>3. \E x \in S : \A y \in S : x >= y
  <2>1. PICK m \in S : \A W \in T : W \subseteq From(m) => W = From(m)
    BY <1>2
  <2>2. ASSUME NEW y \in S, y > m PROVE FALSE
    <3>1. From(y) \in T
      OBVIOUS
    <3>2. From(y) \subseteq From(m) /\ m \in From(m) /\ m \notin From(y)
      <4>1. m \in Int /\ y \in Int /\ \A x \in S : x \in Int
        OBVIOUS
      <4>2. ASSUME NEW x \in From(y) PROVE x \in From(m)
        BY <2>2, <4>1
      <4>3. m \in From(m) /\ m \notin From(y)
        BY <2>2, <4>1
      <4> HIDE DEF From
      <4> QED
        BY <4>2, <4>3
    <3> QED
      BY <2>1, <3>1, <3>2
  <2> QED
    BY <2>2
<1>4. \E x \in S : \A y \in S : x =< y
  <2>1. PICK m \in S : \A W \in V : W \subseteq Upto(m) => W = Upto(m)
    BY <1>2
  <2>2. ASSUME NEW y \in S, y < m PROVE FALSE
    <3>1. Upto(y) \in V
      OBVIOUS
    <3>2. Upto(y) \subseteq Upto(m) /\ m \in Upto(m) /\ m \notin Upto(y)
      <4>1. m \in Int /\ y \in Int /\ \A x \in S : x \in Int
        OBVIOUS
      <4>2. ASSUME NEW x \in Upto(y) PROVE x \in Upto(m)
        BY <2>2, <4>1
      <4>3. m \in Upto(m) /\ m \notin Upto(y)
        BY <2>2, <4>1
      <4> HIDE DEF Upto
      <4> QED
        BY <4>2, <4>3
    <3> QED
      BY <2>1, <3>1, <3>2
  <2> QED
    BY <2>2
<1> QED
  BY <1>3, <1>4

LEMMA MaxMin ==
  ASSUME NEW S, IsFiniteSet(S), S \subseteq Int, S # {}
  PROVE  Max(S) \in S /\ Min(S) \in S
BY ExtremesExist DEF Max, Min

\* The rows of an account are finitely many.
LEMMA FewRows ==
  ASSUME TypeOK
  PROVE  IsFiniteSet(DOMAIN lists) /\ IsFiniteSet(DOMAIN cards)
<1>1. IsFiniteSet(ListIds) /\ IsFiniteSet(CardIds)
  BY FS_Interval, ListBounds DEF ListIds, CardIds
<1> QED
  BY <1>1, FS_Subset DEF TypeOK

LEMMA RankIsNatural ==
  ASSUME NEW rows, NEW x, NEW S, IsFiniteSet(S)
  PROVE  Rank(rows, x, S) \in Nat
<1>1. {y \in S : Before(rows, y, x)} \subseteq S
  OBVIOUS
<1>2. IsFiniteSet({y \in S : Before(rows, y, x)})
  BY <1>1, FS_Subset
<1> QED
  BY <1>2, FS_CardinalityType DEF Rank

LEMMA SubsetSize ==
  ASSUME TypeOK, NEW S, S \subseteq DOMAIN cards
  PROVE  IsFiniteSet(S) /\ Cardinality(S) \in Nat
BY FewRows, FS_Subset, FS_CardinalityType

LEMMA NextPosIsInt ==
  ASSUME NEW rows, NEW S, IsFiniteSet(S), \A x \in S : rows[x].pos \in Int
  PROVE  NextPos(rows, S) \in Int
<1>1. CASE S = {}
  BY <1>1 DEF NextPos
<1>2. CASE S # {}
  <2> DEFINE P == {rows[x].pos : x \in S}
  <2>1. IsFiniteSet(P)
    <3>1. [x \in S |-> rows[x].pos] \in Surjection(S, P)
      BY DEF Surjection
    <3> QED
      BY <3>1, FS_Surjection
  <2>2. P \subseteq Int /\ P # {}
    BY <1>2
  <2>3. Max(P) \in Int
    <3> HIDE DEF P
    <3> QED
      BY <2>1, <2>2, MaxMin
  <2> QED
    BY <1>2, <2>3 DEF NextPos
<1> QED
  BY <1>1, <1>2

-----------------------------------------------------------------------------
(* What a step may change, by the rows it writes.                           *)

\* Growth of what is stored is within the plan.
Bounded ==
  /\ usage'.tasks > usage.tasks => usage'.tasks <= Limits[plan].tasks
  /\ usage'.bytes > usage.bytes => usage'.bytes <= Limits[plan].bytes

\* What every step does besides: an Inbox stays, subtasks stay with their parent,
\* and storage grows only up to the plan.
StepOK ==
  /\ HasInbox(lists) => HasInbox(lists')
  /\ \A c \in DOMAIN cards' :
       (c \in DOMAIN cards => Together(cards, c)) => Together(cards', c)
  /\ Bounded

\* A change of the counters is within the plan.
LEMMA QuotaKept ==
  ASSUME IInv, NEW tasks \in Int, NEW bytes \in Int, ApplyQuota(tasks, bytes)
  PROVE  /\ usage' \in [tasks : Nat, bytes : Nat]
         /\ usage' = [tasks |-> usage.tasks + tasks, bytes |-> usage.bytes + bytes]
         /\ Bounded
<1>1. /\ usage' = [tasks |-> usage.tasks + tasks, bytes |-> usage.bytes + bytes]
      /\ usage.tasks + tasks >= 0 /\ usage.bytes + bytes >= 0
      /\ tasks > 0 => usage.tasks + tasks <= Limits[plan].tasks
      /\ bytes > 0 => usage.bytes + bytes <= Limits[plan].bytes
  BY DEF ApplyQuota, QuotaAllows
<1>2. usage \in [tasks : Nat, bytes : Nat]
  BY DEF IInv, TypeOK
<1> QED
  BY <1>1, <1>2 DEF Bounded

LEMMA NoCharge ==
  ASSUME IInv, usage' = usage
  PROVE  Bounded
<1>1. usage.tasks \in Nat /\ usage.bytes \in Nat
  BY DEF IInv, TypeOK
<1> QED
  BY <1>1 DEF Bounded

\* The weights of cards are integers, before a step and after it.
LEMMA WeightTypes ==
  ASSUME \A c \in DOMAIN cards : cards[c] \in CardRow
  PROVE  Weight \in [DOMAIN cards -> Int]
BY DEF Weight, CardRow

LEMMA WeightTypesNext ==
  ASSUME \A c \in DOMAIN cards' : cards'[c] \in CardRow
  PROVE  Weight' \in [DOMAIN cards' -> Int]
BY DEF Weight, CardRow

\* A step that changes neither weights nor counters.
LEMMA SameWeights ==
  ASSUME IInv, UNCHANGED <<usage, plan>>, DOMAIN cards' = DOMAIN cards,
         \A c \in DOMAIN cards : /\ cards'[c].bytes = cards[c].bytes
                                 /\ cards'[c].said = cards[c].said
  PROVE  UsageIsExact' /\ Bounded
<1>1. Weight' = Weight
  BY DEF Weight
<1> QED
  BY <1>1, NoCharge DEF IInv, UsageIsExact, WeightOf

\* A step that charges what it adds to one card.
LEMMA OneWeight ==
  ASSUME IInv, NEW c \in DOMAIN cards, NEW n \in Int, ApplyQuota(0, n),
         DOMAIN cards' = DOMAIN cards, \A d \in DOMAIN cards : cards'[d] \in CardRow,
         \A d \in DOMAIN cards \ {c} : /\ cards'[d].bytes = cards[d].bytes
                                       /\ cards'[d].said = cards[d].said,
         cards'[c].bytes + cards'[c].said = cards[c].bytes + cards[c].said + n
  PROVE  UsageIsExact' /\ Bounded /\ usage' \in [tasks : Nat, bytes : Nat]
<1>1. /\ \A d \in DOMAIN cards : cards[d] \in CardRow
      /\ IsFiniteSet(DOMAIN cards) /\ usage \in [tasks : Nat, bytes : Nat]
  BY FewRows DEF IInv, TypeOK
<1>2. PICK D : D = DOMAIN cards
  OBVIOUS
<1>3. PICK w, v : w = Weight /\ v = Weight'
  OBVIOUS
<1>4. w \in [D -> Int] /\ v \in [D -> Int]
  BY <1>1, <1>2, <1>3, WeightTypes, WeightTypesNext
<1>5. (\A d \in D \ {c} : v[d] = w[d]) /\ v[c] = w[c] + n
  BY <1>2, <1>3 DEF Weight
<1>6. SumFunctionOnSet(v, D) = SumFunctionOnSet(w, D) + (v[c] - w[c])
  BY <1>1, <1>2, <1>4, <1>5, SumChange
<1>7. v[c] - w[c] = n
  BY <1>2, <1>4, <1>5
<1>8. /\ usage.tasks = Cardinality(D) /\ usage.bytes = SumFunctionOnSet(w, D)
  BY <1>2, <1>3 DEF IInv, UsageIsExact, WeightOf
<1>9. usage' = [tasks |-> Cardinality(D), bytes |-> SumFunctionOnSet(v, D)]
  <2>1. usage' = [tasks |-> usage.tasks + 0, bytes |-> usage.bytes + n]
    BY QuotaKept
  <2>2. usage.tasks + 0 = usage.tasks
    BY <1>1
  <2> QED
    BY <1>6, <1>7, <1>8, <2>1, <2>2
<1>10. UsageIsExact'
  BY <1>2, <1>3, <1>9 DEF UsageIsExact, WeightOf
<1> QED
  BY <1>10, QuotaKept

\* A step that writes lists only, and adds some.
LEMMA ListsChange ==
  ASSUME IInv, UNCHANGED <<cards, usage, keys, plan>>,
         DOMAIN lists \subseteq DOMAIN lists', DOMAIN lists' \subseteq 1 .. made'.lists,
         \A l \in DOMAIN lists' : lists'[l] \in ListRow,
         OneInbox', HasInbox(lists) => HasInbox(lists'),
         made' \in [lists : 0..MaxLists, cards : 0..MaxCards], made'.cards = made.cards
  PROVE  IInv' /\ StepOK
<1>1. DOMAIN lists' \subseteq ListIds
  BY ListBounds DEF ListIds
<1>2. TypeOK'
  BY <1>1 DEF IInv, TypeOK
<1>3. Numbered' /\ Nested' /\ Stamped'
  BY DEF IInv, Numbered, Nested, Stamped, Fingerprint
<1>4. UsageIsExact' /\ StepOK
  BY SameWeights DEF StepOK
<1> QED
  BY <1>2, <1>3, <1>4 DEF IInv

\* A step that writes the rows of cards that stay, but for their parents.
LEMMA RowsChange ==
  ASSUME IInv, UNCHANGED <<lists, keys, plan, made>>,
         DOMAIN cards' = DOMAIN cards,
         \A c \in DOMAIN cards : /\ cards'[c] \in CardRow
                                 /\ cards'[c].parent = cards[c].parent
                                 /\ cards'[c].list \in DOMAIN lists,
         \A c \in DOMAIN cards : Together(cards, c) => Together(cards', c),
         usage' \in [tasks : Nat, bytes : Nat], UsageIsExact', Bounded
  PROVE  IInv' /\ StepOK
<1>1. TypeOK'
  BY DEF IInv, TypeOK
<1>2. Nested'
  <2> SUFFICES ASSUME NEW c \in DOMAIN cards, cards[c].parent # None
               PROVE  cards'[cards[c].parent].parent = None
    BY DEF Nested
  <2>1. cards[c].parent \in DOMAIN cards /\ cards[cards[c].parent].parent = None
    BY DEF IInv, Nested, TypeOK
  <2> QED
    BY <2>1
<1>3. Numbered' /\ OneInbox' /\ Stamped'
  BY DEF IInv, Numbered, OneInbox, Stamped, Fingerprint
<1>4. StepOK
  BY DEF StepOK
<1> QED
  BY <1>1, <1>2, <1>3, <1>4 DEF IInv

-----------------------------------------------------------------------------
(* Lists and the Inbox.                                                     *)

\* The lists once there is an Inbox.
LEMMA EnsuredIs ==
  ASSUME IInv, ListsMade <= MaxLists
  PROVE  /\ DOMAIN lists \subseteq DOMAIN Ensured /\ DOMAIN Ensured \subseteq 1 .. ListsMade
         /\ \A l \in DOMAIN Ensured : Ensured[l] \in ListRow
         /\ \A l, m \in DOMAIN Ensured : Ensured[l].inbox /\ Ensured[m].inbox => l = m
         /\ HasInbox(lists) => Ensured = lists
         /\ ListsMade \in 0 .. MaxLists
<1>1. /\ made.lists \in 0 .. MaxLists /\ DOMAIN lists \subseteq 1 .. made.lists
      /\ \A l \in DOMAIN lists : lists[l] \in ListRow
  BY DEF IInv, TypeOK, Numbered
<1>2. /\ ListsMade \in 0 .. MaxLists /\ made.lists <= ListsMade
      /\ DOMAIN lists = {} => ListsMade = made.lists + 1
  BY <1>1, ListBounds DEF ListsMade
<1>3. CASE HasInbox(lists)
  <2>1. Ensured = lists
    BY <1>3 DEF Ensured
  <2>2. DOMAIN lists \subseteq 1 .. ListsMade
    BY <1>1, <1>2
  <2> QED
    BY <1>1, <1>2, <2>1, <2>2 DEF IInv, OneInbox
<1>4. CASE ~HasInbox(lists) /\ DOMAIN lists # {}
  <2>1. PICK f : f = First(lists)
    OBVIOUS
  <2>2. Ensured = [lists EXCEPT ![f].inbox = TRUE]
    BY <1>4, <2>1 DEF Ensured
  <2>3. DOMAIN Ensured = DOMAIN lists
    BY <2>2
  <2>4. \A l \in DOMAIN lists : /\ l = f => Ensured[l] = [lists[l] EXCEPT !.inbox = TRUE]
                                /\ l # f => Ensured[l] = lists[l]
    BY <2>2
  <2>5. \A l \in DOMAIN lists : Ensured[l] \in ListRow
    BY <1>1, <2>4 DEF ListRow
  <2>6. \A l \in DOMAIN lists : l # f => ~Ensured[l].inbox
    BY <1>4, <2>4 DEF HasInbox
  <2>7. DOMAIN lists \subseteq 1 .. ListsMade
    BY <1>1, <1>2
  <2> QED
    BY <1>2, <1>4, <2>3, <2>5, <2>6, <2>7
<1>5. CASE ~HasInbox(lists) /\ DOMAIN lists = {}
  <2>1. Ensured = [l \in {made.lists + 1} |-> [inbox |-> TRUE, pos |-> 0]]
    BY <1>5 DEF Ensured
  <2>2. made.lists + 1 \in 1 .. ListsMade
    BY <1>1, <1>2, <1>5
  <2>3. \A l \in DOMAIN Ensured : Ensured[l] \in ListRow
    BY <2>1 DEF ListRow
  <2>4. DOMAIN Ensured = {made.lists + 1}
    BY <2>1
  <2> QED
    BY <1>2, <1>5, <2>2, <2>3, <2>4
<1> QED
  BY <1>3, <1>4, <1>5

LEMMA EnsureInboxKeeps ==
  ASSUME IInv, EnsureInbox
  PROVE  IInv' /\ StepOK
<1>1. /\ DOMAIN lists \subseteq DOMAIN lists' /\ DOMAIN lists' \subseteq 1 .. ListsMade
      /\ \A l \in DOMAIN lists' : lists'[l] \in ListRow
      /\ \A l, m \in DOMAIN lists' : lists'[l].inbox /\ lists'[m].inbox => l = m
      /\ HasInbox(lists) => lists' = lists
      /\ ListsMade \in 0 .. MaxLists
  BY EnsuredIs DEF EnsureInbox
<1>2. /\ made' \in [lists : 0..MaxLists, cards : 0..MaxCards]
      /\ made'.lists = ListsMade /\ made'.cards = made.cards
  BY <1>1 DEF IInv, TypeOK, EnsureInbox
<1>3. OneInbox'
  BY <1>1 DEF OneInbox
<1> QED
  BY <1>1, <1>2, <1>3, ListsChange DEF EnsureInbox

\* Lists that gave up the marker.
LEMMA ReleasedRows ==
  ASSUME \A l \in DOMAIN lists : lists[l] \in ListRow, NEW except
  PROVE  /\ DOMAIN Released(lists, except) = DOMAIN lists
         /\ \A l \in DOMAIN lists :
              /\ Released(lists, except)[l] \in ListRow
              /\ l # except => ~Released(lists, except)[l].inbox
BY DEF Released, ListRow

LEMMA CreateBucketKeeps ==
  ASSUME IInv, NEW inbox \in BOOLEAN, CreateBucket(inbox)
  PROVE  IInv' /\ StepOK
<1>1. /\ made \in [lists : 0..MaxLists, cards : 0..MaxCards]
      /\ DOMAIN lists \subseteq 1 .. made.lists
      /\ \A l \in DOMAIN lists : lists[l] \in ListRow
  BY DEF IInv, TypeOK, Numbered
<1>2. PICK l : l = made.lists + 1
  OBVIOUS
<1>3. l \in 1 .. MaxLists /\ l \notin DOMAIN lists /\ DOMAIN lists \cup {l} \subseteq 1 .. l
  BY <1>1, <1>2, ListBounds DEF CreateBucket
<1>4. PICK rest : rest = IF inbox THEN Released(lists, None) ELSE lists
  OBVIOUS
<1>5. PICK pos \in Int : lists' = WithList(rest, l, [inbox |-> inbox, pos |-> pos])
  <2>1. IsFiniteSet(DOMAIN lists) /\ \A m \in DOMAIN lists : lists[m].pos \in Int
    BY <1>1, FewRows DEF IInv, ListRow
  <2>2. NextPos(lists, DOMAIN lists) \in Int
    BY <2>1, NextPosIsInt
  <2> QED
    BY <1>2, <1>4, <2>2 DEF CreateBucket
<1>6. /\ DOMAIN rest = DOMAIN lists
      /\ \A m \in DOMAIN lists : rest[m] \in ListRow
      /\ inbox => \A m \in DOMAIN lists : ~rest[m].inbox
      /\ ~inbox => rest = lists
  <2>1. \A m \in DOMAIN lists : m # None
    BY <1>1 DEF None
  <2> QED
    BY <1>1, <1>4, <2>1, ReleasedRows
<1>7. /\ DOMAIN lists' = DOMAIN lists \cup {l}
      /\ lists'[l] = [inbox |-> inbox, pos |-> pos]
      /\ \A m \in DOMAIN lists : lists'[m] = rest[m]
  <2>1. PICK row : row = [inbox |-> inbox, pos |-> pos]
    OBVIOUS
  <2>2. lists' = [m \in DOMAIN lists \cup {l} |-> IF m = l THEN row ELSE rest[m]]
    BY <1>5, <1>6, <2>1 DEF WithList
  <2>3. lists'[l] = row
    BY <2>2
  <2> QED
    BY <1>3, <2>1, <2>2, <2>3
<1>8. \A m \in DOMAIN lists' : lists'[m] \in ListRow
  BY <1>6, <1>7 DEF ListRow
<1>9. lists'[l].inbox = inbox
  BY <1>7
<1>10. OneInbox'
  BY <1>6, <1>7, <1>9 DEF IInv, OneInbox
<1>11. HasInbox(lists) => HasInbox(lists')
  BY <1>6, <1>7, <1>9 DEF HasInbox
<1>12. /\ made' \in [lists : 0..MaxLists, cards : 0..MaxCards]
       /\ made'.lists = l /\ made'.cards = made.cards
  BY <1>1, <1>2, <1>3 DEF CreateBucket
<1> QED
  BY <1>3, <1>7, <1>8, <1>10, <1>11, <1>12, ListsChange DEF CreateBucket

LEMMA UpdateBucketKeeps ==
  ASSUME IInv, NEW l \in DOMAIN lists, NEW inbox \in BOOLEAN \cup {Keep},
         NEW pos \in Places \cup {Keep}, UpdateBucket(l, inbox, pos)
  PROVE  IInv' /\ StepOK
<1>1. /\ made \in [lists : 0..MaxLists, cards : 0..MaxCards]
      /\ DOMAIN lists \subseteq 1 .. made.lists
      /\ \A m \in DOMAIN lists : lists[m] \in ListRow
  BY DEF IInv, TypeOK, Numbered
<1> DEFINE mark == IF inbox = Keep THEN lists[l].inbox ELSE inbox
           place == IF pos = Keep THEN lists[l].pos ELSE pos
           row == [inbox |-> mark, pos |-> place]
           rest == IF row.inbox /\ ~lists[l].inbox THEN Released(lists, l) ELSE lists
<1>2. /\ lists[l].inbox /\ ~row.inbox => InboxSurvives(lists, l)
      /\ lists' = WithList(rest, l, row)
      /\ UNCHANGED <<cards, usage, keys, plan, made>>
  BY DEF UpdateBucket
<1>3. row \in ListRow
  <2>1. mark \in BOOLEAN
    BY <1>1 DEF ListRow
  <2>2. place \in Int
    BY <1>1, ListBounds DEF ListRow, Places
  <2> HIDE DEF mark, place
  <2> QED
    BY <2>1, <2>2 DEF ListRow
<1> HIDE DEF row
<1>4. /\ DOMAIN rest = DOMAIN lists
      /\ \A m \in DOMAIN lists : rest[m] \in ListRow
      /\ row.inbox /\ ~lists[l].inbox => \A m \in DOMAIN lists \ {l} : ~rest[m].inbox
      /\ ~(row.inbox /\ ~lists[l].inbox) => rest = lists
  BY <1>1, ReleasedRows
<1> HIDE DEF rest
<1>5. /\ DOMAIN lists' = DOMAIN lists
      /\ lists'[l] = row /\ \A m \in DOMAIN lists \ {l} : lists'[m] = rest[m]
  <2>1. lists' = [m \in DOMAIN lists \cup {l} |-> IF m = l THEN row ELSE rest[m]]
    BY <1>2, <1>4 DEF WithList
  <2>2. DOMAIN lists \cup {l} = DOMAIN lists
    OBVIOUS
  <2> QED
    BY <2>1, <2>2
<1>6. \A m \in DOMAIN lists' : lists'[m] \in ListRow
  BY <1>3, <1>4, <1>5
<1>7. \A m, n \in DOMAIN lists : lists[m].inbox /\ lists[n].inbox => m = n
  BY DEF IInv, OneInbox
<1>8. ~(lists[l].inbox /\ ~row.inbox)
  BY <1>2, <1>7 DEF InboxSurvives
<1>9. OneInbox'
  <2>1. CASE row.inbox /\ ~lists[l].inbox
    BY <1>4, <1>5, <2>1 DEF OneInbox
  <2>2. CASE ~(row.inbox /\ ~lists[l].inbox)
    <3>1. \A m \in DOMAIN lists : lists'[m].inbox => lists[m].inbox
      BY <1>4, <1>5, <2>2
    <3> QED
      BY <1>5, <1>7, <3>1 DEF OneInbox
  <2> QED
    BY <2>1, <2>2
<1>10. HasInbox(lists) => HasInbox(lists')
  BY <1>4, <1>5, <1>8 DEF HasInbox
<1>11. DOMAIN lists' \subseteq 1 .. made'.lists /\ made' = made
  BY <1>1, <1>2, <1>5
<1> QED
  BY <1>1, <1>2, <1>5, <1>6, <1>9, <1>10, <1>11, ListsChange

LEMMA ReorderBucketsKeeps ==
  ASSUME IInv, NEW ids \in Orders(DOMAIN lists), ReorderBuckets(ids)
  PROVE  IInv' /\ StepOK
<1>1. /\ made \in [lists : 0..MaxLists, cards : 0..MaxCards]
      /\ DOMAIN lists \subseteq 1 .. made.lists
      /\ \A m \in DOMAIN lists : lists[m] \in ListRow
      /\ IsFiniteSet(DOMAIN lists)
  BY FewRows DEF IInv, TypeOK, Numbered
<1> DEFINE named == Range(ids)
           index(l) == CHOOSE i \in DOMAIN ids : ids[i] = l
           rest == DOMAIN lists \ named
           pos(l) == IF l \in named THEN index(l) - 1
                     ELSE Cardinality(named) + Rank(lists, l, rest)
<1>2. lists' = [l \in DOMAIN lists |-> [lists[l] EXCEPT !.pos = pos(l)]]
  BY DEF ReorderBuckets
<1>3. \A l \in DOMAIN lists : pos(l) \in Int
  <2> SUFFICES ASSUME NEW l \in DOMAIN lists PROVE pos(l) \in Int
    OBVIOUS
  <2>1. PICK n \in Nat : ids \in [1 .. n -> DOMAIN lists]
    <3>1. PICK n \in 1 .. Cardinality(DOMAIN lists) : ids \in Injection(1 .. n, DOMAIN lists)
      BY DEF Orders
    <3> QED
      BY <3>1 DEF Injection
  <2>2. CASE l \in named
    <3>1. \E i \in DOMAIN ids : ids[i] = l
      BY <2>2 DEF Range
    <3>2. index(l) \in DOMAIN ids
      BY <3>1
    <3> QED
      BY <2>1, <2>2, <3>2
  <2>3. CASE l \notin named
    <3>1. IsFiniteSet(rest) /\ IsFiniteSet(named)
      BY <1>1, FS_Subset DEF ReorderBuckets
    <3>2. Rank(lists, l, rest) \in Nat
      <4> HIDE DEF rest
      <4> QED
        BY <3>1, RankIsNatural
    <3>3. Cardinality(named) \in Nat
      BY <3>1, FS_CardinalityType
    <3> QED
      BY <2>3, <3>2, <3>3
  <2> QED
    BY <2>2, <2>3
<1> HIDE DEF pos
<1>4. /\ DOMAIN lists' = DOMAIN lists
      /\ \A l \in DOMAIN lists : lists'[l] \in ListRow /\ lists'[l].inbox = lists[l].inbox
  BY <1>1, <1>2, <1>3 DEF ListRow
<1>5. OneInbox' /\ (HasInbox(lists) => HasInbox(lists'))
  BY <1>4 DEF IInv, OneInbox, HasInbox
<1>6. DOMAIN lists' \subseteq 1 .. made'.lists /\ made' = made
  BY <1>1, <1>4 DEF ReorderBuckets
<1> QED
  BY <1>1, <1>4, <1>5, <1>6, ListsChange DEF ReorderBuckets


-----------------------------------------------------------------------------
(* Moving and ordering cards.                                               *)

\* A card is not its own parent, and neither is a subtask a parent.
LEMMA ParentIsNoChild ==
  ASSUME IInv, NEW c \in DOMAIN cards, NEW d \in DOMAIN cards, cards[d].parent # None
  PROVE  /\ cards[d].parent \in DOMAIN cards /\ cards[d].parent \notin Children(c)
         /\ cards[d].parent = c => c \notin Children(c) /\ cards[c].parent = None
<1>1. c # None
  BY ListBounds DEF IInv, TypeOK, CardIds, None
<1>2. /\ cards[d].parent \in DOMAIN cards
      /\ cards[cards[d].parent].parent = None
  BY DEF IInv, TypeOK, Nested
<1> QED
  BY <1>1, <1>2 DEF Children

\* What placing a card at a position does to the rows of the account.
LEMMA PlacedRows ==
  ASSUME IInv, NEW c \in DOMAIN cards, NEW l \in DOMAIN lists, NEW p \in Int
  PROVE  /\ DOMAIN Placed(c, l, p) = DOMAIN cards
         /\ \A d \in DOMAIN cards :
              /\ Placed(c, l, p)[d] \in CardRow
              /\ Placed(c, l, p)[d].parent = cards[d].parent
              /\ Placed(c, l, p)[d].bytes = cards[d].bytes
              /\ Placed(c, l, p)[d].said = cards[d].said
              /\ Placed(c, l, p)[d].list =
                   IF d \in Group(c) /\ cards[c].list # l THEN l ELSE cards[d].list
<1> DEFINE from == cards[c].list
           rest == InList(l) \ Group(c)
           left == InList(from) \ Group(c)
           size == Cardinality(Group(c))
           shifted(d) == LET r == Rank(cards, d, rest) IN IF r < p THEN r ELSE r + size
           pos(d) == CASE d = c           -> p
                       [] d \in Children(c) -> p + 1 + Rank(cards, d, Children(c))
                       [] d \in rest        -> shifted(d)
                       [] d \in left \ rest -> Rank(cards, d, left)
                       [] OTHER           -> cards[d].pos
           list(d) == IF d \in Group(c) /\ from # l THEN l ELSE cards[d].list
<1>1. Placed(c, l, p) = [d \in DOMAIN cards |-> [cards[d] EXCEPT !.pos = pos(d), !.list = list(d)]]
  BY DEF Placed
<1>2. /\ \A d \in DOMAIN cards : cards[d] \in CardRow
      /\ l \in ListIds
  BY DEF IInv, TypeOK
<1>3. \A d \in DOMAIN cards : pos(d) \in Int
  <2> SUFFICES ASSUME NEW d \in DOMAIN cards PROVE pos(d) \in Int
    OBVIOUS
  <2>1. /\ IsFiniteSet(rest) /\ IsFiniteSet(left) /\ IsFiniteSet(Children(c))
        /\ size \in Nat
    <3>1. /\ rest \subseteq DOMAIN cards /\ left \subseteq DOMAIN cards
          /\ Children(c) \subseteq DOMAIN cards /\ Group(c) \subseteq DOMAIN cards
      BY DEF InList, Children, Group
    <3> HIDE DEF rest, left
    <3> QED
      BY <3>1, SubsetSize DEF IInv
  <2>2. /\ Rank(cards, d, rest) \in Nat /\ Rank(cards, d, left) \in Nat
        /\ Rank(cards, d, Children(c)) \in Nat
    <3> HIDE DEF rest, left
    <3> QED
      BY <2>1, RankIsNatural
  <2>3. cards[d].pos \in Int
    BY <1>2 DEF CardRow
  <2>4. shifted(d) \in Int
    <3> HIDE DEF rest, size
    <3> QED
      BY <2>1, <2>2
  <2>5. p + 1 + Rank(cards, d, Children(c)) \in Int
    BY <2>2
  <2> HIDE DEF rest, left, shifted
  <2> QED
    BY <2>2, <2>3, <2>4, <2>5
<1> HIDE DEF pos
<1>4. \A d \in DOMAIN cards : list(d) \in ListIds
  BY <1>2 DEF CardRow
<1>5. \A d \in DOMAIN cards : Placed(c, l, p)[d] = [cards[d] EXCEPT !.pos = pos(d), !.list = list(d)]
  BY <1>1
<1>6. DOMAIN Placed(c, l, p) = DOMAIN cards
  BY <1>1
<1> HIDE DEF list
<1>7. \A d \in DOMAIN cards : /\ Placed(c, l, p)[d] \in CardRow
                              /\ Placed(c, l, p)[d].parent = cards[d].parent
                              /\ Placed(c, l, p)[d].bytes = cards[d].bytes
                              /\ Placed(c, l, p)[d].said = cards[d].said
              /\ Placed(c, l, p)[d].said = cards[d].said
                              /\ Placed(c, l, p)[d].list = list(d)
  BY <1>2, <1>3, <1>4, <1>5 DEF CardRow
<1> QED
  BY <1>6, <1>7 DEF list

\* Placing a card separates no subtask from its parent: they go with it, and a
\* subtask that is with its parent is not asked to leave.
LEMMA PlacedTogether ==
  ASSUME IInv, NEW c \in DOMAIN cards, NEW l \in DOMAIN lists, NEW p \in Int,
         cards[c].parent # None /\ cards[c].list # l => cards[cards[c].parent].list = l
  PROVE  \A d \in DOMAIN cards : Together(cards, d) => Together(Placed(c, l, p), d)
<1> SUFFICES ASSUME NEW d \in DOMAIN cards, Together(cards, d), cards[d].parent # None
             PROVE  Placed(c, l, p)[cards[d].parent].list = Placed(c, l, p)[d].list
  BY PlacedRows DEF Together
<1>1. PICK q : q = cards[d].parent
  OBVIOUS
<1>2. q \in DOMAIN cards /\ q \notin Children(c) /\ cards[q].list = cards[d].list
  BY <1>1, ParentIsNoChild DEF Together
<1>3. CASE cards[c].list = l
  BY <1>1, <1>2, <1>3, PlacedRows
<1>4. CASE cards[c].list # l
  <2>1. d # c
    BY <1>4 DEF Together
  <2>2. d \in Group(c) <=> q = c
    BY <1>1, <2>1 DEF Group, Children
  <2>3. q \in Group(c) <=> q = c
    BY <1>2 DEF Group
  <2> QED
    BY <1>1, <1>2, <1>4, <2>2, <2>3, PlacedRows
<1> QED
  BY <1>3, <1>4

LEMMA PositionIsInt ==
  ASSUME IInv, NEW c \in DOMAIN cards, NEW l \in DOMAIN lists, NEW how \in Ways,
         how.mode \in {"before", "after"} => how.n \in InList(l) \ Group(c)
  PROVE  Position(c, l, how) \in Int
<1> DEFINE rest == InList(l) \ Group(c)
           others == InList(cards[c].list) \ Children(c)
           here == Rank(cards, c, others)
<1>1. /\ IsFiniteSet(rest) /\ Cardinality(rest) \in Nat
      /\ IsFiniteSet(others)
  <2>1. rest \subseteq DOMAIN cards /\ others \subseteq DOMAIN cards
    BY DEF InList
  <2> HIDE DEF rest, others
  <2> QED
    BY <2>1, SubsetSize DEF IInv
<1>2. here \in Nat
  <2> HIDE DEF others
  <2> QED
    BY <1>1, RankIsNatural
<1>3. CASE how.mode = "at"
  <2>1. how.n \in Int
    BY <1>3, ListBounds DEF Ways, Places
  <2> QED
    BY <1>3, <2>1 DEF Position
<1>4. CASE how.mode = "append"
  BY <1>1, <1>4 DEF Position
<1>5. CASE how.mode = "preserve"
  <2>1. Position(c, l, how) = Min({here, Cardinality(rest)})
    BY <1>5 DEF Position
  <2>2. PICK a \in Nat, b \in Nat : a = here /\ b = Cardinality(rest)
    BY <1>1, <1>2
  <2>3. IsFiniteSet({a, b}) /\ {a, b} \subseteq Int /\ {a, b} # {}
    <3>1. {a, b} = {a} \cup {b}
      OBVIOUS
    <3>2. IsFiniteSet({a} \cup {b})
      BY FS_Singleton, FS_Union
    <3> QED
      BY <3>1, <3>2
  <2>4. Min({a, b}) \in {a, b}
    BY <2>3, MaxMin
  <2> QED
    BY <2>1, <2>2, <2>4
<1>6. CASE how.mode = "before"
  <2>1. Position(c, l, how) = Rank(cards, how.n, rest)
    BY <1>6 DEF Position
  <2>2. Rank(cards, how.n, rest) \in Nat
    <3> HIDE DEF rest
    <3> QED
      BY <1>1, RankIsNatural
  <2> QED
    BY <2>1, <2>2
<1>7. CASE how.mode = "after"
  <2>1. PICK r : r = how.n
    OBVIOUS
  <2> DEFINE G == Group(r) \cap rest
             P == {Rank(cards, d, rest) : d \in G}
  <2>2. Position(c, l, how) = 1 + Max(P)
    BY <1>7, <2>1 DEF Position, Following
  <2>3. r \in G
    BY <1>7, <2>1 DEF Group
  <2>4. IsFiniteSet(G)
    BY <1>1, FS_Subset
  <2>5. \A d \in G : Rank(cards, d, rest) \in Nat
    <3> HIDE DEF rest
    <3> QED
      BY <1>1, RankIsNatural
  <2>6. IsFiniteSet(P)
    <3> HIDE DEF G, rest
    <3>1. [d \in G |-> Rank(cards, d, rest)] \in Surjection(G, P)
      BY DEF Surjection
    <3> QED
      BY <2>4, <3>1, FS_Surjection
  <2>7. P \subseteq Int /\ P # {}
    <3> HIDE DEF G, rest
    <3> QED
      BY <2>3, <2>5
  <2>8. Max(P) \in Int
    <3> HIDE DEF P
    <3> QED
      BY <2>6, <2>7, MaxMin
  <2> QED
    BY <2>2, <2>8
<1> QED
  BY <1>3, <1>4, <1>5, <1>6, <1>7 DEF Ways

LEMMA MoveTaskKeeps ==
  ASSUME IInv, NEW c \in DOMAIN cards, NEW l \in DOMAIN lists, NEW how \in Ways,
         MoveTask(c, l, how)
  PROVE  IInv' /\ StepOK
<1>1. PICK p : p = Position(c, l, how)
  OBVIOUS
<1>2. p \in Int
  BY <1>1, PositionIsInt DEF MoveTask
<1>3. cards' = Placed(c, l, p) /\ UNCHANGED <<lists, usage, keys, plan, made>>
  BY <1>1 DEF MoveTask
<1>4. cards[c].parent # None => cards[cards[c].parent].list = l
  BY DEF MoveTask
<1>5. DOMAIN cards' = DOMAIN cards
  BY <1>2, <1>3, PlacedRows
<1>6. \A d \in DOMAIN cards : cards'[d] \in CardRow /\ cards'[d].parent = cards[d].parent
                              /\ cards'[d].list \in DOMAIN lists
  <2>1. \A d \in DOMAIN cards : cards[d].list \in DOMAIN lists
    BY DEF IInv, TypeOK
  <2> QED
    BY <1>2, <1>3, <2>1, PlacedRows
<1>7. \A d \in DOMAIN cards : Together(cards, d) => Together(cards', d)
  BY <1>2, <1>3, <1>4, PlacedTogether
<1>8. UsageIsExact' /\ Bounded /\ usage' \in [tasks : Nat, bytes : Nat]
  <2>1. usage' \in [tasks : Nat, bytes : Nat]
    BY <1>3 DEF IInv, TypeOK
  <2>2. \A d \in DOMAIN cards : cards'[d].bytes = cards[d].bytes /\ cards'[d].said = cards[d].said
    BY <1>2, <1>3, PlacedRows
  <2> QED
    BY <1>3, <1>5, <2>1, <2>2, SameWeights
<1> QED
  BY <1>3, <1>5, <1>6, <1>7, <1>8, RowsChange

LEMMA UpdateTaskKeeps ==
  ASSUME IInv, NEW c \in DOMAIN cards, NEW l \in DOMAIN lists \cup {Keep},
         NEW pos \in Places \cup {Keep}, NEW text \in Sizes \cup {Keep},
         UpdateTask(c, l, pos, text)
  PROVE  IInv' /\ StepOK
<1>1. /\ \A d \in DOMAIN cards : cards[d] \in CardRow /\ cards[d].list \in DOMAIN lists
      /\ usage \in [tasks : Nat, bytes : Nat]
  BY DEF IInv, TypeOK
<1> DEFINE moves == l # Keep /\ l # cards[c].list
<1>2. PICK placed : placed = IF moves THEN Placed(c, l, 0) ELSE cards
  OBVIOUS
<1>3. /\ moves => (cards[c].parent # None => cards[cards[c].parent].list = l)
      /\ ApplyQuota(0, IF text = Keep THEN 0 ELSE text - cards[c].bytes)
      /\ UNCHANGED <<lists, keys, plan, made>>
  BY DEF UpdateTask
<1>4. cards' = [placed EXCEPT ![c].pos = IF pos = Keep THEN @ ELSE pos,
                              ![c].bytes = IF text = Keep THEN @ ELSE text]
  BY <1>2 DEF UpdateTask
<1>5. /\ DOMAIN placed = DOMAIN cards
      /\ \A d \in DOMAIN cards : /\ placed[d] \in CardRow /\ placed[d].parent = cards[d].parent
                                 /\ placed[d].list \in DOMAIN lists
                                 /\ placed[d].bytes = cards[d].bytes /\ placed[d].said = cards[d].said
      /\ \A d \in DOMAIN cards : Together(cards, d) => Together(placed, d)
  <2>1. CASE moves
    <3>1. l \in DOMAIN lists /\ placed = Placed(c, l, 0)
      BY <1>2, <2>1
    <3>2. \A d \in DOMAIN cards : Together(cards, d) => Together(placed, d)
      BY <1>3, <2>1, <3>1, PlacedTogether
    <3>3. DOMAIN placed = DOMAIN cards
      BY <3>1, PlacedRows
    <3>4. \A d \in DOMAIN cards : placed[d].list = l \/ placed[d].list = cards[d].list
      BY <3>1, PlacedRows
    <3>5. \A d \in DOMAIN cards : placed[d].list \in DOMAIN lists
      BY <1>1, <3>1, <3>4
    <3>6. \A d \in DOMAIN cards : /\ placed[d] \in CardRow /\ placed[d].parent = cards[d].parent
                                   /\ placed[d].list \in DOMAIN lists
                                   /\ placed[d].bytes = cards[d].bytes /\ placed[d].said = cards[d].said
      BY <3>1, <3>5, PlacedRows
    <3> QED
      BY <3>2, <3>3, <3>6
  <2>2. CASE ~moves
    BY <1>1, <1>2, <2>2
  <2> QED
    BY <2>1, <2>2
<1> HIDE DEF moves
<1>6. PICK x, y : x = (IF pos = Keep THEN placed[c].pos ELSE pos)
                  /\ y = (IF text = Keep THEN placed[c].bytes ELSE text)
  OBVIOUS
<1>7. x \in Int /\ y \in Nat /\ y = (IF text = Keep THEN cards[c].bytes ELSE text)
  BY <1>5, <1>6, ListBounds DEF CardRow, Places
<1>8. cards' = [d \in DOMAIN cards |-> IF d = c THEN [placed[c] EXCEPT !.pos = x, !.bytes = y] ELSE placed[d]]
  BY <1>4, <1>5, <1>6
<1>9. [placed[c] EXCEPT !.pos = x, !.bytes = y] \in CardRow
  BY <1>5, <1>7 DEF CardRow
<1>10. \A d \in DOMAIN cards : /\ cards'[d] \in CardRow
                               /\ cards'[d].parent = placed[d].parent
                               /\ cards'[d].list = placed[d].list
                               /\ cards'[d].bytes = IF d = c THEN y ELSE cards[d].bytes
                               /\ cards'[d].said = cards[d].said
  <2>1. cards'[c] = [placed[c] EXCEPT !.pos = x, !.bytes = y]
    BY <1>8
  <2>2. /\ cards'[c].parent = placed[c].parent /\ cards'[c].list = placed[c].list
        /\ cards'[c].bytes = y /\ cards'[c].said = placed[c].said
    BY <1>5, <2>1 DEF CardRow
  <2> QED
    BY <1>5, <1>8, <1>9, <2>1, <2>2
<1>11. DOMAIN cards' = DOMAIN cards
  BY <1>8
<1>12. \A d \in DOMAIN cards : Together(cards, d) => Together(cards', d)
  <2> SUFFICES ASSUME NEW d \in DOMAIN cards, Together(placed, d), cards[d].parent # None
               PROVE  cards'[cards[d].parent].list = cards'[d].list
    BY <1>5, <1>10 DEF Together
  <2>1. cards[d].parent \in DOMAIN cards
    BY ParentIsNoChild
  <2> QED
    BY <1>5, <1>10, <2>1 DEF Together
<1>13. PICK n \in Int : n = (IF text = Keep THEN 0 ELSE text - cards[c].bytes)
  BY <1>1, ListBounds DEF CardRow
<1>14. cards'[c].bytes + cards'[c].said = cards[c].bytes + cards[c].said + n
  <2>1. cards[c].bytes \in Nat /\ cards[c].said \in Nat
    BY <1>1 DEF CardRow
  <2>2. y = cards[c].bytes + n
    BY <1>7, <1>13, <2>1, ListBounds
  <2> QED
    BY <1>10, <2>1, <2>2
<1>15. UsageIsExact' /\ Bounded /\ usage' \in [tasks : Nat, bytes : Nat]
  BY <1>3, <1>10, <1>11, <1>13, <1>14, OneWeight
<1> QED
  BY <1>3, <1>5, <1>10, <1>11, <1>12, <1>15, RowsChange

LEMMA ReorderTasksKeeps ==
  ASSUME IInv, NEW l \in DOMAIN lists, NEW ids \in Orders(InList(l)), ReorderTasks(l, ids)
  PROVE  IInv' /\ StepOK
<1> DEFINE at(c) == {i \in DOMAIN ids : ids[i] = c}
<1>1. /\ \A d \in DOMAIN cards : cards[d] \in CardRow /\ cards[d].list \in DOMAIN lists
      /\ usage \in [tasks : Nat, bytes : Nat]
  BY DEF IInv, TypeOK
<1>2. PICK n \in Nat : ids \in [1 .. n -> InList(l)]
  <2>1. PICK n \in 1 .. Cardinality(InList(l)) : ids \in Injection(1 .. n, InList(l))
    BY DEF Orders
  <2> QED
    BY <2>1 DEF Injection
<1>3. \A c \in Range(ids) : Max(at(c)) - 1 \in Int
  <2> SUFFICES ASSUME NEW c \in Range(ids) PROVE Max(at(c)) - 1 \in Int
    OBVIOUS
  <2>1. at(c) # {} /\ at(c) \subseteq 1 .. n /\ at(c) \subseteq Int
    BY <1>2 DEF Range
  <2>2. IsFiniteSet(1 .. n)
    BY FS_Interval
  <2> HIDE DEF at
  <2>3. IsFiniteSet(at(c))
    BY <2>1, <2>2, FS_Subset
  <2>4. Max(at(c)) \in Int
    BY <2>1, <2>3, MaxMin
  <2> QED
    BY <2>4
<1>4. cards' = [c \in DOMAIN cards |->
                  IF c \in Range(ids) THEN [cards[c] EXCEPT !.pos = Max(at(c)) - 1] ELSE cards[c]]
  BY DEF ReorderTasks
<1> HIDE DEF at
<1>5. \A c \in DOMAIN cards : /\ cards'[c] \in CardRow
                              /\ cards'[c].parent = cards[c].parent
                              /\ cards'[c].list = cards[c].list
                              /\ cards'[c].bytes = cards[c].bytes /\ cards'[c].said = cards[c].said
  BY <1>1, <1>3, <1>4 DEF CardRow
<1>6. DOMAIN cards' = DOMAIN cards
  BY <1>4
<1>7. \A d \in DOMAIN cards : Together(cards, d) => Together(cards', d)
  <2> SUFFICES ASSUME NEW d \in DOMAIN cards, Together(cards, d), cards[d].parent # None
               PROVE  cards'[cards[d].parent].list = cards'[d].list
    BY <1>5 DEF Together
  <2>1. cards[d].parent \in DOMAIN cards
    BY ParentIsNoChild
  <2> QED
    BY <1>5, <2>1 DEF Together
<1>8. UNCHANGED <<lists, usage, keys, plan, made>>
  BY DEF ReorderTasks
<1>9. UsageIsExact' /\ Bounded
  BY <1>5, <1>6, <1>8, SameWeights
<1> QED
  BY <1>1, <1>5, <1>6, <1>7, <1>8, <1>9, RowsChange

LEMMA ReorderSubtasksKeeps ==
  ASSUME IInv, NEW p \in DOMAIN cards,
         NEW ids \in Bijection(1 .. Cardinality(Children(p)), Children(p)), ReorderSubtasks(p, ids)
  PROVE  IInv' /\ StepOK
<1> DEFINE home  == cards[p].list
           rest  == InList(home) \ Children(p)
           after == Rank(cards, p, rest) + 1
           index(k) == CHOOSE i \in DOMAIN ids : ids[i] = k
           touched == {cards[k].list : k \in Children(p)} \ {home}
           beside(d) == InList(cards[d].list) \ Children(p)
           pos(d) == CASE d \in Children(p) -> after + index(d) - 1
                       [] d \in rest -> LET r == Rank(cards, d, rest) IN
                                        IF r < after THEN r ELSE r + Cardinality(Children(p))
                       [] d \notin Children(p) /\ cards[d].list \in touched -> Rank(cards, d, beside(d))
                       [] OTHER -> cards[d].pos
           list(d) == IF d \in Children(p) THEN home ELSE cards[d].list
<1>1. /\ \A d \in DOMAIN cards : cards[d] \in CardRow /\ cards[d].list \in DOMAIN lists
      /\ usage \in [tasks : Nat, bytes : Nat]
  BY DEF IInv, TypeOK
<1>2. cards' = [d \in DOMAIN cards |-> [cards[d] EXCEPT !.pos = pos(d), !.list = list(d)]]
  BY DEF ReorderSubtasks
<1>3. IsFiniteSet(rest) /\ IsFiniteSet(Children(p)) /\ Cardinality(Children(p)) \in Nat
  <2>1. rest \subseteq DOMAIN cards /\ Children(p) \subseteq DOMAIN cards
    BY DEF InList, Children
  <2> HIDE DEF rest
  <2> QED
    BY <2>1, SubsetSize DEF IInv
<1>4. \A d \in DOMAIN cards : pos(d) \in Int
  <2> SUFFICES ASSUME NEW d \in DOMAIN cards PROVE pos(d) \in Int
    OBVIOUS
  <2>1. Rank(cards, p, rest) \in Nat /\ Rank(cards, d, rest) \in Nat
    <3> HIDE DEF rest
    <3> QED
      BY <1>3, RankIsNatural
  <2>2. Rank(cards, d, beside(d)) \in Nat
    <3>1. beside(d) \subseteq DOMAIN cards
      BY DEF InList
    <3> HIDE DEF beside
    <3>2. IsFiniteSet(beside(d))
      BY <3>1, SubsetSize DEF IInv
    <3> QED
      BY <3>2, RankIsNatural
  <2>3. d \in Children(p) => index(d) \in Int
    <3> HAVE d \in Children(p)
    <3>1. \E i \in DOMAIN ids : ids[i] = d
      BY DEF Bijection, Surjection
    <3>2. index(d) \in DOMAIN ids
      BY <3>1
    <3>3. DOMAIN ids = 1 .. Cardinality(Children(p))
      BY DEF Bijection, Injection
    <3> QED
      BY <1>3, <3>2, <3>3
  <2>4. cards[d].pos \in Int
    BY <1>1 DEF CardRow
  <2>5. PICK r \in Nat : r = Rank(cards, d, rest)
    BY <2>1
  <2>6. PICK a \in Int : a = after
    BY <2>1
  <2>7. (IF r < a THEN r ELSE r + Cardinality(Children(p))) \in Int
    BY <1>3
  <2>8. d \in Children(p) => after + index(d) - 1 \in Int
    BY <2>3, <2>6
  <2>9. (LET s == Rank(cards, d, rest) IN IF s < after THEN s ELSE s + Cardinality(Children(p))) \in Int
    BY <2>5, <2>6, <2>7
  <2> HIDE DEF rest, after, index, touched, beside
  <2> QED
    BY <2>2, <2>4, <2>8, <2>9
<1>5. \A d \in DOMAIN cards : list(d) \in DOMAIN lists /\ list(d) \in ListIds
  BY <1>1 DEF CardRow
<1> HIDE DEF pos, list
<1>6. \A d \in DOMAIN cards : /\ cards'[d] \in CardRow
                              /\ cards'[d].parent = cards[d].parent
                              /\ cards'[d].list = list(d)
                              /\ cards'[d].bytes = cards[d].bytes /\ cards'[d].said = cards[d].said
  BY <1>1, <1>2, <1>4, <1>5 DEF CardRow
<1>7. DOMAIN cards' = DOMAIN cards
  BY <1>2
<1>8. \A d \in DOMAIN cards : Together(cards, d) => Together(cards', d)
  <2> SUFFICES ASSUME NEW d \in DOMAIN cards, Together(cards, d), cards[d].parent # None
               PROVE  cards'[cards[d].parent].list = cards'[d].list
    BY <1>6 DEF Together
  <2>1. PICK q : q = cards[d].parent
    OBVIOUS
  <2>2. q \in DOMAIN cards /\ q \notin Children(p) /\ cards[q].list = cards[d].list
    BY <2>1, ParentIsNoChild DEF Together
  <2>3. cards'[q].list = cards[q].list
    BY <1>6, <2>2 DEF list
  <2>4. cards'[d].list = cards[q].list
    BY <1>6, <2>1, <2>2 DEF list, Children
  <2> QED
    BY <2>1, <2>3, <2>4
<1>9. UNCHANGED <<lists, usage, keys, plan, made>>
  BY DEF ReorderSubtasks
<1>10. UsageIsExact' /\ Bounded
  BY <1>6, <1>7, <1>9, SameWeights
<1> QED
  BY <1>1, <1>5, <1>6, <1>7, <1>8, <1>9, <1>10, RowsChange

LEMMA CreateTaskEntryKeeps ==
  ASSUME IInv, NEW c \in DOMAIN cards, NEW bytes \in Sizes, CreateTaskEntry(c, bytes)
  PROVE  IInv' /\ StepOK
<1>1. /\ \A d \in DOMAIN cards : cards[d] \in CardRow /\ cards[d].list \in DOMAIN lists
      /\ usage \in [tasks : Nat, bytes : Nat] /\ bytes \in Nat
  BY ListBounds DEF IInv, TypeOK
<1>2. cards' = [d \in DOMAIN cards |->
                  IF d = c THEN [cards[d] EXCEPT !.said = cards[d].said + bytes] ELSE cards[d]]
  BY DEF CreateTaskEntry
<1>3. \A d \in DOMAIN cards : /\ cards'[d] \in CardRow
                              /\ cards'[d].parent = cards[d].parent
                              /\ cards'[d].list = cards[d].list
                              /\ cards'[d].bytes = cards[d].bytes
                              /\ cards'[d].said = IF d = c THEN cards[d].said + bytes ELSE cards[d].said
  BY <1>1, <1>2 DEF CardRow
<1>4. DOMAIN cards' = DOMAIN cards
  BY <1>2
<1>5. \A d \in DOMAIN cards : Together(cards, d) => Together(cards', d)
  <2> SUFFICES ASSUME NEW d \in DOMAIN cards, Together(cards, d), cards[d].parent # None
               PROVE  cards'[cards[d].parent].list = cards'[d].list
    BY <1>3 DEF Together
  <2>1. cards[d].parent \in DOMAIN cards
    BY ParentIsNoChild
  <2> QED
    BY <1>3, <2>1 DEF Together
<1>6. ApplyQuota(0, bytes) /\ UNCHANGED <<lists, keys, plan, made>>
  BY DEF CreateTaskEntry
<1>7. cards'[c].bytes + cards'[c].said = cards[c].bytes + cards[c].said + bytes
  <2>1. cards[c].bytes \in Nat /\ cards[c].said \in Nat
    BY <1>1 DEF CardRow
  <2> QED
    BY <1>1, <1>3, <2>1
<1>8. UsageIsExact' /\ Bounded /\ usage' \in [tasks : Nat, bytes : Nat]
  BY <1>1, <1>3, <1>4, <1>6, <1>7, OneWeight
<1> QED
  BY <1>1, <1>3, <1>4, <1>5, <1>6, <1>8, RowsChange

-----------------------------------------------------------------------------
(* Creating cards.                                                          *)

\* The rows of cards and keys that a creation leaves, whatever happens to the
\* lists in its transaction.
LEMMA CreateKeeps ==
  ASSUME IInv, NEW r \in Request, NEW k \in Keys \cup {NoKey}, NEW l, NEW ls,
         r.via = "list" => l = r.list /\ l \in ListIds,
         Create(r, k, l, ls), lists' = ls, UNCHANGED plan,
         DOMAIN lists \subseteq DOMAIN ls, DOMAIN ls \subseteq 1 .. made'.lists,
         \A m \in DOMAIN ls : ls[m] \in ListRow,
         OneInbox', HasInbox(lists) => HasInbox(lists'),
         made' \in [lists : 0..MaxLists, cards : Int], made'.cards = MadeCards
  PROVE  IInv' /\ StepOK
<1>1. /\ made \in [lists : 0..MaxLists, cards : 0..MaxCards]
      /\ DOMAIN cards \subseteq 1 .. made.cards /\ DOMAIN cards \subseteq CardIds
      /\ \A d \in DOMAIN cards : /\ cards[d] \in CardRow /\ cards[d].list \in DOMAIN lists
                                 /\ cards[d].parent \in DOMAIN cards \cup {None}
      /\ usage \in [tasks : Nat, bytes : Nat]
      /\ DOMAIN keys \subseteq Keys
      /\ \A j \in DOMAIN keys : keys[j] \in KeyRow /\ keys[j].card \in DOMAIN cards \cup {None}
      /\ plan \in Plans
  BY DEF IInv, TypeOK, Numbered
<1>2. DOMAIN lists' \subseteq ListIds
  BY ListBounds DEF ListIds
<1>3. CASE k # NoKey /\ k \in DOMAIN keys
  <2>1. UNCHANGED <<cards, usage, keys>>
    BY <1>3 DEF Create
  <2>2. made'.cards = made.cards
    BY <2>1 DEF MadeCards
  <2>3. TypeOK'
    <3>1. made' \in [lists : 0..MaxLists, cards : 0..MaxCards]
      BY <1>1, <2>2
    <3> QED
      BY <1>1, <1>2, <2>1, <3>1 DEF TypeOK
  <2>4. Numbered' /\ Nested' /\ Stamped'
    BY <2>1, <2>2 DEF IInv, Numbered, Nested, Stamped, Fingerprint
  <2>5. UsageIsExact' /\ Bounded
    BY <2>1, SameWeights
  <2>6. StepOK
    BY <2>1, <2>5 DEF StepOK
  <2> QED
    BY <2>3, <2>4, <2>5, <2>6 DEF IInv
<1>4. CASE ~(k # NoKey /\ k \in DOMAIN keys)
  <2>1. PICK c : c = made.cards + 1
    OBVIOUS
  <2>2. PICK home : home = Home(r, l)
    OBVIOUS
  <2>3. PICK row : row = NewCard(home, r)
    OBVIOUS
  <2>4. PICK f : f = Fingerprint(r, l)
    OBVIOUS
  <2>5. /\ c <= MaxCards
        /\ r.parent # None => r.parent \in DOMAIN cards /\ cards[r.parent].parent = None
        /\ home \in DOMAIN ls
        /\ ApplyQuota(1, r.text)
        /\ cards' = [d \in DOMAIN cards \cup {c} |-> IF d = c THEN row ELSE cards[d]]
        /\ keys' = IF k = NoKey THEN keys
                   ELSE [j \in DOMAIN keys \cup {k} |->
                           IF j = k THEN [fingerprint |-> f, request |-> r, card |-> c] ELSE keys[j]]
    BY <1>4, <2>1, <2>2, <2>3, <2>4 DEF Create
  <2>6. c \in CardIds /\ c \notin DOMAIN cards /\ DOMAIN cards \cup {c} \subseteq 1 .. c /\ c # None
    BY <1>1, <2>1, <2>5, ListBounds DEF CardIds, None
  <2>7. /\ DOMAIN cards' = DOMAIN cards \cup {c} /\ cards'[c] = row
        /\ \A d \in DOMAIN cards : cards'[d] = cards[d]
    BY <2>5, <2>6
  <2>8. made'.cards = c /\ made' \in [lists : 0..MaxLists, cards : 0..MaxCards]
    <3>1. DOMAIN cards' # DOMAIN cards
      BY <2>6, <2>7
    <3>2. made'.cards = c
      BY <2>1, <3>1 DEF MadeCards
    <3>3. c \in 0 .. MaxCards
      BY <2>6 DEF CardIds
    <3> QED
      BY <3>2, <3>3
  <2>9. /\ row \in CardRow /\ row.list = home /\ row.parent = r.parent
        /\ row.bytes = r.text /\ row.said = 0 /\ r.text \in Nat
    <3>1. PICK x \in Int : x = NextPos(cards, InList(home))
      <4>1. InList(home) \subseteq DOMAIN cards
        BY DEF InList
      <4>2. IsFiniteSet(InList(home))
        BY <4>1, SubsetSize DEF IInv
      <4>3. \A d \in InList(home) : cards[d].pos \in Int
        BY <1>1, <4>1 DEF CardRow
      <4>4. NextPos(cards, InList(home)) \in Int
        BY <4>2, <4>3, NextPosIsInt
      <4> QED
        BY <4>4
    <3>2. row = [list |-> home, parent |-> r.parent, pos |-> x, bytes |-> r.text, said |-> 0]
      BY <2>3, <3>1 DEF NewCard
    <3>3. home \in ListIds /\ r.text \in Nat /\ r.parent \in CardIds \cup {None}
      BY <1>2, <2>5, ListBounds DEF Request
    <3> QED
      BY <3>2, <3>3 DEF CardRow
  <2>10. f = Fingerprint(r, r.list)
         /\ f \in {"list", "inbox", "parent"} \X (ListIds \cup CardIds \cup {None})
                    \X Sizes \X (CardIds \cup {None})
    <3>1. /\ r.via \in {"list", "inbox", "parent"} /\ r.text \in Sizes
          /\ r.parent \in CardIds \cup {None}
      BY DEF Request
    <3>2. CASE r.via = "list"
      BY <2>4, <3>1, <3>2 DEF Fingerprint
    <3>3. CASE r.via = "inbox"
      BY <2>4, <3>1, <3>3 DEF Fingerprint
    <3>4. CASE r.via = "parent"
      BY <2>4, <3>1, <3>4 DEF Fingerprint
    <3> QED
      BY <3>1, <3>2, <3>3, <3>4
  <2>11. PICK new : new = [fingerprint |-> f, request |-> r, card |-> c]
    OBVIOUS
  <2>12. /\ new \in KeyRow /\ new.card = c /\ new.request = r /\ new.fingerprint = f
    BY <2>6, <2>10, <2>11 DEF KeyRow
  <2>13. \A j \in DOMAIN keys' : /\ j \in Keys
                                 /\ keys'[j] = new \/ (j \in DOMAIN keys /\ keys'[j] = keys[j])
    <3>1. CASE k = NoKey
      BY <1>1, <2>5, <3>1
    <3>2. CASE k # NoKey
      <4>1. keys' = [j \in DOMAIN keys \cup {k} |-> IF j = k THEN new ELSE keys[j]]
        BY <2>5, <2>11, <3>2
      <4> QED
        BY <1>1, <3>2, <4>1
    <3> QED
      BY <3>1, <3>2
  <2>14. /\ usage' \in [tasks : Nat, bytes : Nat] /\ Bounded
         /\ usage' = [tasks |-> usage.tasks + 1, bytes |-> usage.bytes + r.text]
    <3>1. PICK n \in Nat : n = r.text
      BY <2>9
    <3>2. ApplyQuota(1, n)
      BY <2>5, <3>1
    <3>3. /\ usage' \in [tasks : Nat, bytes : Nat] /\ Bounded
          /\ usage' = [tasks |-> usage.tasks + 1, bytes |-> usage.bytes + n]
      BY <3>2, QuotaKept
    <3> QED
      BY <3>1, <3>3
  <2>15. TypeOK'
    <3>1. DOMAIN cards' \subseteq CardIds /\ \A d \in DOMAIN cards' : cards'[d] \in CardRow
      BY <1>1, <2>6, <2>7, <2>9
    <3>2. \A d \in DOMAIN cards' : /\ cards'[d].list \in DOMAIN lists'
                                   /\ cards'[d].parent \in DOMAIN cards' \cup {None}
      <4> SUFFICES ASSUME NEW d \in DOMAIN cards'
                   PROVE  /\ cards'[d].list \in DOMAIN lists'
                          /\ cards'[d].parent \in DOMAIN cards' \cup {None}
        OBVIOUS
      <4>1. CASE d = c
        BY <2>5, <2>7, <2>9, <4>1
      <4>2. CASE d # c
        <5>1. d \in DOMAIN cards /\ cards'[d] = cards[d]
          BY <2>7, <4>2
        <5> QED
          BY <1>1, <2>7, <5>1
      <4> QED
        BY <4>1, <4>2
    <3>3. DOMAIN keys' \subseteq Keys
      BY <2>13
    <3>4. \A j \in DOMAIN keys' : keys'[j] \in KeyRow /\ keys'[j].card \in DOMAIN cards' \cup {None}
      BY <1>1, <2>7, <2>12, <2>13
    <3> QED
      BY <1>1, <1>2, <2>8, <2>14, <3>1, <3>2, <3>3, <3>4 DEF TypeOK
  <2>16. Numbered'
    BY <2>6, <2>7, <2>8 DEF Numbered
  <2>17. Nested'
    <3> SUFFICES ASSUME NEW d \in DOMAIN cards', cards'[d].parent # None
                 PROVE  cards'[cards'[d].parent].parent = None
      BY DEF Nested
    <3>1. PICK q : q = cards'[d].parent
      OBVIOUS
    <3>2. q \in DOMAIN cards /\ cards[q].parent = None
      <4>1. CASE d = c
        BY <2>5, <2>7, <2>9, <3>1, <4>1
      <4>2. CASE d # c
        <5>1. d \in DOMAIN cards /\ cards'[d] = cards[d]
          BY <2>7, <4>2
        <5> QED
          BY <1>1, <3>1, <5>1 DEF IInv, Nested
      <4> QED
        BY <4>1, <4>2
    <3> QED
      BY <2>7, <3>1, <3>2
  <2>18. Stamped'
    <3> SUFFICES ASSUME NEW j \in DOMAIN keys'
                 PROVE  keys'[j].fingerprint = Fingerprint(keys'[j].request, keys'[j].request.list)
      BY DEF Stamped, Fingerprint
    <3>1. CASE keys'[j] = new
      BY <2>10, <2>12, <3>1
    <3>2. CASE j \in DOMAIN keys /\ keys'[j] = keys[j]
      BY <3>2 DEF IInv, Stamped
    <3> QED
      BY <2>13, <3>1, <3>2
  <2>19. StepOK
    <3>1. \A d \in DOMAIN cards' :
            (d \in DOMAIN cards => Together(cards, d)) => Together(cards', d)
      <4> SUFFICES ASSUME NEW d \in DOMAIN cards', d \in DOMAIN cards => Together(cards, d),
                          cards'[d].parent # None
                   PROVE  cards'[cards'[d].parent].list = cards'[d].list
        BY DEF Together
      <4>1. PICK q : q = cards'[d].parent
        OBVIOUS
      <4>2. CASE d = c
        <5>1. q = r.parent /\ q \in DOMAIN cards
          BY <2>5, <2>7, <2>9, <4>1, <4>2
        <5>2. home = cards[q].list
          BY <2>2, <4>1, <5>1, <2>5 DEF Home
        <5> QED
          BY <2>7, <2>9, <4>1, <4>2, <5>1, <5>2
      <4>3. CASE d # c
        <5>1. d \in DOMAIN cards /\ cards'[d] = cards[d]
          BY <2>7, <4>3
        <5>2. q \in DOMAIN cards /\ cards[q].list = cards[d].list
          BY <1>1, <4>1, <5>1 DEF Together
        <5> QED
          BY <2>7, <4>1, <5>1, <5>2
      <4> QED
        BY <4>2, <4>3
    <3> QED
      BY <2>14, <3>1 DEF StepOK
  <2>20. UsageIsExact'
    <3>1. PICK D, E : D = DOMAIN cards /\ E = DOMAIN cards'
      OBVIOUS
    <3>2. PICK w, v : w = Weight /\ v = Weight'
      OBVIOUS
    <3>3. /\ IsFiniteSet(D) /\ c \notin D /\ E = D \cup {c} /\ D = E \ {c} /\ c \in E
          /\ D \subseteq E
      BY <2>6, <2>7, <3>1, FewRows DEF IInv
    <3>4. IsFiniteSet(E) /\ Cardinality(E) = Cardinality(D) + 1
      BY <3>3, FS_AddElement
    <3>5. w \in [D -> Int] /\ v \in [E -> Int]
      <4>1. \A d \in DOMAIN cards' : cards'[d] \in CardRow
        BY <2>15 DEF TypeOK
      <4> QED
        BY <1>1, <3>1, <3>2, <4>1, WeightTypes, WeightTypesNext
    <3>6. (\A d \in D : v[d] = w[d]) /\ v[c] = r.text
      <4>1. \A d \in D : v[d] = w[d]
        BY <2>7, <3>1, <3>2, <3>3 DEF Weight
      <4>2. v[c] = row.bytes + row.said
        BY <2>7, <3>1, <3>2, <3>3 DEF Weight
      <4> QED
        BY <2>9, <4>1, <4>2
    <3>7. SumFunctionOnSet(v, D) = SumFunctionOnSet(w, D) /\ SumFunctionOnSet(w, D) \in Int
      <4>1. SumFunctionOnSet(w, D) \in Int
        BY <3>3, <3>5, SumStep
      <4>2. SumFunctionOnSet(v, D) = SumFunctionOnSet(w, D)
        BY <3>3, <3>5, <3>6, SumSame
      <4> QED
        BY <4>1, <4>2
    <3>8. SumFunctionOnSet(v, E) = v[c] + SumFunctionOnSet(v, E \ {c})
      BY <3>3, <3>4, <3>5, SumTake
    <3>9. SumFunctionOnSet(v, E) = SumFunctionOnSet(w, D) + r.text
      <4>1. SumFunctionOnSet(v, E \ {c}) = SumFunctionOnSet(w, D)
        BY <3>3, <3>7
      <4> QED
        BY <2>9, <3>6, <3>7, <3>8, <4>1
    <3>10. usage.tasks = Cardinality(D) /\ usage.bytes = SumFunctionOnSet(w, D)
      BY <3>1, <3>2 DEF IInv, UsageIsExact, WeightOf
    <3>11. usage' = [tasks |-> Cardinality(E), bytes |-> SumFunctionOnSet(v, E)]
      BY <2>14, <3>4, <3>9, <3>10
    <3> QED
      BY <3>1, <3>2, <3>11 DEF UsageIsExact, WeightOf
  <2> QED
    BY <2>15, <2>16, <2>17, <2>18, <2>19, <2>20 DEF IInv
<1> QED
  BY <1>3, <1>4

\* The three requests that create a card are requests.
LEMMA RequestTypes ==
  ASSUME IInv, NEW via \in {"list", "inbox", "parent"}, NEW l \in ListIds \cup {None},
         NEW parent \in DOMAIN cards \cup {None}, NEW text \in Sizes, NEW strict \in BOOLEAN
  PROVE  [via |-> via, list |-> l, parent |-> parent, text |-> text, strict |-> strict] \in Request
<1>1. parent \in CardIds \cup {None}
  BY DEF IInv, TypeOK
<1> QED
  BY <1>1 DEF Request

LEMMA MadeTypes ==
  ASSUME IInv
  PROVE  MadeCards \in Int /\ made.lists \in 0 .. MaxLists
BY DEF IInv, TypeOK, MadeCards

LEMMA CreateTaskKeeps ==
  ASSUME IInv, NEW l \in ListIds, NEW parent \in DOMAIN cards \cup {None}, NEW text \in Sizes,
         NEW strict \in BOOLEAN, NEW k \in Keys \cup {NoKey}, CreateTask(l, parent, text, strict, k)
  PROVE  IInv' /\ StepOK
<1>1. PICK r : r = [via |-> "list", list |-> l, parent |-> parent, text |-> text, strict |-> strict]
  OBVIOUS
<1>2. r \in Request /\ l = r.list
  BY <1>1, RequestTypes
<1>3. PICK ls : ls = lists
  OBVIOUS
<1>4. Create(r, k, l, ls) /\ UNCHANGED <<lists, plan>> /\ made' = [made EXCEPT !.cards = MadeCards]
  BY <1>1, <1>3 DEF CreateTask
<1>5. /\ made' \in [lists : 0..MaxLists, cards : Int]
      /\ made'.cards = MadeCards /\ made'.lists = made.lists
  BY <1>4, MadeTypes DEF IInv, TypeOK
<1>6. /\ DOMAIN ls \subseteq 1 .. made'.lists /\ \A m \in DOMAIN ls : ls[m] \in ListRow
      /\ OneInbox' /\ DOMAIN lists \subseteq DOMAIN ls
      /\ HasInbox(lists) => HasInbox(lists')
  BY <1>3, <1>4, <1>5 DEF IInv, TypeOK, Numbered, OneInbox
<1> QED
  BY <1>2, <1>3, <1>4, <1>5, <1>6, CreateKeeps

LEMMA CreateSubtaskKeeps ==
  ASSUME IInv, NEW parent \in DOMAIN cards, NEW read \in ListIds, NEW text \in Sizes,
         NEW strict \in BOOLEAN, NEW k \in Keys \cup {NoKey},
         CreateSubtask(parent, read, text, strict, k)
  PROVE  IInv' /\ StepOK
<1>1. PICK r : r = [via |-> "parent", list |-> None, parent |-> parent, text |-> text, strict |-> strict]
  OBVIOUS
<1>2. r \in Request /\ r.via = "parent"
  BY <1>1, RequestTypes
<1>3. PICK ls : ls = lists
  OBVIOUS
<1>4. Create(r, k, read, ls) /\ UNCHANGED <<lists, plan>> /\ made' = [made EXCEPT !.cards = MadeCards]
  BY <1>1, <1>3 DEF CreateSubtask
<1>5. /\ made' \in [lists : 0..MaxLists, cards : Int]
      /\ made'.cards = MadeCards /\ made'.lists = made.lists
  BY <1>4, MadeTypes DEF IInv, TypeOK
<1>6. /\ DOMAIN ls \subseteq 1 .. made'.lists /\ \A m \in DOMAIN ls : ls[m] \in ListRow
      /\ OneInbox' /\ DOMAIN lists \subseteq DOMAIN ls
      /\ HasInbox(lists) => HasInbox(lists')
  BY <1>3, <1>4, <1>5 DEF IInv, TypeOK, Numbered, OneInbox
<1> QED
  BY <1>2, <1>3, <1>4, <1>5, <1>6, CreateKeeps

LEMMA CreateInboxTaskKeeps ==
  ASSUME IInv, NEW parent \in DOMAIN cards \cup {None}, NEW text \in Sizes,
         NEW strict \in BOOLEAN, NEW k \in Keys \cup {NoKey},
         CreateInboxTask(parent, text, strict, k)
  PROVE  IInv' /\ StepOK
<1>1. PICK r : r = [via |-> "inbox", list |-> None, parent |-> parent, text |-> text, strict |-> strict]
  OBVIOUS
<1>2. r \in Request /\ r.via = "inbox"
  BY <1>1, RequestTypes
<1>3. PICK ls : ls = Ensured
  OBVIOUS
<1>4. PICK l : l = InboxOf(ls)
  OBVIOUS
<1>5. /\ Create(r, k, l, ls) /\ lists' = ls /\ UNCHANGED plan
      /\ made' = [lists |-> ListsMade, cards |-> MadeCards] /\ ListsMade <= MaxLists
  BY <1>1, <1>3, <1>4 DEF CreateInboxTask
<1>6. /\ DOMAIN lists \subseteq DOMAIN ls /\ DOMAIN ls \subseteq 1 .. ListsMade
      /\ \A m \in DOMAIN ls : ls[m] \in ListRow
      /\ \A m, n \in DOMAIN ls : ls[m].inbox /\ ls[n].inbox => m = n
      /\ HasInbox(lists) => ls = lists
      /\ ListsMade \in 0 .. MaxLists
  BY <1>3, <1>5, EnsuredIs
<1>7. /\ made' \in [lists : 0..MaxLists, cards : Int]
      /\ made'.cards = MadeCards /\ made'.lists = ListsMade
  BY <1>5, <1>6, MadeTypes
<1>8. OneInbox' /\ (HasInbox(lists) => HasInbox(lists'))
  BY <1>5, <1>6 DEF OneInbox
<1> QED
  BY <1>2, <1>5, <1>6, <1>7, <1>8, CreateKeeps

-----------------------------------------------------------------------------
(* Removing cards, lists and keys.                                          *)

\* The keys of cards that are gone point nowhere and are the same otherwise.
LEMMA ForgetRows ==
  ASSUME IInv, NEW gone
  PROVE  /\ DOMAIN Forget(gone) = DOMAIN keys
         /\ \A k \in DOMAIN keys : /\ Forget(gone)[k] \in KeyRow
                                   /\ Forget(gone)[k].card \in (DOMAIN cards \ gone) \cup {None}
                                   /\ Forget(gone)[k].request = keys[k].request
                                   /\ Forget(gone)[k].fingerprint = keys[k].fingerprint
<1>1. \A k \in DOMAIN keys : keys[k] \in KeyRow /\ keys[k].card \in DOMAIN cards \cup {None}
  BY DEF IInv, TypeOK
<1>2. DOMAIN Forget(gone) = DOMAIN keys
  BY DEF Forget
<1>3. ASSUME NEW k \in DOMAIN keys
      PROVE  /\ Forget(gone)[k] \in KeyRow
             /\ Forget(gone)[k].card \in (DOMAIN cards \ gone) \cup {None}
             /\ Forget(gone)[k].request = keys[k].request
             /\ Forget(gone)[k].fingerprint = keys[k].fingerprint
  <2>1. CASE keys[k].card \in gone
    <3>1. Forget(gone)[k] = [keys[k] EXCEPT !.card = None]
      BY <2>1 DEF Forget
    <3> QED
      BY <1>1, <3>1 DEF KeyRow
  <2>2. CASE keys[k].card \notin gone
    <3>1. Forget(gone)[k] = keys[k]
      BY <2>2 DEF Forget
    <3> QED
      BY <1>1, <2>2, <3>1
  <2> QED
    BY <2>1, <2>2
<1> QED
  BY <1>2, <1>3

\* A step that removes cards, with the subtasks of each of them, and the lists
\* that only such cards are in.
LEMMA RemovalKeeps ==
  ASSUME IInv, NEW gone, gone \subseteq DOMAIN cards, Cascade(gone) = gone,
         ApplyQuota(-Cardinality(gone), -WeightOf(gone)),
         RemoveCards(gone), UNCHANGED <<plan, made>>,
         DOMAIN lists' \subseteq DOMAIN lists,
         \A l \in DOMAIN lists' : lists'[l] = lists[l],
         \A c \in DOMAIN cards \ gone : cards[c].list \in DOMAIN lists',
         HasInbox(lists) => HasInbox(lists')
  PROVE  IInv' /\ StepOK
<1>1. /\ \A d \in DOMAIN cards : /\ cards[d] \in CardRow /\ cards[d].list \in DOMAIN lists
                                 /\ cards[d].parent \in DOMAIN cards \cup {None}
      /\ DOMAIN cards \subseteq CardIds /\ DOMAIN lists \subseteq ListIds
      /\ \A l \in DOMAIN lists : lists[l] \in ListRow
      /\ usage \in [tasks : Nat, bytes : Nat]
      /\ DOMAIN keys \subseteq Keys /\ plan \in Plans
      /\ made \in [lists : 0..MaxLists, cards : 0..MaxCards]
  BY DEF IInv, TypeOK
<1>2. /\ DOMAIN cards' = DOMAIN cards \ gone
      /\ \A d \in DOMAIN cards \ gone : cards'[d] = cards[d]
  BY DEF RemoveCards, Restrict
<1>3. \A d \in DOMAIN cards \ gone : cards[d].parent # None =>
        cards[d].parent \in DOMAIN cards \ gone
  BY <1>1 DEF Cascade, Children
<1>4. keys' = Forget(gone)
  BY DEF RemoveCards
<1>5. /\ DOMAIN keys' = DOMAIN keys
      /\ \A k \in DOMAIN keys : /\ keys'[k] \in KeyRow
                                /\ keys'[k].card \in DOMAIN cards' \cup {None}
                                /\ keys'[k].request = keys[k].request
                                /\ keys'[k].fingerprint = keys[k].fingerprint
  BY <1>2, <1>4, ForgetRows
<1>6. /\ Cardinality(gone) \in Nat /\ Cardinality(DOMAIN cards) \in Nat
      /\ Cardinality(DOMAIN cards') = Cardinality(DOMAIN cards) - Cardinality(gone)
  <2>1. IsFiniteSet(DOMAIN cards) /\ IsFiniteSet(gone)
        /\ Cardinality(gone) \in Nat /\ Cardinality(DOMAIN cards) \in Nat
    BY FewRows, SubsetSize DEF IInv
  <2>2. DOMAIN cards \cap gone = gone
    OBVIOUS
  <2>3. Cardinality(DOMAIN cards \ gone) = Cardinality(DOMAIN cards) - Cardinality(DOMAIN cards \cap gone)
    BY <2>1, FS_Difference
  <2> QED
    BY <1>2, <2>1, <2>2, <2>3
<1>7. PICK D, w : D = DOMAIN cards /\ w = Weight
  OBVIOUS
<1>8. /\ IsFiniteSet(D) /\ IsFiniteSet(gone) /\ gone \subseteq D /\ w \in [D -> Int]
      /\ IsFiniteSet(D \ gone) /\ D \ gone \subseteq D
  BY <1>1, <1>7, FewRows, FS_Subset, WeightTypes DEF IInv
<1>9. /\ SumFunctionOnSet(w, D) \in Int /\ SumFunctionOnSet(w, gone) \in Int
      /\ SumFunctionOnSet(w, D \ gone) = SumFunctionOnSet(w, D) - SumFunctionOnSet(w, gone)
  <2>1. SumFunctionOnSet(w, D) \in Int /\ SumFunctionOnSet(w, gone) \in Int
    BY <1>8, SumStep
  <2>2. SumFunctionOnSet(w, D \ gone) = SumFunctionOnSet(w, D) - SumFunctionOnSet(w, gone)
    BY <1>8, SumMinus
  <2> QED
    BY <2>1, <2>2
<1>10. PICK m \in Int, n \in Int : m = -Cardinality(gone) /\ n = -SumFunctionOnSet(w, gone)
  BY <1>6, <1>9
<1>11. /\ usage' \in [tasks : Nat, bytes : Nat] /\ Bounded
       /\ usage' = [tasks |-> usage.tasks + m, bytes |-> usage.bytes + n]
  <2>1. ApplyQuota(m, n)
    BY <1>7, <1>10 DEF WeightOf
  <2> QED
    BY <2>1, QuotaKept
<1>12. TypeOK'
  <2>1. /\ DOMAIN cards' \subseteq CardIds
        /\ \A d \in DOMAIN cards' : /\ cards'[d] \in CardRow /\ cards'[d].list \in DOMAIN lists'
                                    /\ cards'[d].parent \in DOMAIN cards' \cup {None}
    BY <1>1, <1>2, <1>3
  <2>2. DOMAIN lists' \subseteq ListIds /\ \A l \in DOMAIN lists' : lists'[l] \in ListRow
    BY <1>1
  <2> QED
    BY <1>1, <1>5, <1>11, <2>1, <2>2 DEF TypeOK
<1>13. Numbered' /\ OneInbox'
  BY <1>2 DEF IInv, Numbered, OneInbox
<1>14. Nested'
  BY <1>2, <1>3 DEF IInv, Nested
<1>15. UsageIsExact'
  <2>1. PICK E, v : E = DOMAIN cards' /\ v = Weight'
    OBVIOUS
  <2>2. E = D \ gone /\ v \in [E -> Int] /\ \A d \in E : v[d] = w[d]
    <3>1. \A d \in DOMAIN cards' : cards'[d] \in CardRow
      BY <1>12 DEF TypeOK
    <3>2. v \in [E -> Int]
      BY <2>1, <3>1, WeightTypesNext
    <3>3. \A d \in E : v[d] = w[d]
      BY <1>2, <1>7, <2>1 DEF Weight
    <3> QED
      BY <1>2, <1>7, <2>1, <3>2, <3>3
  <2>3. SumFunctionOnSet(v, E) = SumFunctionOnSet(w, E)
    BY <1>8, <2>2, SumSame
  <2>4. /\ usage.tasks = Cardinality(D) /\ usage.bytes = SumFunctionOnSet(w, D)
        /\ Cardinality(E) = Cardinality(D) - Cardinality(gone)
    BY <1>6, <1>7, <2>1 DEF IInv, UsageIsExact, WeightOf
  <2>5. usage.tasks + m = Cardinality(E) /\ usage.bytes + n = SumFunctionOnSet(v, E)
    BY <1>6, <1>7, <1>9, <1>10, <2>2, <2>3, <2>4
  <2> QED
    BY <1>11, <2>1, <2>5 DEF UsageIsExact, WeightOf
<1>16. Stamped'
  BY <1>5 DEF IInv, Stamped, Fingerprint
<1>17. StepOK
  <2>1. \A d \in DOMAIN cards' : Together(cards, d) => Together(cards', d)
    BY <1>2, <1>3 DEF Together
  <2> QED
    BY <1>2, <1>11, <2>1 DEF StepOK
<1> QED
  BY <1>12, <1>13, <1>14, <1>15, <1>16, <1>17 DEF IInv

\* Deleting what was deleted with its subtasks deletes nothing more.
LEMMA CascadeOnce ==
  ASSUME IInv, NEW S, S \subseteq DOMAIN cards
  PROVE  Cascade(S) \subseteq DOMAIN cards /\ Cascade(Cascade(S)) = Cascade(S)
<1>1. Cascade(S) \subseteq DOMAIN cards
  BY DEF Cascade, Children
<1>2. ASSUME NEW d \in Cascade(Cascade(S)) PROVE d \in Cascade(S)
  <2>1. CASE d \in Cascade(S)
    BY <2>1
  <2>2. CASE d \notin Cascade(S)
    <3>1. PICK q \in Cascade(S) : d \in Children(q)
      BY <2>2 DEF Cascade
    <3>2. q \in DOMAIN cards /\ d \in DOMAIN cards /\ cards[d].parent = q
      BY <1>1, <3>1 DEF Children
    <3>3. q # None
      BY <3>2, ListBounds DEF IInv, TypeOK, CardIds, None
    <3>4. cards[q].parent = None
      BY <3>2, <3>3 DEF IInv, Nested
    <3>5. q \in S
      <4>1. CASE q \notin S
        <5>1. PICK p \in S : q \in Children(p)
          BY <3>1, <4>1 DEF Cascade
        <5>2. p = None
          BY <3>4, <5>1 DEF Children
        <5> QED
          BY <5>2, ListBounds DEF IInv, TypeOK, CardIds, None
      <4> QED
        BY <4>1
    <3> QED
      BY <3>1, <3>5 DEF Cascade
  <2> QED
    BY <2>1, <2>2
<1> QED
  BY <1>1, <1>2 DEF Cascade

LEMMA DeleteBucketKeeps ==
  ASSUME IInv, NEW l \in DOMAIN lists, DeleteBucket(l)
  PROVE  IInv' /\ StepOK
<1>1. PICK gone : gone = Cascade(InList(l))
  OBVIOUS
<1>2. gone \subseteq DOMAIN cards /\ Cascade(gone) = gone /\ InList(l) \subseteq gone
  <2>1. PICK S : S = InList(l)
    OBVIOUS
  <2>2. S \subseteq DOMAIN cards
    BY <2>1 DEF InList
  <2>3. Cascade(S) \subseteq DOMAIN cards /\ Cascade(Cascade(S)) = Cascade(S)
    BY <2>2, CascadeOnce
  <2>4. S \subseteq Cascade(S)
    BY DEF Cascade
  <2> QED
    BY <1>1, <2>1, <2>3, <2>4
<1>3. /\ ApplyQuota(-Cardinality(gone), -WeightOf(gone)) /\ RemoveCards(gone)
      /\ UNCHANGED <<plan, made>>
  BY <1>1 DEF DeleteBucket, Measured
<1>4. DOMAIN lists' = DOMAIN lists \ {l} /\ \A m \in DOMAIN lists' : lists'[m] = lists[m]
  BY DEF DeleteBucket, Restrict
<1>5. \A c \in DOMAIN cards \ gone : cards[c].list \in DOMAIN lists'
  BY <1>2, <1>4 DEF IInv, TypeOK, InList
<1>6. HasInbox(lists) => HasInbox(lists')
  BY <1>4 DEF DeleteBucket, InboxSurvives, HasInbox
<1> QED
  BY <1>2, <1>3, <1>4, <1>5, <1>6, RemovalKeeps

LEMMA DeleteTaskKeeps ==
  ASSUME IInv, NEW c \in DOMAIN cards, DeleteTask(c)
  PROVE  IInv' /\ StepOK
<1>1. PICK gone : gone = Group(c)
  OBVIOUS
<1>2. Cascade({c}) = gone
  BY <1>1 DEF Cascade, Group
<1>3. gone \subseteq DOMAIN cards /\ Cascade(gone) = gone
  <2>1. {c} \subseteq DOMAIN cards
    OBVIOUS
  <2> QED
    BY <1>2, <2>1, CascadeOnce
<1>4. /\ ApplyQuota(-Cardinality(gone), -WeightOf(gone)) /\ RemoveCards(gone)
      /\ UNCHANGED <<lists, plan, made>>
  BY <1>1, <1>2 DEF DeleteTask, ReturnedBytes
<1>5. \A d \in DOMAIN cards \ gone : cards[d].list \in DOMAIN lists'
  BY <1>4 DEF IInv, TypeOK
<1>6. DOMAIN lists' \subseteq DOMAIN lists /\ (\A m \in DOMAIN lists' : lists'[m] = lists[m])
      /\ (HasInbox(lists) => HasInbox(lists'))
  BY <1>4
<1> QED
  BY <1>3, <1>4, <1>5, <1>6, RemovalKeeps

LEMMA ExpireKeyKeeps ==
  ASSUME IInv, NEW k \in DOMAIN keys, ExpireKey(k)
  PROVE  IInv' /\ StepOK
<1>1. UNCHANGED <<lists, cards, usage, plan, made>>
  BY DEF ExpireKey
<1>2. DOMAIN keys' \subseteq DOMAIN keys /\ \A j \in DOMAIN keys' : keys'[j] = keys[j]
  BY DEF ExpireKey, Restrict
<1>3. TypeOK'
  BY <1>1, <1>2 DEF IInv, TypeOK
<1>4. Numbered' /\ OneInbox' /\ Nested'
  BY <1>1 DEF IInv, Numbered, OneInbox, Nested
<1>5. Stamped'
  BY <1>2 DEF IInv, Stamped, Fingerprint
<1>6. UsageIsExact' /\ Bounded
  BY <1>1, SameWeights
<1>7. StepOK
  BY <1>1, <1>6 DEF StepOK
<1> QED
  BY <1>3, <1>4, <1>5, <1>6, <1>7 DEF IInv

LEMMA ChangePlanKeeps ==
  ASSUME IInv, NEW p \in Plans, ChangePlan(p)
  PROVE  IInv' /\ StepOK
<1>1. UNCHANGED <<lists, cards, usage, keys, made>> /\ plan' \in Plans
  BY DEF ChangePlan
<1>2. TypeOK'
  BY <1>1 DEF IInv, TypeOK
<1>3. Numbered' /\ OneInbox' /\ Nested'
  BY <1>1 DEF IInv, Numbered, OneInbox, Nested
<1>4. Stamped'
  BY <1>1 DEF IInv, Stamped, Fingerprint
<1>5. UsageIsExact'
  BY <1>1 DEF IInv, UsageIsExact, WeightOf, Weight
<1>6. StepOK
  BY <1>1, NoCharge DEF StepOK
<1> QED
  BY <1>2, <1>3, <1>4, <1>5, <1>6 DEF IInv

-----------------------------------------------------------------------------
(* The invariant, and what follows from it.                                 *)

LEMMA InitKeeps ==
  ASSUME Init
  PROVE  IInv
<1>1. PICK n \in 0 .. 2, inbox \in {None, 1} :
        lists = [l \in 1 .. n |-> [inbox |-> l = inbox, pos |-> l - 1]]
  BY DEF Init
<1>2. DOMAIN lists = 1 .. n /\ \A l \in DOMAIN lists : lists[l] \in ListRow
  BY <1>1 DEF ListRow
<1>3. Cardinality(DOMAIN lists) = n
  <2>1. Cardinality(1 .. n) = IF 1 > n THEN 0 ELSE n - 1 + 1
    BY FS_Interval
  <2> QED
    BY <1>2, <2>1
<1>4. PICK m \in 0 .. 2 : /\ DOMAIN cards = 1 .. m
                          /\ m # 0 => n = 2
                          /\ \A c \in DOMAIN cards :
                               cards[c] = [list |-> c, parent |-> c - 1, pos |-> 0,
                                           bytes |-> Min(Sizes), said |-> 0]
  <2>1. CASE cards = [c \in {} |-> None]
    <3>1. DOMAIN cards = 1 .. 0 /\ 0 \in 0 .. 2
      BY <2>1
    <3> QED
      BY <3>1
  <2>2. CASE /\ DOMAIN lists = {1, 2}
             /\ cards = [c \in {1, 2} |-> [list |-> c, parent |-> c - 1, pos |-> 0,
                                           bytes |-> Min(Sizes), said |-> 0]]
    <3>1. n = 2
      BY <1>2, <2>2
    <3>2. DOMAIN cards = 1 .. 2
      BY <2>2
    <3>3. \A c \in DOMAIN cards : cards[c] = [list |-> c, parent |-> c - 1, pos |-> 0,
                                              bytes |-> Min(Sizes), said |-> 0]
      BY <2>2
    <3> QED
      BY <3>1, <3>2, <3>3
  <2> QED
    BY <2>1, <2>2 DEF Init
<1>5. Cardinality(DOMAIN cards) = m
  <2>1. Cardinality(1 .. m) = IF 1 > m THEN 0 ELSE m - 1 + 1
    BY FS_Interval
  <2> QED
    BY <1>4, <2>1
<1>6. /\ usage = [tasks |-> Cardinality(DOMAIN cards), bytes |-> WeightOf(DOMAIN cards)]
      /\ DOMAIN keys = {} /\ plan \in Plans
      /\ made = [lists |-> n, cards |-> m]
  BY <1>3, <1>5 DEF Init
<1>7. PICK b \in Nat : b = Min(Sizes)
  <2>1. Sizes \subseteq Int /\ Sizes \subseteq Nat
    BY ListBounds
  <2>2. Min(Sizes) \in Sizes
    BY <2>1, ListBounds, MaxMin
  <2> QED
    BY <2>1, <2>2
<1>8. \A c \in DOMAIN cards : /\ cards[c] \in CardRow /\ cards[c].list = c
                              /\ cards[c].parent = c - 1
                              /\ cards[c].bytes + cards[c].said \in Nat
  <2> SUFFICES ASSUME NEW c \in DOMAIN cards
               PROVE  /\ cards[c] \in CardRow /\ cards[c].list = c
                      /\ cards[c].parent = c - 1
                      /\ cards[c].bytes + cards[c].said \in Nat
    OBVIOUS
  <2>1. cards[c] = [list |-> c, parent |-> c - 1, pos |-> 0, bytes |-> b, said |-> 0]
    BY <1>4, <1>7
  <2>2. c \in ListIds /\ c - 1 \in CardIds \cup {None}
    BY <1>4, ListBounds DEF ListIds, CardIds, None
  <2> QED
    BY <2>1, <2>2 DEF CardRow
<1>9. DOMAIN lists \subseteq ListIds /\ DOMAIN cards \subseteq CardIds
  BY <1>2, <1>4, ListBounds DEF ListIds, CardIds
<1>10. usage \in [tasks : Nat, bytes : Nat]
  <2>1. IsFiniteSet(DOMAIN cards)
    BY <1>4, FS_Interval
  <2>2. PICK D, w : D = DOMAIN cards /\ w = Weight
    OBVIOUS
  <2>3. w \in [D -> Nat]
    BY <1>8, <2>2 DEF Weight
  <2>4. SumFunctionOnSet(w, D) \in Nat
    BY <2>1, <2>2, <2>3, SumIsNat
  <2>5. WeightOf(DOMAIN cards) \in Nat
    BY <2>2, <2>4 DEF WeightOf
  <2> QED
    BY <1>5, <1>6, <2>5
<1>11. made \in [lists : 0..MaxLists, cards : 0..MaxCards]
  BY <1>6, ListBounds
<1>12. \A c \in DOMAIN cards : /\ cards[c].list \in DOMAIN lists
                               /\ cards[c].parent \in DOMAIN cards \cup {None}
  BY <1>2, <1>4, <1>8 DEF None
<1>13. TypeOK
  BY <1>2, <1>6, <1>8, <1>9, <1>10, <1>11, <1>12 DEF TypeOK
<1>14. Numbered
  BY <1>2, <1>4, <1>6 DEF Numbered
<1>15. OneInbox
  <2>1. \A l \in DOMAIN lists : lists[l].inbox <=> l = inbox
    BY <1>1
  <2> QED
    BY <2>1 DEF OneInbox
<1>16. Nested
  <2> SUFFICES ASSUME NEW c \in DOMAIN cards, cards[c].parent # None
               PROVE  cards[cards[c].parent].parent = None
    BY DEF Nested
  <2>1. c = 2 /\ cards[c].parent = 1 /\ 1 \in DOMAIN cards
    BY <1>4, <1>8 DEF None
  <2> QED
    BY <1>8, <2>1 DEF None
<1>17. UsageIsExact /\ Stamped
  BY <1>6 DEF UsageIsExact, Stamped
<1> QED
  BY <1>13, <1>14, <1>15, <1>16, <1>17 DEF IInv

LEMMA NextKeeps ==
  ASSUME IInv, Next
  PROVE  IInv' /\ StepOK
<1>1. CASE ListStep
  BY <1>1, EnsureInboxKeeps, CreateBucketKeeps, UpdateBucketKeeps, DeleteBucketKeeps,
     ReorderBucketsKeeps DEF ListStep
<1>2. CASE CreateStep
  BY <1>2, CreateTaskKeeps, CreateInboxTaskKeeps, CreateSubtaskKeeps DEF CreateStep
<1>3. CASE CardStep
  BY <1>3, MoveTaskKeeps, UpdateTaskKeeps, ReorderTasksKeeps, ReorderSubtasksKeeps,
     CreateTaskEntryKeeps, DeleteTaskKeeps DEF CardStep, MoveStep
<1>4. CASE \E k \in DOMAIN keys : ExpireKey(k)
  BY <1>4, ExpireKeyKeeps
<1>5. CASE \E p \in Plans : ChangePlan(p)
  BY <1>5, ChangePlanKeeps
<1> QED
  BY <1>1, <1>2, <1>3, <1>4, <1>5 DEF Next

LEMMA StutterKeeps ==
  ASSUME IInv, UNCHANGED vars
  PROVE  IInv'
<1>1. UNCHANGED <<lists, cards, usage, keys, plan, made>>
  BY DEF vars
<1>2. TypeOK' /\ Numbered' /\ OneInbox' /\ Nested' /\ Stamped'
  BY <1>1 DEF IInv, TypeOK, Numbered, OneInbox, Nested, Stamped, Fingerprint
<1>3. UsageIsExact'
  BY <1>1 DEF IInv, UsageIsExact, WeightOf, Weight
<1> QED
  BY <1>2, <1>3 DEF IInv

\* The inductive invariant holds in every behaviour of the lists of an account.
THEOREM ListsInvariant == Spec => []IInv
<1>1. Init => IInv
  BY InitKeeps
<1>2. IInv /\ [Next]_vars => IInv'
  BY NextKeeps, StutterKeeps
<1> QED
  BY <1>1, <1>2, PTL DEF Spec

\* Every card is in a list, every parent is a card, and rows have their types.
THEOREM ListTypes == Spec => []TypeOK
<1>1. IInv => TypeOK
  BY DEF IInv
<1> QED
  BY <1>1, ListsInvariant, PTL

\* account_storage_usage is what the rows occupy, whatever was created, edited,
\* moved or deleted with what belongs to it, for any sizes.
THEOREM UsageStaysExact == Spec => []UsageIsExact
<1>1. IInv => UsageIsExact
  BY DEF IInv
<1> QED
  BY <1>1, ListsInvariant, PTL

\* A repeated request finds the card it created, and a key answers no other: what
\* the key was stored with is the fingerprint of its own request.
THEOREM KeysFindTheirCards == Spec => []KeyFindsItsCard
<1>1. ASSUME IInv PROVE KeyFindsItsCard
  <2> SUFFICES ASSUME NEW k \in DOMAIN keys, NEW r, r = keys[k].request, NEW l,
                      l = (IF r.via = "list" THEN r.list
                           ELSE IF HasInbox(lists) THEN InboxOf(lists) ELSE None)
               PROVE  /\ Answers(k, r, l)
                      /\ \A s \in Sizes : Answers(k, [r EXCEPT !.text = s], l) => s = r.text
                      /\ ~r.strict => ~Answers(k, [r EXCEPT !.strict = TRUE], l)
    BY DEF KeyFindsItsCard
  <2>1. r \in Request
    BY <1>1 DEF IInv, TypeOK, KeyRow
  <2>2. keys[k].fingerprint = Fingerprint(r, l)
    <3>1. keys[k].fingerprint = Fingerprint(r, r.list)
      BY <1>1 DEF IInv, Stamped
    <3> QED
      BY <2>1, <3>1 DEF Fingerprint, Request
  <2>3. Answers(k, r, l)
    BY <2>2 DEF Answers, SameData
  <2>4. ASSUME NEW s \in Sizes, Answers(k, [r EXCEPT !.text = s], l) PROVE s = r.text
    <3>1. PICK q : q = [r EXCEPT !.text = s]
      OBVIOUS
    <3>2. q.text = s
      BY <2>1, <3>1 DEF Request
    <3>3. CASE keys[k].fingerprint \in {Fingerprint(q, l)} \cup Compatible(q)
      <4>1. keys[k].fingerprint[3] = s
        BY <3>2, <3>3 DEF Fingerprint, Compatible
      <4> QED
        BY <2>2, <4>1 DEF Fingerprint
    <3>4. CASE SameData(q, r)
      BY <3>2, <3>4 DEF SameData
    <3> QED
      BY <2>4, <3>1, <3>3, <3>4 DEF Answers
  <2>5. ASSUME ~r.strict PROVE ~Answers(k, [r EXCEPT !.strict = TRUE], l)
    <3>1. PICK q : q = [r EXCEPT !.strict = TRUE]
      OBVIOUS
    <3>2. q.strict = TRUE
      BY <2>1, <3>1 DEF Request
    <3>3. ~SameData(q, r)
      BY <2>5, <3>2 DEF SameData
    <3> QED
      BY <3>1, <3>2, <3>3 DEF Answers
  <2> QED
    BY <2>3, <2>4, <2>5
<1> QED
  BY <1>1, ListsInvariant, PTL

\* The Inbox is never lost and never doubled, whichever list takes the marker,
\* gives it up or is deleted.
THEOREM InboxKept == Spec => InboxIsKept
<1> DEFINE Kept == HasInbox(lists) => \E l \in DOMAIN lists' :
                     /\ lists'[l].inbox
                     /\ \A m \in DOMAIN lists' \ {l} : ~lists'[m].inbox
<1>1. ASSUME IInv, Next PROVE Kept
  <2>1. OneInbox' /\ (HasInbox(lists) => HasInbox(lists'))
    BY <1>1, NextKeeps DEF IInv, StepOK
  <2> QED
    BY <2>1 DEF OneInbox, HasInbox
<1>2. IInv /\ [Next]_vars => [Kept]_vars
  BY <1>1
<1>3. Spec => [][Kept]_vars
  BY <1>2, ListsInvariant, PTL DEF Spec
<1> QED
  BY <1>3, PTL DEF InboxIsKept

\* No step separates a subtask from its parent or nests it deeper, wherever the
\* list was read that a subtask was asked to go to.
THEOREM SubtasksStayTogether == Spec => SubtasksStay
<1> DEFINE Stay == \A c \in DOMAIN cards' :
                     (c \in DOMAIN cards => Together(cards, c))
                       => /\ Together(cards', c)
                          /\ cards'[c].parent # None => cards'[cards'[c].parent].parent = None
<1>1. ASSUME IInv, Next PROVE Stay
  <2>1. Nested' /\ StepOK
    BY <1>1, NextKeeps DEF IInv
  <2> QED
    BY <2>1 DEF Nested, StepOK
<1>2. IInv /\ [Next]_vars => [Stay]_vars
  BY <1>1
<1>3. Spec => [][Stay]_vars
  BY <1>2, ListsInvariant, PTL DEF Spec
<1> QED
  BY <1>3, PTL DEF SubtasksStay

\* Rows and bytes grow only up to the plan in force.
THEOREM StorageBound == Spec => StorageIsBounded
<1> DEFINE Grows == /\ Cardinality(DOMAIN cards') > Cardinality(DOMAIN cards)
                         => Cardinality(DOMAIN cards') <= Limits[plan].tasks
                    /\ WeightOf(DOMAIN cards)' > WeightOf(DOMAIN cards)
                         => WeightOf(DOMAIN cards)' <= Limits[plan].bytes
<1>1. ASSUME IInv, Next PROVE Grows
  <2>1. UsageIsExact /\ UsageIsExact' /\ Bounded
    BY <1>1, NextKeeps DEF IInv, StepOK
  <2>2. /\ usage.tasks = Cardinality(DOMAIN cards) /\ usage.bytes = WeightOf(DOMAIN cards)
        /\ usage'.tasks = Cardinality(DOMAIN cards') /\ usage'.bytes = WeightOf(DOMAIN cards)'
    BY <2>1 DEF UsageIsExact
  <2> QED
    BY <2>1, <2>2 DEF Bounded
<1>2. IInv /\ [Next]_vars => [Grows]_vars
  BY <1>1
<1>3. Spec => [][Grows]_vars
  BY <1>2, ListsInvariant, PTL DEF Spec
<1> QED
  BY <1>3, PTL DEF StorageIsBounded

-----------------------------------------------------------------------------
(* Order.                                                                   *)

\* Two rows stand one before the other, by position and then by identifier.
LEMMA OrderIsTotal ==
  ASSUME NEW rows, NEW d \in Int, NEW e \in Int, d # e, rows[d].pos \in Int, rows[e].pos \in Int
  PROVE  Before(rows, d, e) <=> ~Before(rows, e, d)
BY DEF Before

\* Ranks grow along the order.
LEMMA RankGrows ==
  ASSUME NEW rows, NEW S, IsFiniteSet(S), \A x \in S : x \in Int /\ rows[x].pos \in Int,
         NEW d \in S, NEW e \in S, Before(rows, d, e)
  PROVE  Rank(rows, d, S) < Rank(rows, e, S)
<1> DEFINE D == {y \in S : Before(rows, y, d)}
           E == {y \in S : Before(rows, y, e)}
<1>1. ASSUME NEW y \in D PROVE y \in E
  BY DEF Before
<1>2. d \in E /\ d \notin D
  BY DEF Before
<1>3. IsFiniteSet(E)
  BY FS_Subset
<1>4. Rank(rows, d, S) = Cardinality(D) /\ Rank(rows, e, S) = Cardinality(E)
  BY DEF Rank
<1> HIDE DEF D, E
<1>5. D \in SUBSET E /\ D # E
  BY <1>1, <1>2
<1>6. IsFiniteSet(D) /\ Cardinality(D) <= Cardinality(E) /\ Cardinality(D) # Cardinality(E)
  BY <1>3, <1>5, FS_Subset
<1>7. Cardinality(D) \in Nat /\ Cardinality(E) \in Nat
  BY <1>3, <1>6, FS_CardinalityType
<1> QED
  BY <1>4, <1>6, <1>7

LEMMA RankOrders ==
  ASSUME NEW rows, NEW S, IsFiniteSet(S), \A x \in S : x \in Int /\ rows[x].pos \in Int,
         NEW d \in S, NEW e \in S
  PROVE  Before(rows, d, e) <=> Rank(rows, d, S) < Rank(rows, e, S)
<1>1. Rank(rows, d, S) \in Nat /\ Rank(rows, e, S) \in Nat
  BY RankIsNatural
<1>2. CASE d = e
  BY <1>1, <1>2 DEF Before
<1>3. CASE d # e
  <2>1. Before(rows, d, e) => Rank(rows, d, S) < Rank(rows, e, S)
    BY RankGrows
  <2>2. Before(rows, e, d) => Rank(rows, e, S) < Rank(rows, d, S)
    BY RankGrows
  <2>3. d \in Int /\ e \in Int /\ rows[d].pos \in Int /\ rows[e].pos \in Int
    OBVIOUS
  <2>4. Before(rows, d, e) <=> ~Before(rows, e, d)
    BY <1>3, <2>3, OrderIsTotal
  <2> QED
    BY <1>1, <2>1, <2>2, <2>4
<1> QED
  BY <1>2, <1>3

\* No card is its own parent.
LEMMA NotOwnParent ==
  ASSUME IInv, NEW c \in DOMAIN cards
  PROVE  cards[c].parent # c
<1>1. c # None
  BY ListBounds DEF IInv, TypeOK, CardIds, None
<1>2. cards[c].parent # None => cards[cards[c].parent].parent = None
  BY DEF IInv, Nested
<1> QED
  BY <1>1, <1>2

\* The positions that placing a card gives.
LEMMA PlacedPositions ==
  ASSUME IInv, NEW c \in DOMAIN cards, NEW l \in DOMAIN lists, NEW p \in Int,
         NEW d \in DOMAIN cards
  PROVE  /\ d \in InList(l) \ Group(c) =>
              Placed(c, l, p)[d].pos =
                IF Rank(cards, d, InList(l) \ Group(c)) < p
                THEN Rank(cards, d, InList(l) \ Group(c))
                ELSE Rank(cards, d, InList(l) \ Group(c)) + Cardinality(Group(c))
         /\ cards[c].list # l /\ d \in InList(cards[c].list) \ Group(c) =>
              Placed(c, l, p)[d].pos = Rank(cards, d, InList(cards[c].list) \ Group(c))
         /\ cards[d].list \notin {l, cards[c].list} /\ d \notin Group(c) =>
              Placed(c, l, p)[d].pos = cards[d].pos
         /\ d \in Group(c) => Placed(c, l, p)[d].pos >= p
<1> DEFINE from == cards[c].list
           rest == InList(l) \ Group(c)
           left == InList(from) \ Group(c)
           size == Cardinality(Group(c))
           shifted(x) == LET r == Rank(cards, x, rest) IN IF r < p THEN r ELSE r + size
           pos(x) == CASE x = c             -> p
                       [] x \in Children(c) -> p + 1 + Rank(cards, x, Children(c))
                       [] x \in rest        -> shifted(x)
                       [] x \in left \ rest -> Rank(cards, x, left)
                       [] OTHER             -> cards[x].pos
           list(x) == IF x \in Group(c) /\ from # l THEN l ELSE cards[x].list
<1>1. Placed(c, l, p)[d] = [cards[d] EXCEPT !.pos = pos(d), !.list = list(d)]
  BY DEF Placed
<1> HIDE DEF pos, list
<1>2. Placed(c, l, p)[d].pos = pos(d)
  <2>1. cards[d] \in CardRow
    BY DEF IInv, TypeOK
  <2> QED
    BY <1>1, <2>1 DEF CardRow
<1>3. c \notin Children(c)
  BY NotOwnParent DEF Children
<1>4. ASSUME d \in rest PROVE pos(d) = shifted(d)
  BY <1>4 DEF pos, Group
<1>5. ASSUME from # l, d \in left PROVE pos(d) = Rank(cards, d, left)
  BY <1>5 DEF pos, Group, InList
<1>6. ASSUME cards[d].list \notin {l, from}, d \notin Group(c) PROVE pos(d) = cards[d].pos
  BY <1>6 DEF pos, Group, InList
<1>7. ASSUME d \in Group(c) PROVE pos(d) >= p
  <2>1. Children(c) \subseteq DOMAIN cards
    BY DEF Children
  <2>2. IsFiniteSet(Children(c))
    BY <2>1, SubsetSize DEF IInv
  <2>3. Rank(cards, d, Children(c)) \in Nat
    BY <2>2, RankIsNatural
  <2>4. CASE d = c
    BY <1>3, <2>4 DEF pos, Group
  <2>5. CASE d # c /\ d \in Children(c)
    <3>1. pos(d) = p + 1 + Rank(cards, d, Children(c))
      BY <2>5 DEF pos, Group
    <3> QED
      BY <2>3, <3>1
  <2> QED
    BY <1>7, <2>4, <2>5 DEF Group
<1> QED
  BY <1>2, <1>4, <1>5, <1>6, <1>7

\* Placing a card keeps the order of any two others that share a list.
LEMMA PlacedKeepsOrder ==
  ASSUME IInv, NEW c \in DOMAIN cards, NEW l \in DOMAIN lists, NEW p \in Int,
         NEW d \in DOMAIN cards, NEW e \in DOMAIN cards,
         d \notin Group(c), e \notin Group(c), cards[d].list = cards[e].list
  PROVE  Before(cards, d, e) <=> Before(Placed(c, l, p), d, e)
<1>1. PICK rows : rows = Placed(c, l, p)
  OBVIOUS
<1>2. \A x \in DOMAIN cards : x \in Int /\ cards[x].pos \in Int
  BY DEF IInv, TypeOK, CardRow, CardIds
<1>3. PICK rest : rest = InList(l) \ Group(c)
  OBVIOUS
<1>4. PICK left : left = InList(cards[c].list) \ Group(c)
  OBVIOUS
<1>5. rest \subseteq DOMAIN cards /\ left \subseteq DOMAIN cards /\ Group(c) \subseteq DOMAIN cards
  BY <1>3, <1>4 DEF InList, Group, Children
<1>6. IsFiniteSet(rest) /\ IsFiniteSet(left) /\ Cardinality(Group(c)) \in Nat
  BY <1>5, SubsetSize DEF IInv
<1>7. CASE cards[d].list = l
  <2>1. d \in rest /\ e \in rest
    BY <1>3, <1>7 DEF InList
  <2>2. PICK m \in Nat : m = Rank(cards, d, rest)
    BY <1>6, RankIsNatural
  <2>3. PICK n \in Nat : n = Rank(cards, e, rest)
    BY <1>6, RankIsNatural
  <2>4. PICK size \in Nat : size = Cardinality(Group(c))
    BY <1>6
  <2>5. rows[d].pos = IF m < p THEN m ELSE m + size
    BY <1>1, <1>3, <2>1, <2>2, <2>4, PlacedPositions
  <2>6. rows[e].pos = IF n < p THEN n ELSE n + size
    BY <1>1, <1>3, <2>1, <2>3, <2>4, PlacedPositions
  <2>7. Before(cards, d, e) <=> m < n
    BY <1>2, <1>5, <1>6, <2>1, <2>2, <2>3, RankOrders
  <2>8. Before(cards, e, d) <=> n < m
    BY <1>2, <1>5, <1>6, <2>1, <2>2, <2>3, RankOrders
  <2>9. d # e => m # n
    BY <1>2, <2>7, <2>8, OrderIsTotal
  <2>10. m < n => rows[d].pos < rows[e].pos
    BY <2>5, <2>6
  <2>11. n < m => rows[e].pos < rows[d].pos
    BY <2>5, <2>6
  <2>12. rows[d].pos \in Int /\ rows[e].pos \in Int
    BY <2>5, <2>6
  <2>13. m < n => Before(rows, d, e)
    BY <2>10 DEF Before
  <2>14. ~(m < n) => ~Before(rows, d, e)
    <3>1. CASE d = e
      BY <1>2, <2>12, <3>1 DEF Before
    <3>2. CASE n < m
      BY <2>11, <2>12, <3>2 DEF Before
    <3> QED
      BY <2>9, <3>1, <3>2
  <2> QED
    BY <1>1, <2>7, <2>13, <2>14
<1>8. CASE cards[d].list # l /\ cards[d].list = cards[c].list
  <2>1. d \in left /\ e \in left
    BY <1>4, <1>8 DEF InList
  <2>2. PICK m \in Nat : m = Rank(cards, d, left)
    BY <1>6, RankIsNatural
  <2>3. PICK n \in Nat : n = Rank(cards, e, left)
    BY <1>6, RankIsNatural
  <2>4. rows[d].pos = m /\ rows[e].pos = n
    BY <1>1, <1>4, <1>8, <2>1, <2>2, <2>3, PlacedPositions
  <2>5. Before(cards, d, e) <=> m < n
    BY <1>2, <1>5, <1>6, <2>1, <2>2, <2>3, RankOrders
  <2>6. Before(cards, e, d) <=> n < m
    BY <1>2, <1>5, <1>6, <2>1, <2>2, <2>3, RankOrders
  <2>7. d # e => m # n
    BY <1>2, <2>5, <2>6, OrderIsTotal
  <2>8. Before(rows, d, e) <=> m < n
    <3>1. d \in Int /\ e \in Int
      BY <1>2
    <3>2. CASE d = e
      BY <2>2, <2>3, <2>4, <3>1, <3>2 DEF Before
    <3>3. CASE d # e
      BY <2>4, <2>7, <3>1, <3>3 DEF Before
    <3> QED
      BY <3>2, <3>3
  <2> QED
    BY <1>1, <2>5, <2>8
<1>9. CASE cards[d].list \notin {l, cards[c].list}
  <2>1. rows[d].pos = cards[d].pos /\ rows[e].pos = cards[e].pos
    BY <1>1, <1>9, PlacedPositions
  <2> QED
    BY <1>1, <2>1 DEF Before
<1> QED
  BY <1>7, <1>8, <1>9

\* A card that goes after r goes after r's subtasks.
LEMMA AfterKeepsWhole ==
  ASSUME IInv, NEW r \in DOMAIN cards, NEW c \in DOMAIN cards, c \notin Group(r),
         MoveTask(c, cards[r].list, [mode |-> "after", n |-> r]), Whole(cards, r)
  PROVE  Whole(cards', r)
<1>1. PICK l \in DOMAIN lists : l = cards[r].list
  BY DEF IInv, TypeOK
<1>2. PICK rest : rest = InList(l) \ Group(c)
  OBVIOUS
<1>3. PICK p : p = Position(c, l, [mode |-> "after", n |-> r])
  OBVIOUS
<1>4. r \in rest /\ cards' = Placed(c, l, p)
  BY <1>1, <1>2, <1>3 DEF MoveTask
<1>5. [mode |-> "after", n |-> r] \in Ways
  BY DEF Ways, IInv, TypeOK
<1>6. p \in Int
  BY <1>2, <1>3, <1>4, <1>5, PositionIsInt
<1>7. rest \subseteq DOMAIN cards
  BY <1>2 DEF InList
<1>8. IsFiniteSet(rest)
  BY <1>7, SubsetSize DEF IInv
<1>9. ASSUME NEW x \in Group(r) \cap rest PROVE Rank(cards, x, rest) < p
  <2> DEFINE G == Group(r) \cap rest
             P == {Rank(cards, d, rest) : d \in G}
  <2>1. p = 1 + Max(P)
    BY <1>2, <1>3 DEF Position, Following
  <2>2. IsFiniteSet(G)
    BY <1>8, FS_Subset
  <2>3. \A d \in G : Rank(cards, d, rest) \in Nat
    BY <1>8, RankIsNatural
  <2>4. Rank(cards, x, rest) \in P
    OBVIOUS
  <2>5. \A y \in P : y \in Int
    BY <2>3
  <2>6. IsFiniteSet(P)
    <3> HIDE DEF G
    <3>1. [d \in G |-> Rank(cards, d, rest)] \in Surjection(G, P)
      BY DEF Surjection
    <3> QED
      BY <2>2, <3>1, FS_Surjection
  <2> HIDE DEF P
  <2>7. Max(P) \in P /\ \A y \in P : Max(P) >= y
    BY <2>4, <2>5, <2>6, ExtremesExist DEF Max
  <2> QED
    BY <2>1, <2>4, <2>5, <2>7
<1>10. Group(r) \cap Group(c) = {}
  <2>1. r \notin Group(c)
    BY <1>2, <1>4
  <2> QED
    BY <2>1 DEF Group, Children
<1>11. /\ DOMAIN cards' = DOMAIN cards
       /\ \A d \in DOMAIN cards :
            /\ cards'[d].parent = cards[d].parent
            /\ cards'[d].list = IF d \in Group(c) /\ cards[c].list # l THEN l ELSE cards[d].list
            /\ cards'[d].pos \in Int
  <2>1. DOMAIN cards' = DOMAIN cards
    BY <1>4, <1>6, PlacedRows
  <2>2. ASSUME NEW d \in DOMAIN cards
        PROVE  /\ cards'[d] \in CardRow
               /\ cards'[d].parent = cards[d].parent
               /\ cards'[d].list = IF d \in Group(c) /\ cards[c].list # l THEN l ELSE cards[d].list
    BY <1>4, <1>6, PlacedRows
  <2>3. ASSUME NEW d \in DOMAIN cards PROVE cards'[d].pos \in Int
    BY <2>2 DEF CardRow
  <2> QED
    BY <2>1, <2>2, <2>3
<1>12. ASSUME NEW d \in DOMAIN cards, NEW e \in DOMAIN cards, d \notin Group(c), e \notin Group(c),
              cards[d].list = cards[e].list
       PROVE  Before(cards, d, e) <=> Before(cards', d, e)
  BY <1>4, <1>6, <1>12, PlacedKeepsOrder
<1>13. cards'[r].list = l
  BY <1>1, <1>4, <1>2, <1>11
<1> SUFFICES ASSUME NEW k \in DOMAIN cards', cards'[k].list = l, cards'[k].parent = r,
                    NEW d \in DOMAIN cards', cards'[d].list = l, cards'[d].parent # r
             PROVE  Before(cards', r, k) /\ ~(Before(cards', r, d) /\ Before(cards', d, k))
  BY <1>13 DEF Whole
<1>14. k \in DOMAIN cards /\ d \in DOMAIN cards /\ cards[k].parent = r /\ cards[d].parent # r
  BY <1>11
<1>15. k \in Group(r) /\ k \notin Group(c) /\ cards[k].list = l
  BY <1>10, <1>11, <1>14 DEF Group, Children
<1>16. r \notin Group(c)
  BY <1>2, <1>4
<1>17. ASSUME NEW x \in DOMAIN cards, cards[x].list = l, cards[x].parent # r
       PROVE  Before(cards, r, k) /\ ~(Before(cards, r, x) /\ Before(cards, x, k))
  BY <1>1, <1>14, <1>15, <1>17 DEF Whole
<1>18. Before(cards', r, k)
  <2>1. cards[r].parent # r
    BY NotOwnParent
  <2>2. Before(cards, r, k)
    BY <1>1, <1>17, <2>1
  <2> QED
    BY <1>1, <1>12, <1>14, <1>15, <1>16, <2>2
<1>19. CASE d \notin Group(c)
  <2>1. cards[d].list = l
    BY <1>11, <1>14, <1>19
  <2>2. ~(Before(cards, r, d) /\ Before(cards, d, k))
    BY <1>14, <1>17, <2>1
  <2>3. Before(cards, r, d) <=> Before(cards', r, d)
    BY <1>1, <1>12, <1>14, <1>16, <1>19, <2>1
  <2>4. Before(cards, d, k) <=> Before(cards', d, k)
    BY <1>12, <1>14, <1>15, <1>19, <2>1
  <2> QED
    BY <1>18, <2>2, <2>3, <2>4
<1>20. CASE d \in Group(c)
  <2>1. cards'[d].pos >= p
    BY <1>4, <1>6, <1>14, <1>20, PlacedPositions
  <2>2. k \in rest
    BY <1>2, <1>14, <1>15 DEF InList
  <2>3. PICK n \in Nat : n = Rank(cards, k, rest)
    BY <1>8, RankIsNatural
  <2>4. n < p
    BY <1>9, <1>15, <2>2, <2>3
  <2>5. cards'[k].pos = n
    BY <1>2, <1>4, <1>6, <1>14, <2>2, <2>3, <2>4, PlacedPositions
  <2>6. cards'[d].pos \in Int
    BY <1>11, <1>14
  <2>7. ~Before(cards', d, k)
    BY <1>6, <2>1, <2>4, <2>5, <2>6 DEF Before
  <2> QED
    BY <1>18, <2>7
<1> QED
  BY <1>19, <1>20

\* Moving a card changes the order of no two other cards, and a card that is sent
\* after another goes after its subtasks too.
THEOREM OrderOfOthersIsKept == Spec => MovesLeaveOthersAlone
<1> DEFINE Alone ==
      /\ \A d \in DOMAIN cards : \A e \in DOMAIN cards \ 1..d :
           Swapped(d, e) =>
             \A c \in DOMAIN cards : {d, e} \cap Group(c) = {} => ~MoveStep(c)
      /\ \A r \in DOMAIN cards :
           r \in DOMAIN cards' /\ Whole(cards, r) /\ ~Whole(cards', r) =>
             \A c \in DOMAIN cards \ Group(r) :
               ~MoveTask(c, cards[r].list, [mode |-> "after", n |-> r])
<1>1. ASSUME IInv PROVE Alone
  <2>1. ASSUME NEW d \in DOMAIN cards, NEW e \in DOMAIN cards, NEW c \in DOMAIN cards,
               Swapped(d, e), {d, e} \cap Group(c) = {}, MoveStep(c)
        PROVE  FALSE
    <3>1. PICK l \in DOMAIN lists, how \in Ways : MoveTask(c, l, how)
      BY <2>1 DEF MoveStep
    <3>2. PICK p : p = Position(c, l, how)
      OBVIOUS
    <3>3. p \in Int
      BY <1>1, <3>1, <3>2, PositionIsInt DEF MoveTask
    <3>4. cards' = Placed(c, l, p)
      BY <3>1, <3>2 DEF MoveTask
    <3>5. d \notin Group(c) /\ e \notin Group(c)
      BY <2>1
    <3>6. cards[d].list = cards[e].list
      BY <2>1 DEF Swapped
    <3>7. Before(cards, d, e) <=> Before(Placed(c, l, p), d, e)
      BY <1>1, <3>3, <3>5, <3>6, PlacedKeepsOrder
    <3>8. Before(cards, d, e) <=> Before(cards', d, e)
      BY <3>4, <3>7
    <3>9. Before(cards, d, e) # Before(cards', d, e)
      BY <2>1 DEF Swapped
    <3> QED
      BY <3>8, <3>9 DEF Before
  <2>2. ASSUME NEW r \in DOMAIN cards, NEW c \in DOMAIN cards \ Group(r),
               Whole(cards, r), MoveTask(c, cards[r].list, [mode |-> "after", n |-> r])
        PROVE  Whole(cards', r)
    BY <1>1, <2>2, AfterKeepsWhole
  <2> QED
    BY <2>1, <2>2
<1>2. IInv /\ [Next]_vars => [Alone]_vars
  BY <1>1
<1>3. Spec => [][Alone]_vars
  BY <1>2, ListsInvariant, PTL DEF Spec
<1> QED
  BY <1>3, PTL DEF MovesLeaveOthersAlone

=============================================================================
