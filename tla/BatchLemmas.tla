----------------------------- MODULE BatchLemmas -----------------------------
(***************************************************************************)
(* Facts about sets of numbers - the batches of the explanation and        *)
(* delivery workers, the places of the health checks - and about sums, of  *)
(* the rows of a snapshot: SumFunction of the module Functions is a fold,  *)
(* a recursive function over sets.                                         *)
(***************************************************************************)
EXTENDS Batches, Functions, FiniteSetTheorems, TLAPS

\* A set of naturals that is not empty has a least member.
LEMMA LeastExists ==
  ASSUME NEW S \in SUBSET Nat, S # {}
  PROVE  \E t \in S : \A s \in S : t <= s
<1>1. PICK t \in S : \A s \in S : <<s, t>> \notin OpToRel(<, Nat)
  BY NatLessThanWellFounded, WFMin, Zenon
<1>2. \A s \in S : t <= s
  <2> SUFFICES ASSUME NEW s \in S PROVE t <= s
    OBVIOUS
  <2>1. ~(s < t)
    BY <1>1, Zenon DEF OpToRel
  <2> QED
    BY <2>1
<1> QED
  BY <1>2

\* A loop over a batch takes one of its rows.
LEMMA FirstInBatch ==
  ASSUME NEW S \in SUBSET Nat, S # {}
  PROVE  First(S) \in S
<1> QED
  BY LeastExists, Zenon DEF First

\* A bounded set of naturals that is not empty has a greatest member.
LEMMA GreatestExists ==
  ASSUME NEW N \in Nat, NEW S \in SUBSET (1..N), S # {}
  PROVE  \E t \in S : \A s \in S : s <= t
<1> DEFINE R == {r \in 0..N : N - r \in S}
<1>1. \A s \in S : s \in 1..N /\ N - s \in R
  OBVIOUS
<1>2. R \in SUBSET Nat /\ R # {}
  <2>1. PICK s \in S : TRUE
    OBVIOUS
  <2>2. N - s \in R
    BY <1>1, <2>1
  <2>3. R \in SUBSET Nat
    <3> SUFFICES ASSUME NEW r \in 0..N PROVE r \in Nat
      OBVIOUS
    <3> QED
      OBVIOUS
  <2> HIDE DEF R
  <2> QED
    BY <2>2, <2>3
<1>3. PICK r \in R : \A q \in R : r <= q
  <2> HIDE DEF R
  <2> QED
    BY <1>2, LeastExists
<1>4. N - r \in S /\ r \in 0..N
  OBVIOUS
<1>5. \A s \in S : s <= N - r
  <2> TAKE s \in S
  <2>1. r <= N - s
    BY <1>1, <1>3
  <2> QED
    BY <1>1, <1>4, <2>1
<1> QED
  BY <1>4, <1>5

\* Sets of rows are finite.
LEMMA FiniteBatch ==
  ASSUME NEW N \in Nat, NEW S \in SUBSET (1..N)
  PROVE  IsFiniteSet(S) /\ Cardinality(S) \in Nat
<1>1. IsFiniteSet(1..N)
  BY FS_Interval
<1> QED
  BY <1>1, FS_Subset, FS_CardinalityType

\* A query with LIMIT n returns at most n rows.
LEMMA OldestBounded ==
  ASSUME NEW N \in Nat, NEW S \in SUBSET (1..N), NEW n \in Nat
  PROVE  Oldest(S, n) \in SUBSET S /\ Cardinality(Oldest(S, n)) <= n
<1> DEFINE F == Oldest(S, n)
<1>1. F \in SUBSET S /\ F \in SUBSET (1..N)
  BY DEF Oldest
<1>2. CASE F = {}
  BY <1>1, <1>2, FS_EmptySet
<1>3. CASE F # {}
  <2>1. PICK m \in F : \A s \in F : s <= m
    <3> HIDE DEF F
    <3> QED
      BY <1>1, <1>3, GreatestExists
  <2> DEFINE Before == {s \in S : s < m}
  <2>2. Cardinality(Before) < n
    BY <2>1 DEF Oldest
  <2>3. F \ {m} \in SUBSET Before
    <3> SUFFICES ASSUME NEW s \in F \ {m} PROVE s \in S /\ s < m
      OBVIOUS
    <3>1. s \in S /\ s \in 1..N /\ m \in 1..N /\ s <= m /\ s # m
      BY <1>1, <2>1
    <3> QED
      BY <3>1
  <2>4. Before \in SUBSET (1..N)
    OBVIOUS
  <2> HIDE DEF F, Before
  <2>5. Cardinality(F \ {m}) <= Cardinality(Before)
    BY <2>3, <2>4, FiniteBatch, FS_Subset
  <2>6. Cardinality(F \ {m}) = Cardinality(F) - 1
    BY <1>1, <2>1, FiniteBatch, FS_RemoveElement
  <2>7. Cardinality(F) \in Nat /\ Cardinality(Before) \in Nat
    BY <1>1, <2>4, FiniteBatch
  <2>8. Cardinality(F) <= n
    BY <2>2, <2>5, <2>6, <2>7
  <2> QED
    BY <1>1, <2>8 DEF F
<1> QED
  BY <1>2, <1>3

\* A batch is no larger once a row of it is done.
LEMMA RestBounded ==
  ASSUME NEW N \in Nat, NEW S \in SUBSET (1..N), NEW n \in Nat,
         Cardinality(S) <= n, NEW t
  PROVE  S \ {t} \in SUBSET (1..N) /\ Cardinality(S \ {t}) <= n
<1>1. IsFiniteSet(S) /\ Cardinality(S) \in Nat /\ Cardinality(S \ {t}) \in Nat
  BY FiniteBatch
<1>2. Cardinality(S \ {t}) <= Cardinality(S)
  BY <1>1, FS_Subset
<1>3. S \ {t} \in SUBSET (1..N)
  OBVIOUS
<1> QED
  BY <1>1, <1>2, <1>3

----------------------------------------------------------------------------
(* Sums *)

\* Sums are of finitely many integers.
Summable(f) == IsFiniteSet(DOMAIN f) /\ \A x \in DOMAIN f : f[x] \in Int

\* The sum of f over s, from the sums F over smaller sets: an element is taken.
OneTaken(f, F, s) ==
  IF s = {} THEN 0 ELSE LET x == CHOOSE x \in s : TRUE IN f[x] + F[s \ {x}]
SumsBy(f, F) == F = [s \in SUBSET DOMAIN f |-> OneTaken(f, F, s)]

\* The recursion defines these sums up to every size of the set,
LEMMA SumsUpTo ==
  ASSUME NEW f, IsFiniteSet(DOMAIN f), NEW n \in Nat
  PROVE  \E F : \A s \in SUBSET DOMAIN f : Cardinality(s) <= n =>
           F[s] = OneTaken(f, F, s)
<1> DEFINE S == DOMAIN f
           pick(s) == CHOOSE x \in s : TRUE
           Sums(F, s) == F[s] = OneTaken(f, F, s)
           P(m) == \E F : \A s \in SUBSET S : Cardinality(s) <= m => Sums(F, s)
           Bad == {m \in Nat : ~P(m)}
<1>1. \A s \in SUBSET S : IsFiniteSet(s) /\ Cardinality(s) \in Nat
  BY FS_Subset, FS_CardinalityType
<1>2. \A s \in SUBSET S : s # {} =>
        pick(s) \in s /\ s \ {pick(s)} \in SUBSET S
          /\ Cardinality(s \ {pick(s)}) = Cardinality(s) - 1
  <2> TAKE s \in SUBSET S
  <2> HAVE s # {}
  <2>1. pick(s) \in s
    BY Zenon
  <2> HIDE DEF pick
  <2> QED
    BY <1>1, <2>1, FS_RemoveElement
<1>3. P(0)
  <2> DEFINE F == [s \in SUBSET S |-> 0]
  <2>1. \A s \in SUBSET S : Cardinality(s) <= 0 => s = {}
    BY <1>1, FS_EmptySet
  <2>2. \A s \in SUBSET S : Cardinality(s) <= 0 => Sums(F, s)
    BY <2>1, Zenon DEF OneTaken
  <2> QED
    BY <2>2, Zenon
<1>4. ASSUME NEW m \in Nat, P(m) PROVE P(m + 1)
  <2>1. PICK F : \A s \in SUBSET S : Cardinality(s) <= m => Sums(F, s)
    BY <1>4, Zenon
  <2> DEFINE G == [s \in SUBSET S |-> IF Cardinality(s) <= m THEN F[s]
                                       ELSE f[pick(s)] + F[s \ {pick(s)}]]
  <2>2. ASSUME NEW s \in SUBSET S, Cardinality(s) <= m + 1 PROVE Sums(G, s)
    <3>1. CASE s = {}
      <4>1. Cardinality(s) <= m
        BY <3>1, FS_EmptySet
      <4>2. G[s] = F[s]
        BY <4>1, Zenon
      <4>3. F[s] = 0
        BY <2>1, <3>1, <4>1, Zenon DEF OneTaken
      <4> HIDE DEF G
      <4> QED
        BY <3>1, <4>2, <4>3, Zenon DEF OneTaken
    <3>2. CASE s # {}
      <4>1. /\ s \ {pick(s)} \in SUBSET S
            /\ Cardinality(s \ {pick(s)}) = Cardinality(s) - 1
        BY <1>2, <3>2
      <4>2. Cardinality(s \ {pick(s)}) <= m
        BY <1>1, <2>2, <4>1
      <4>3. G[s \ {pick(s)}] = F[s \ {pick(s)}]
        BY <4>1, <4>2, Zenon
      <4>4. G[s] = f[pick(s)] + F[s \ {pick(s)}]
        <5>1. CASE Cardinality(s) <= m
          <6>1. G[s] = F[s]
            BY <5>1, Zenon
          <6> QED
            BY <2>1, <3>2, <5>1, <6>1, Zenon DEF OneTaken
        <5>2. CASE ~(Cardinality(s) <= m)
          BY <5>2, Zenon
        <5> QED
          BY <5>1, <5>2
      <4> HIDE DEF G
      <4> QED
        BY <3>2, <4>3, <4>4, Zenon DEF OneTaken
    <3> QED
      BY <3>1, <3>2
  <2> QED
    BY <2>2, Zenon
<1>5. Bad = {}
  <2> SUFFICES ASSUME Bad # {} PROVE FALSE
    OBVIOUS
  <2>1. PICK m \in Bad : \A k \in Bad : m <= k
    <3>1. Bad \in SUBSET Nat
      OBVIOUS
    <3> HIDE DEF Bad
    <3> QED
      BY <3>1, LeastExists
  <2>2. m \in Nat /\ ~P(m)
    BY <2>1, Zenon
  <2>3. m # 0
    <3> HIDE DEF P
    <3> QED
      BY <1>3, <2>2, Zenon
  <2>4. m - 1 \in Nat /\ m - 1 \notin Bad
    <3> HIDE DEF Bad
    <3> QED
      BY <2>1, <2>2, <2>3
  <2>5. P(m - 1)
    BY <2>4, Zenon
  <2>6. P((m - 1) + 1)
    <3> HIDE DEF P
    <3> QED
      BY <1>4, <2>4, <2>5
  <2>7. (m - 1) + 1 = m
    BY <2>2
  <2> HIDE DEF P
  <2> QED
    BY <2>2, <2>6, <2>7
<1>6. P(n)
  <2>1. n \notin Bad
    BY <1>5, Zenon
  <2> QED
    BY <2>1, Zenon
<1> QED
  BY <1>6, Zenon

\* so that the recursive definition has a solution.
LEMMA SumsExist ==
  ASSUME NEW f, IsFiniteSet(DOMAIN f)
  PROVE  \E F : SumsBy(f, F) /\ SumFunction(f) = F[DOMAIN f]
<1> DEFINE eq(F) == [s \in SUBSET DOMAIN f |-> OneTaken(f, F, s)]
<1>1. PICK G : \A s \in SUBSET DOMAIN f :
        Cardinality(s) <= Cardinality(DOMAIN f) => G[s] = OneTaken(f, G, s)
  <2>1. Cardinality(DOMAIN f) \in Nat
    BY FS_CardinalityType, Zenon
  <2> QED
    BY <2>1, SumsUpTo, Zenon
<1> DEFINE F == [s \in SUBSET DOMAIN f |-> G[s]]
<1>2. \A s \in SUBSET DOMAIN f : Cardinality(s) <= Cardinality(DOMAIN f)
  BY FS_Subset
<1>3. F = eq(F)
  <2>1. ASSUME NEW s \in SUBSET DOMAIN f
        PROVE  F[s] = OneTaken(f, F, s)
    <3>1. F[s] = G[s] /\ F[s \ {CHOOSE x \in s : TRUE}] = G[s \ {CHOOSE x \in s : TRUE}]
      BY Zenon
    <3>2. G[s] = OneTaken(f, G, s)
      BY <1>1, <1>2, Zenon
    <3> HIDE DEF F
    <3> QED
      BY <3>1, <3>2, Zenon DEF OneTaken
  <2>2. F = [s \in SUBSET DOMAIN f |-> F[s]]
    BY Zenon
  <2> HIDE DEF F
  <2> QED
    BY <2>1, <2>2, Zenon
<1>4. \E H : H = eq(H)
  BY <1>3, Zenon
<1> DEFINE C == CHOOSE H : H = eq(H)
<1>5. C = eq(C)
  BY <1>4, Zenon
<1>6. SumFunction(f) = C[DOMAIN f]
  BY Zenon DEF SumFunction, SumFunctionOnSet, FoldFunctionOnSet, MapThenFoldSet, OneTaken
<1>7. SumsBy(f, C)
  BY <1>5, Zenon DEF SumsBy
<1> QED
  BY <1>6, <1>7, Zenon

AnyTaken(f, F) ==
  /\ F[{}] = 0
  /\ \A s \in SUBSET DOMAIN f : F[s] \in Int /\ \A x \in s : F[s] = f[x] + F[s \ {x}]

\* A sum of no numbers is 0, and the element taken is as good as any.
LEMMA SumsAnyTaken ==
  ASSUME NEW f, Summable(f),
         NEW F, SumsBy(f, F)
  PROVE  AnyTaken(f, F)
<1> DEFINE S == DOMAIN f
           pick(s) == CHOOSE x \in s : TRUE
           Good(s) == F[s] \in Int /\ \A x \in s : F[s] = f[x] + F[s \ {x}]
           Bad == {m \in Nat : \E s \in SUBSET S : Cardinality(s) = m /\ ~Good(s)}
<1> USE DEF Summable
<1>1. \A s \in SUBSET S : IsFiniteSet(s) /\ Cardinality(s) \in Nat
  BY FS_Subset, FS_CardinalityType
<1>2. \A s \in SUBSET S : F[s] = OneTaken(f, F, s)
  BY Zenon DEF SumsBy
<1>3. F[{}] = 0
  BY <1>2, Zenon DEF OneTaken
<1>4. \A s \in SUBSET S : \A x \in s :
        s \ {x} \in SUBSET S /\ Cardinality(s \ {x}) = Cardinality(s) - 1
  BY <1>1, FS_RemoveElement
<1>5. Bad = {}
  <2> SUFFICES ASSUME Bad # {} PROVE FALSE
    OBVIOUS
  <2>1. PICK m \in Bad : \A k \in Bad : m <= k
    <3>1. Bad \in SUBSET Nat
      OBVIOUS
    <3> HIDE DEF Bad
    <3> QED
      BY <3>1, LeastExists
  <2>2. PICK s \in SUBSET S : Cardinality(s) = m /\ ~Good(s)
    BY <2>1, Zenon
  <2>3. \A t \in SUBSET S : Cardinality(t) < Cardinality(s) => Good(t)
    <3> SUFFICES ASSUME NEW t \in SUBSET S, Cardinality(t) < Cardinality(s), ~Good(t)
                 PROVE  FALSE
      BY Zenon
    <3>1. Cardinality(t) \in Nat
      BY <1>1, Zenon
    <3>2. Cardinality(t) \in Bad
      BY <3>1, Zenon
    <3>3. Cardinality(s) <= Cardinality(t)
      BY <2>1, <2>2, <3>2, Zenon
    <3>4. Cardinality(s) \in Nat
      BY <1>1, Zenon
    <3> HIDE DEF Bad, Good
    <3> QED
      BY <3>1, <3>3, <3>4
  <2>4. s # {}
    BY <1>3, <2>2
  <2>5. pick(s) \in s
    BY <2>4, Zenon
  <2>6. F[s] = f[pick(s)] + F[s \ {pick(s)}]
    BY <1>2, <2>4, Zenon DEF OneTaken
  <2> HIDE DEF pick
  <2>7. \A x \in s : Good(s \ {x})
    <3> SUFFICES ASSUME NEW x \in s PROVE Good(s \ {x})
      BY Zenon
    <3>1. s \ {x} \in SUBSET S /\ Cardinality(s \ {x}) = Cardinality(s) - 1
      BY <1>4, Zenon
    <3>2. Cardinality(s \ {x}) < Cardinality(s)
      BY <1>1, <3>1
    <3> QED
      BY <2>3, <3>1, <3>2, Zenon
  <2>8. F[s] \in Int
    <3>1. F[s \ {pick(s)}] \in Int
      BY <2>5, <2>7, Zenon
    <3>2. f[pick(s)] \in Int
      BY <2>5, Zenon
    <3> QED
      BY <2>6, <3>1, <3>2
  <2>9. ASSUME NEW x \in s PROVE F[s] = f[x] + F[s \ {x}]
    <3>1. CASE x = pick(s)
      BY <2>6, <3>1, Zenon
    <3>2. CASE x # pick(s)
      <4>1. x \in s \ {pick(s)} /\ pick(s) \in s \ {x}
        BY <2>5, <3>2, Zenon
      <4>2. F[s \ {pick(s)}] = f[x] + F[(s \ {pick(s)}) \ {x}]
        BY <2>5, <2>7, <4>1, Zenon
      <4>3. F[s \ {x}] = f[pick(s)] + F[(s \ {x}) \ {pick(s)}]
        BY <2>7, <4>1, Zenon
      <4>4. (s \ {pick(s)}) \ {x} = (s \ {x}) \ {pick(s)}
        OBVIOUS
      <4>5. (s \ {x}) \ {pick(s)} \in SUBSET S
        OBVIOUS
      <4>6. F[(s \ {x}) \ {pick(s)}] \in Int
        <5>1. Cardinality((s \ {x}) \ {pick(s)}) = Cardinality(s \ {x}) - 1
          BY <1>4, <4>1, Zenon
        <5>2. Cardinality(s \ {x}) = Cardinality(s) - 1
          BY <1>4, Zenon
        <5>3. Cardinality((s \ {x}) \ {pick(s)}) < Cardinality(s)
          BY <1>1, <5>1, <5>2
        <5> QED
          BY <2>3, <4>5, <5>3, Zenon
      <4>7. f[x] \in Int /\ f[pick(s)] \in Int
        BY <2>5, Zenon
      <4>8. \A a, b, c \in Int : a + (b + c) = b + (a + c)
        OBVIOUS
      <4>9. /\ F[s] = f[pick(s)] + (f[x] + F[(s \ {x}) \ {pick(s)}])
            /\ f[x] + F[s \ {x}] = f[x] + (f[pick(s)] + F[(s \ {x}) \ {pick(s)}])
        BY <2>6, <4>2, <4>3, <4>4, Zenon
      <4> QED
        BY <4>6, <4>7, <4>8, <4>9, Zenon
    <3> QED
      BY <3>1, <3>2
  <2> QED
    BY <2>2, <2>8, <2>9, Zenon
<1>6. \A s \in SUBSET S : Good(s)
  <2> SUFFICES ASSUME NEW s \in SUBSET S, ~Good(s) PROVE FALSE
    BY Zenon
  <2>1. Cardinality(s) \in Bad
    BY <1>1, Zenon
  <2> QED
    BY <1>5, <2>1, Zenon
<1> QED
  BY <1>3, <1>6, Zenon DEF AnyTaken

\* Two functions that agree on a set have the same sum over it.
LEMMA SumsAgree ==
  ASSUME NEW f, Summable(f),
         NEW F, SumsBy(f, F),
         NEW g, Summable(g),
         NEW G, SumsBy(g, G),
         NEW s, s \subseteq DOMAIN f, s \subseteq DOMAIN g, \A x \in s : f[x] = g[x]
  PROVE  F[s] = G[s]
<1> DEFINE Bad == {m \in Nat : \E t \in SUBSET s : Cardinality(t) = m /\ F[t] # G[t]}
<1>1. \A t \in SUBSET s : IsFiniteSet(t) /\ Cardinality(t) \in Nat
  BY FS_Subset, FS_CardinalityType DEF Summable
<1>2. /\ F[{}] = 0 /\ \A t \in SUBSET DOMAIN f : \A x \in t : F[t] = f[x] + F[t \ {x}]
      /\ G[{}] = 0 /\ \A t \in SUBSET DOMAIN g : \A x \in t : G[t] = g[x] + G[t \ {x}]
  <2>1. AnyTaken(f, F) /\ AnyTaken(g, G)
    BY SumsAnyTaken, Zenon
  <2> QED
    BY <2>1, Zenon DEF AnyTaken
<1>3. Bad = {}
  <2> SUFFICES ASSUME Bad # {} PROVE FALSE
    OBVIOUS
  <2>1. PICK m \in Bad : \A k \in Bad : m <= k
    <3>1. Bad \in SUBSET Nat
      OBVIOUS
    <3> HIDE DEF Bad
    <3> QED
      BY <3>1, LeastExists
  <2>2. PICK t \in SUBSET s : Cardinality(t) = m /\ F[t] # G[t]
    BY <2>1, Zenon
  <2>3. t # {}
    BY <1>2, <2>2, Zenon
  <2>4. PICK x \in t : TRUE
    BY <2>3, Zenon
  <2>5. Cardinality(t \ {x}) = m - 1 /\ m \in Nat /\ Cardinality(t \ {x}) \in Nat
    BY <1>1, <2>2, FS_RemoveElement
  <2>6. Cardinality(t \ {x}) \notin Bad
    <3>1. ~(m <= m - 1)
      BY <2>5
    <3> HIDE DEF Bad
    <3> QED
      BY <2>1, <2>5, <3>1, Zenon
  <2>7. F[t \ {x}] = G[t \ {x}]
    BY <2>5, <2>6, Zenon
  <2>8. f[x] = g[x] /\ t \in SUBSET DOMAIN f /\ t \in SUBSET DOMAIN g
    BY Zenon
  <2> QED
    BY <1>2, <2>2, <2>7, <2>8, Zenon
<1>4. SUFFICES ASSUME F[s] # G[s] PROVE FALSE
  BY Zenon
<1>5. Cardinality(s) \in Bad
  BY <1>1, <1>4, Zenon
<1> QED
  BY <1>3, <1>5, Zenon

\* The sum of integers is one.
LEMMA SumType ==
  ASSUME NEW f, Summable(f)
  PROVE  SumFunction(f) \in Int
<1>1. PICK F : SumsBy(f, F) /\ SumFunction(f) = F[DOMAIN f]
  BY SumsExist, Zenon DEF Summable
<1>2. F[DOMAIN f] \in Int
  BY <1>1, SumsAnyTaken, Zenon DEF AnyTaken
<1> QED
  BY <1>1, <1>2

\* The sum of nothing is 0.
LEMMA SumNothing ==
  ASSUME NEW f, DOMAIN f = {}
  PROVE  SumFunction(f) = 0
<1>1. Summable(f)
  BY FS_EmptySet, Zenon DEF Summable
<1>2. PICK F : SumsBy(f, F) /\ SumFunction(f) = F[DOMAIN f]
  BY <1>1, SumsExist, Zenon DEF Summable
<1>3. F[{}] = 0
  BY <1>1, <1>2, SumsAnyTaken, Zenon DEF AnyTaken
<1> QED
  BY <1>2, <1>3

\* Any element can be taken out of a sum.
LEMMA SumTaken ==
  ASSUME NEW f, Summable(f),
         NEW x \in DOMAIN f
  PROVE  SumFunction(f) = f[x] + SumFunction([y \in DOMAIN f \ {x} |-> f[y]])
<1> DEFINE g == [y \in DOMAIN f \ {x} |-> f[y]]
<1>1. Summable(g)
  <2>1. DOMAIN g = DOMAIN f \ {x} /\ \A y \in DOMAIN g : g[y] = f[y]
    OBVIOUS
  <2> HIDE DEF g
  <2>2. IsFiniteSet(DOMAIN f \ {x})
    BY FS_Subset DEF Summable
  <2> QED
    BY <2>1, <2>2 DEF Summable
<1>2. PICK F : SumsBy(f, F) /\ SumFunction(f) = F[DOMAIN f]
  BY SumsExist, Zenon DEF Summable
<1>3. PICK G : SumsBy(g, G) /\ SumFunction(g) = G[DOMAIN g]
  BY <1>1, SumsExist, Zenon DEF Summable
<1>4. DOMAIN g = DOMAIN f \ {x} /\ \A y \in DOMAIN g : f[y] = g[y]
  OBVIOUS
<1> HIDE DEF g
<1>5. F[DOMAIN g] = G[DOMAIN g]
  <2>1. DOMAIN g \subseteq DOMAIN f /\ DOMAIN g \subseteq DOMAIN g
    BY <1>4
  <2>2. SumsBy(f, F) /\ SumsBy(g, G)
    BY <1>2, <1>3
  <2> QED
    BY <1>1, <1>4, <2>1, <2>2, SumsAgree
<1>6. F[DOMAIN f] = f[x] + F[DOMAIN f \ {x}]
  <2>1. AnyTaken(f, F)
    BY <1>2, SumsAnyTaken, Zenon
  <2> QED
    BY <2>1, Zenon DEF AnyTaken
<1>7. SumFunction(f) = f[x] + SumFunction(g)
  BY <1>2, <1>3, <1>4, <1>5, <1>6, Zenon
<1> QED
  BY <1>7 DEF g

SumOf(f, S) == SumFunction([x \in S |-> f[x]])

\* so also out of a sum over some arguments.
LEMMA SumOfTaken ==
  ASSUME NEW f, Summable(f), NEW S, S \subseteq DOMAIN f
  PROVE  /\ SumOf(f, S) \in Int
         /\ S = {} => SumOf(f, S) = 0
         /\ \A x \in S : SumOf(f, S) = f[x] + SumOf(f, S \ {x})
<1> DEFINE g == [x \in S |-> f[x]]
<1>1. DOMAIN g = S /\ \A x \in S : g[x] = f[x]
  OBVIOUS
<1>2. SumOf(f, S) = SumFunction(g)
  BY Zenon DEF SumOf
<1> HIDE DEF g
<1>3. Summable(g)
  <2>1. IsFiniteSet(S)
    BY FS_Subset DEF Summable
  <2> QED
    BY <1>1, <2>1 DEF Summable
<1>4. SumOf(f, S) \in Int
  BY <1>2, <1>3, SumType, Zenon
<1>5. S = {} => SumOf(f, S) = 0
  BY <1>1, <1>2, SumNothing, Zenon
<1>6. ASSUME NEW x \in S PROVE SumOf(f, S) = f[x] + SumOf(f, S \ {x})
  <2>1. SumFunction(g) = g[x] + SumFunction([y \in DOMAIN g \ {x} |-> g[y]])
    BY <1>1, <1>3, SumTaken, Zenon
  <2>2. [y \in DOMAIN g \ {x} |-> g[y]] = [y \in S \ {x} |-> f[y]]
    BY <1>1
  <2> QED
    BY <1>1, <1>2, <2>1, <2>2, Zenon DEF SumOf
<1> QED
  BY <1>4, <1>5, <1>6

\* A sum over a set is one over a part of it and one over the rest.
LEMMA SumOfParts ==
  ASSUME NEW f, Summable(f), NEW S, S \subseteq DOMAIN f, NEW T, T \subseteq S
  PROVE  SumOf(f, S) = SumOf(f, T) + SumOf(f, S \ T)
<1> DEFINE Splits(t) == SumOf(f, S) = SumOf(f, t) + SumOf(f, S \ t)
           Bad == {m \in Nat : \E t \in SUBSET T : Cardinality(t) = m /\ ~Splits(t)}
<1>1. \A t \in SUBSET T : IsFiniteSet(t) /\ Cardinality(t) \in Nat
  BY FS_Subset, FS_CardinalityType DEF Summable
<1>2. ASSUME NEW t \in SUBSET S
      PROVE  /\ SumOf(f, t) \in Int
             /\ t = {} => SumOf(f, t) = 0
             /\ \A x \in t : SumOf(f, t) = f[x] + SumOf(f, t \ {x})
  <2>1. t \subseteq DOMAIN f
    OBVIOUS
  <2> QED
    BY <2>1, SumOfTaken, Zenon
<1>3. Bad = {}
  <2> SUFFICES ASSUME Bad # {} PROVE FALSE
    OBVIOUS
  <2>1. PICK m \in Bad : \A k \in Bad : m <= k
    <3>1. Bad \in SUBSET Nat
      OBVIOUS
    <3> HIDE DEF Bad
    <3> QED
      BY <3>1, LeastExists
  <2>2. PICK t \in SUBSET T : Cardinality(t) = m /\ ~Splits(t)
    BY <2>1, Zenon
  <2>3. t # {}
    <3> SUFFICES ASSUME t = {} PROVE Splits(t)
      BY <2>2, Zenon
    <3>1. SumOf(f, t) = 0 /\ SumOf(f, S) \in Int /\ S \ t = S
      BY <1>2
    <3>2. SumOf(f, S) = 0 + SumOf(f, S)
      BY <3>1
    <3> QED
      BY <3>1, <3>2, Zenon
  <2>4. PICK x \in t : TRUE
    BY <2>3, Zenon
  <2>5. Cardinality(t \ {x}) = m - 1 /\ m \in Nat /\ Cardinality(t \ {x}) \in Nat
    BY <1>1, <2>2, FS_RemoveElement
  <2>6. Cardinality(t \ {x}) \notin Bad
    <3>1. ~(m <= m - 1)
      BY <2>5
    <3> HIDE DEF Bad
    <3> QED
      BY <2>1, <2>5, <3>1, Zenon
  <2>7. Splits(t \ {x})
    BY <2>5, <2>6, Zenon
  <2> DEFINE rest == S \ (t \ {x})
  <2>8. rest \in SUBSET S /\ t \in SUBSET S /\ x \in rest /\ rest \ {x} = S \ t
    OBVIOUS
  <2>9. SumOf(f, rest) = f[x] + SumOf(f, S \ t)
    <3> HIDE DEF rest
    <3> QED
      BY <1>2, <2>8, Zenon
  <2>10. SumOf(f, t) = f[x] + SumOf(f, t \ {x})
    BY <1>2, <2>8, Zenon
  <2>11. /\ f[x] \in Int /\ SumOf(f, S \ t) \in Int /\ SumOf(f, t \ {x}) \in Int
    <3>1. S \ t \in SUBSET S /\ t \ {x} \in SUBSET S /\ x \in DOMAIN f
      OBVIOUS
    <3>2. f[x] \in Int
      BY <3>1, Zenon DEF Summable
    <3> QED
      BY <1>2, <3>1, <3>2, Zenon
  <2>12. SumOf(f, S) = SumOf(f, t \ {x}) + (f[x] + SumOf(f, S \ t))
    BY <2>7, <2>9, Zenon
  <2>13. \A a, b, c \in Int : a + (b + c) = (b + a) + c
    OBVIOUS
  <2> HIDE DEF rest
  <2>14. SumOf(f, t \ {x}) + (f[x] + SumOf(f, S \ t))
           = (f[x] + SumOf(f, t \ {x})) + SumOf(f, S \ t)
    BY <2>11, <2>13, Zenon
  <2>15. Splits(t)
    BY <2>10, <2>12, <2>14, Zenon
  <2> QED
    BY <2>2, <2>15
<1>4. SUFFICES ASSUME ~Splits(T) PROVE FALSE
  BY Zenon
<1>5. Cardinality(T) \in Bad
  BY <1>1, <1>4, Zenon
<1> QED
  BY <1>3, <1>5, Zenon

\* A sum stays the same when the arguments are renamed.
LEMMA SumRenamed ==
  ASSUME NEW f, Summable(f), NEW S, S \subseteq DOMAIN f,
         NEW g, Summable(g),
         NEW b, \A x \in S : b[x] \in DOMAIN g /\ g[b[x]] = f[x],
         \A x, y \in S : b[x] = b[y] => x = y
  PROVE  SumOf(f, S) = SumOf(g, {b[x] : x \in S})
<1> DEFINE image(t) == {b[x] : x \in t}
           Same(t) == SumOf(f, t) = SumOf(g, image(t))
           Bad == {m \in Nat : \E t \in SUBSET S : Cardinality(t) = m /\ ~Same(t)}
<1>1. \A t \in SUBSET S : IsFiniteSet(t) /\ Cardinality(t) \in Nat
  BY FS_Subset, FS_CardinalityType DEF Summable
<1>2. ASSUME NEW t \in SUBSET S
      PROVE  /\ t = {} => SumOf(f, t) = 0
             /\ \A x \in t : SumOf(f, t) = f[x] + SumOf(f, t \ {x})
  <2>1. t \subseteq DOMAIN f
    OBVIOUS
  <2> QED
    BY <2>1, SumOfTaken, Zenon
<1>3. ASSUME NEW t, t \subseteq DOMAIN g
      PROVE  /\ t = {} => SumOf(g, t) = 0
             /\ \A x \in t : SumOf(g, t) = g[x] + SumOf(g, t \ {x})
  BY <1>3, SumOfTaken, Zenon
<1>4. Bad = {}
  <2> SUFFICES ASSUME Bad # {} PROVE FALSE
    OBVIOUS
  <2>1. PICK m \in Bad : \A k \in Bad : m <= k
    <3>1. Bad \in SUBSET Nat
      OBVIOUS
    <3> HIDE DEF Bad
    <3> QED
      BY <3>1, LeastExists
  <2>2. PICK t \in SUBSET S : Cardinality(t) = m /\ ~Same(t)
    BY <2>1, Zenon
  <2>3. image(t) \subseteq DOMAIN g
    OBVIOUS
  <2>4. t # {}
    <3> SUFFICES ASSUME t = {} PROVE Same(t)
      BY <2>2, Zenon
    <3>1. image(t) = {}
      OBVIOUS
    <3>2. SumOf(g, image(t)) = 0
      <4> HIDE DEF image
      <4> QED
        BY <1>3, <2>3, <3>1, Zenon
    <3> HIDE DEF image
    <3> QED
      BY <1>2, <3>2, Zenon
  <2>5. PICK x \in t : TRUE
    BY <2>4, Zenon
  <2>6. Cardinality(t \ {x}) = m - 1 /\ m \in Nat /\ Cardinality(t \ {x}) \in Nat
    BY <1>1, <2>2, FS_RemoveElement
  <2>7. Cardinality(t \ {x}) \notin Bad
    <3>1. ~(m <= m - 1)
      BY <2>6
    <3> HIDE DEF Bad
    <3> QED
      BY <2>1, <2>6, <3>1, Zenon
  <2>8. Same(t \ {x})
    BY <2>6, <2>7, Zenon
  <2>9. image(t \ {x}) = image(t) \ {b[x]} /\ b[x] \in image(t)
    OBVIOUS
  <2>10. SumOf(g, image(t)) = g[b[x]] + SumOf(g, image(t) \ {b[x]})
    <3> HIDE DEF image
    <3> QED
      BY <1>3, <2>3, <2>9, Zenon
  <2>11. SumOf(f, t) = f[x] + SumOf(f, t \ {x}) /\ g[b[x]] = f[x]
    BY <1>2, Zenon
  <2>12. Same(t)
    <3> HIDE DEF image
    <3> QED
      BY <2>8, <2>9, <2>10, <2>11, Zenon
  <2> QED
    BY <2>2, <2>12
<1>5. SUFFICES ASSUME ~Same(S) PROVE FALSE
  BY Zenon
<1>6. Cardinality(S) \in Bad
  BY <1>1, <1>5, Zenon
<1> QED
  BY <1>4, <1>6, Zenon

==============================================================================
