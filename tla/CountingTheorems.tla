-------------------------- MODULE CountingTheorems --------------------------
(***************************************************************************)
(* What the proofs about revisions and counters need of numbers: induction *)
(* in the form of a least counterexample, the greatest member of a bounded *)
(* set, quotients and remainders, and sums over finite sets.               *)
(***************************************************************************)
EXTENDS Integers, FiniteSets, FiniteSetsExt, Functions, FiniteSetTheorems,
        WellFoundedInduction, TLAPS

\* A set of naturals that is not empty has a least member.
LEMMA LeastNat ==
    ASSUME NEW T \in SUBSET Nat, T # {}
    PROVE  \E n \in T : \A m \in T : n <= m
  <1> DEFINE R == OpToRel(<, Nat)
  <1>1. IsWellFoundedOn(R, Nat)
    BY NatLessThanWellFounded
  <1>2. \A x, y \in Nat : x < y => <<x, y>> \in R
    BY DEF OpToRel
  <1> HIDE DEF R
  <1>3. PICK n \in T : \A m \in T : ~(<<m, n>> \in R)
    BY <1>1, WFMin
  <1>4. ASSUME NEW m \in T PROVE n <= m
    <2>1. ~(<<m, n>> \in R)
      BY <1>3
    <2>2. ~(m < n)
      BY <1>2, <2>1
    <2> QED
      BY <2>2
  <1> QED
    BY <1>4

\* A bounded one has a greatest, which Max is.
LEMMA MaxOf ==
    ASSUME NEW b \in Nat, NEW S \in SUBSET (0..b), S # {}
    PROVE  Max(S) \in S /\ \A y \in S : y <= Max(S)
  <1> DEFINE T == {n \in Nat : b - n \in S}
  <1>1. PICK x \in S : TRUE
    OBVIOUS
  <1>2. b - x \in T
    OBVIOUS
  <1>3. PICK n \in T : \A m \in T : n <= m
    BY <1>2, LeastNat
  <1>4. ASSUME NEW y \in S
        PROVE  y <= b - n
    <2>1. b - y \in T
      OBVIOUS
    <2>2. n <= b - y
      BY <1>3, <2>1
    <2> QED
      BY <2>2
  <1> QED
    BY <1>4 DEF Max

LEMMA MaxOfTwo ==
    ASSUME NEW a \in Nat, NEW b \in Nat
    PROVE  /\ Max({a, b}) \in {a, b}
           /\ a <= Max({a, b}) /\ b <= Max({a, b})
  <1> DEFINE c == IF a <= b THEN b ELSE a
  <1>1. c \in Nat /\ {a, b} \in SUBSET (0..c)
    OBVIOUS
  <1> HIDE DEF c
  <1> QED
    BY <1>1, MaxOf

----------------------------------------------------------------------------
\* Quotients and remainders.

LEMMA DivisionUnique ==
    ASSUME NEW d \in Nat \ {0}, NEW q \in Int, NEW k \in Int,
           NEW r \in 0..(d - 1), NEW s \in 0..(d - 1),
           d * q + r = d * k + s
    PROVE  q = k /\ r = s
  <1>1. ASSUME NEW x \in Int, NEW y \in Int, x >= y + 1
        PROVE  d * x >= d * y + d
    <2>1. d * x = d * y + d * (x - y)
      BY Z3
    <2>2. d * (x - y) >= d
      BY <1>1, Z3
    <2> QED
      BY <2>1, <2>2
  <1>2. d * q \in Int /\ d * k \in Int
    OBVIOUS
  <1>3. ~(q >= k + 1)
    BY <1>1, <1>2
  <1>4. ~(k >= q + 1)
    BY <1>1, <1>2
  <1>5. q = k
    BY <1>3, <1>4
  <1> QED
    BY <1>2, <1>5

LEMMA Divided ==
    ASSUME NEW d \in Nat \ {0}, NEW a \in Nat
    PROVE  a \div d \in Int /\ a % d \in 0..(d - 1) /\ a = d * (a \div d) + (a % d)
  OBVIOUS

\* The quotient goes up at the multiples of d.
LEMMA NextQuotient ==
    ASSUME NEW a \in Nat, NEW d \in Nat \ {0}
    PROVE  (a + 1) \div d = (a \div d) + (IF (a + 1) % d = 0 THEN 1 ELSE 0)
  <1> DEFINE q == a \div d
             r == a % d
             k == (a + 1) \div d
             s == (a + 1) % d
             t == r + 1
  <1>1. q \in Int /\ r \in 0..(d - 1) /\ a = d * q + r
    BY Divided
  <1>2. k \in Int /\ s \in 0..(d - 1) /\ a + 1 = d * k + s
    BY Divided
  <1>3. t = r + 1
    OBVIOUS
  <1> HIDE DEF q, r, k, s, t
  <1>4. CASE r < d - 1
    <2>1. d * k + s = d * q + t /\ t \in 0..(d - 1)
      BY <1>1, <1>2, <1>3, <1>4
    <2>2. k = q /\ s = t
      BY <1>1, <1>2, <2>1, DivisionUnique
    <2>3. s # 0
      BY <1>1, <1>3, <2>2
    <2>4. k = q + 0
      BY <1>1, <2>2
    <2> QED
      BY <2>3, <2>4 DEF k, q, s
  <1>5. CASE r = d - 1
    <2>1. d * k + s = d * (q + 1) + 0 /\ q + 1 \in Int /\ 0 \in 0..(d - 1)
      BY <1>1, <1>2, <1>5
    <2>2. k = q + 1 /\ s = 0
      BY <1>1, <1>2, <2>1, DivisionUnique
    <2> QED
      BY <2>2 DEF k, q, s
  <1> QED
    BY <1>1, <1>4, <1>5

LEMMA DivNat ==
    ASSUME NEW a \in Nat, NEW d \in Nat \ {0}
    PROVE  a \div d \in Nat /\ d * (a \div d) \in Nat /\ d * (a \div d) <= a
  <1> DEFINE q == a \div d
             r == a % d
  <1>1. q \in Int /\ r \in 0..(d - 1) /\ a = d * q + r
    BY Divided
  <1> HIDE DEF q, r
  <1>2. d * q \in Int
    BY <1>1
  <1>3. d * q <= a
    BY <1>1, <1>2
  <1>4. ~(q <= -1)
    <2> SUFFICES ASSUME q <= -1 PROVE FALSE
      OBVIOUS
    <2>1. -1 - q \in Nat
      BY <1>1
    <2>2. d * (-1 - q) \in Nat
      BY <2>1
    <2>3. d * (-1 - q) = -d - d * q
      BY <1>1
    <2> QED
      BY <1>1, <1>2, <2>2, <2>3
  <1>5. q \in Nat
    BY <1>1, <1>4
  <1>6. d * q \in Nat
    BY <1>5
  <1> QED
    BY <1>3, <1>5, <1>6 DEF q

LEMMA ZeroQuotient ==
    ASSUME NEW d \in Nat \ {0}
    PROVE  0 \div d = 0
  <1>1. 0 \div d \in Nat /\ d * (0 \div d) <= 0
    BY DivNat
  <1> DEFINE q == 0 \div d
  <1> HIDE DEF q
  <1>2. q \in Nat /\ d * q <= 0
    BY <1>1 DEF q
  <1>3. ASSUME q >= 1 PROVE FALSE
    <2>1. q - 1 \in Nat
      BY <1>2, <1>3
    <2>2. d * (q - 1) \in Nat /\ d * q = d * (q - 1) + d
      BY <1>2, <2>1
    <2> QED
      BY <1>2, <2>2
  <1> QED
    BY <1>2, <1>3 DEF q

\* A multiple of a multiple is one.
LEMMA MultipleOfMultiple ==
    ASSUME NEW a \in Nat, NEW m \in Nat \ {0}, NEW k \in Nat \ {0}, a % m = 0, m % k = 0
    PROVE  a % k = 0
  <1> DEFINE p == a \div m
             q == m \div k
             c == a \div k
             s == a % k
  <1>1. p \in Int /\ a = m * p + 0
    BY Divided
  <1>2. q \in Int /\ m = k * q + 0
    BY Divided
  <1>3. c \in Int /\ s \in 0..(k - 1) /\ a = k * c + s
    BY Divided
  <1> HIDE DEF p, q, c, s
  <1>4. m = k * q /\ a = m * p
    BY <1>1, <1>2
  <1>5. (k * q) * p = k * (q * p)
    BY <1>1, <1>2
  <1>6. a = k * (q * p) /\ q * p \in Int
    BY <1>1, <1>2, <1>4, <1>5
  <1> DEFINE e == q * p
  <1> HIDE DEF e
  <1>7. a = k * e /\ e \in Int
    BY <1>6 DEF e
  <1>8. k * c + s = k * e + 0 /\ 0 \in 0..(k - 1)
    BY <1>3, <1>7
  <1>9. s = 0
    BY <1>3, <1>7, <1>8, DivisionUnique
  <1> QED
    BY <1>9 DEF s

----------------------------------------------------------------------------
\* Sums.

\* A collection of subsets of a finite set has a member from which nothing can
\* be taken away: induction over finite sets.
LEMMA MinimalSet ==
    ASSUME NEW D, IsFiniteSet(D), NEW C \in SUBSET (SUBSET D), C # {}
    PROVE  \E s \in C : \A x \in s : s \ {x} \notin C
  <1> DEFINE T == {Cardinality(s) : s \in C}
  <1>1. \A s \in C : IsFiniteSet(s) /\ Cardinality(s) \in Nat
    BY FS_Subset, FS_CardinalityType
  <1>2. T \in SUBSET Nat /\ T # {}
    BY <1>1
  <1>3. PICK n \in T : \A m \in T : n <= m
    BY <1>2, LeastNat
  <1>4. PICK s \in C : n = Cardinality(s)
    OBVIOUS
  <1>5. ASSUME NEW x \in s, s \ {x} \in C
        PROVE  FALSE
    <2>1. Cardinality(s \ {x}) = Cardinality(s) - 1
      BY <1>1, FS_RemoveElement
    <2>2. n <= Cardinality(s \ {x})
      BY <1>3, <1>5
    <2> QED
      BY <1>1, <1>4, <2>1, <2>2
  <1> QED
    BY <1>5

\* f[s] is the sum of w over s, as SumFunction defines it.
IsSum(f, w) ==
    f = [s \in SUBSET (DOMAIN w) |->
            IF s = {} THEN 0
            ELSE w[CHOOSE x \in s : TRUE] + f[s \ {CHOOSE x \in s : TRUE}]]

LEMMA SumExists ==
    ASSUME NEW w, IsFiniteSet(DOMAIN w)
    PROVE  \E f : IsSum(f, w)
  <1> DEFINE D == DOMAIN w
             c(s) == CHOOSE x \in s : TRUE
             Upto(n) == {s \in SUBSET D : Cardinality(s) <= n}
             Sums(f, n) == f = [s \in Upto(n) |->
                                   IF s = {} THEN 0 ELSE w[c(s)] + f[s \ {c(s)}]]
             T == {n \in Nat : ~\E f : Sums(f, n)}
  <1>1. \A s \in SUBSET D : IsFiniteSet(s) /\ Cardinality(s) \in Nat
    BY FS_Subset, FS_CardinalityType
  <1>2. \A s \in SUBSET D : s # {} => c(s) \in s
    OBVIOUS
  <1>3. \A s \in SUBSET D : s # {} => Cardinality(s \ {c(s)}) = Cardinality(s) - 1
    BY <1>1, <1>2, FS_RemoveElement
  <1>4. \E f : Sums(f, 0)
    <2> DEFINE g == [s \in Upto(0) |-> 0]
    <2>1. \A s \in Upto(0) : s = {}
      BY <1>1, FS_EmptySet
    <2>2. Sums(g, 0)
      BY <2>1
    <2> QED
      BY <2>2
  <1>5. ASSUME NEW n \in Nat, NEW f, Sums(f, n)
        PROVE  \E g : Sums(g, n + 1)
    <2> DEFINE g == [s \in Upto(n + 1) |->
                        IF s = {} THEN 0 ELSE w[c(s)] + f[s \ {c(s)}]]
    <2> HIDE DEF c
    <2>1. ASSUME NEW s \in Upto(n)
          PROVE  s \in Upto(n + 1) /\ f[s] = g[s]
      <3>1. Cardinality(s) \in Nat /\ Cardinality(s) <= n
        BY <1>1
      <3>2. s \in Upto(n + 1)
        BY <3>1
      <3>3. f[s] = IF s = {} THEN 0 ELSE w[c(s)] + f[s \ {c(s)}]
        BY <1>5
      <3> QED
        BY <3>2, <3>3
    <2>2. \A s \in Upto(n + 1) : s # {} => s \ {c(s)} \in Upto(n)
      BY <1>1, <1>3
    <2>3. \A s \in Upto(n + 1) : s # {} => f[s \ {c(s)}] = g[s \ {c(s)}]
      BY <2>1, <2>2
    <2>4. Sums(g, n + 1)
      BY <2>3
    <2> QED
      BY <2>4
  <1> HIDE DEF c, Sums
  <1>6. T = {}
    <2> SUFFICES ASSUME T # {} PROVE FALSE
      OBVIOUS
    <2>1. PICK n \in T : \A m \in T : n <= m
      BY LeastNat
    <2>2. n # 0
      BY <1>4
    <2>3. n - 1 \in Nat /\ n - 1 \notin T
      BY <2>1, <2>2
    <2>4. PICK f : Sums(f, n - 1)
      BY <2>3
    <2>5. \E g : Sums(g, (n - 1) + 1)
      BY <1>5, <2>3, <2>4
    <2> QED
      BY <2>5
  <1>7. PICK f : Sums(f, Cardinality(D))
    BY <1>1, <1>6
  <1>8. Upto(Cardinality(D)) = SUBSET D
    BY FS_Subset
  <1> QED
    BY <1>7, <1>8 DEF Sums, c, IsSum

LEMMA SumIs ==
    ASSUME NEW w, IsFiniteSet(DOMAIN w)
    PROVE  \E f : IsSum(f, w) /\ SumFunction(w) = f[DOMAIN w]
  <1> DEFINE h == CHOOSE f : IsSum(f, w)
  <1>1. IsSum(h, w)
    BY SumExists
  <1>2. SumFunction(w) = h[DOMAIN w]
    BY DEF SumFunction, SumFunctionOnSet, FoldFunctionOnSet, MapThenFoldSet, IsSum
  <1> HIDE DEF h
  <1> QED
    BY <1>1, <1>2

\* A function that has a sum.
Summable(w) == IsFiniteSet(DOMAIN w) /\ w \in [DOMAIN w -> Nat]

LEMMA SumStep ==
    ASSUME NEW w, NEW f, IsSum(f, w), NEW s \in SUBSET DOMAIN w, s # {}
    PROVE  \E x \in s : f[s] = w[x] + f[s \ {x}]
  <1> DEFINE c == CHOOSE x \in s : TRUE
  <1>1. c \in s
    OBVIOUS
  <1>2. f[s] = w[c] + f[s \ {c}]
    BY DEF IsSum
  <1> HIDE DEF c
  <1> QED
    BY <1>1, <1>2

LEMMA SumNone ==
    ASSUME NEW w, NEW f, IsSum(f, w)
    PROVE  f[{}] = 0
  BY DEF IsSum

LEMMA SumType ==
    ASSUME NEW w, Summable(w), NEW f, IsSum(f, w)
    PROVE  \A s \in SUBSET DOMAIN w : f[s] \in Nat
  <1> DEFINE C == {s \in SUBSET DOMAIN w : f[s] \notin Nat}
  <1> SUFFICES ASSUME C # {} PROVE FALSE
    OBVIOUS
  <1>1. PICK s \in C : \A x \in s : s \ {x} \notin C
    BY MinimalSet DEF Summable
  <1>2. s # {}
    BY SumNone
  <1>3. PICK x \in s : f[s] = w[x] + f[s \ {x}]
    BY <1>2, SumStep
  <1>4. f[s \ {x}] \in Nat
    BY <1>1
  <1>5. w[x] \in Nat
    BY DEF Summable
  <1> QED
    BY <1>3, <1>4, <1>5

\* It does not matter which member is taken first.
LEMMA SumAny ==
    ASSUME NEW w, Summable(w), NEW f, IsSum(f, w)
    PROVE  \A s \in SUBSET DOMAIN w : \A x \in s : f[s] = w[x] + f[s \ {x}]
  <1> DEFINE C == {s \in SUBSET DOMAIN w : \E x \in s : f[s] # w[x] + f[s \ {x}]}
  <1> SUFFICES ASSUME C # {} PROVE FALSE
    OBVIOUS
  <1>1. PICK s \in C : \A x \in s : s \ {x} \notin C
    BY MinimalSet DEF Summable
  <1>2. PICK x \in s : f[s] # w[x] + f[s \ {x}]
    OBVIOUS
  <1>3. PICK y \in s : f[s] = w[y] + f[s \ {y}]
    BY SumStep
  <1>4. x # y
    BY <1>2, <1>3
  <1>5. f[s \ {y}] = w[x] + f[(s \ {y}) \ {x}]
    BY <1>1, <1>4
  <1>6. f[s \ {x}] = w[y] + f[(s \ {x}) \ {y}]
    BY <1>1, <1>4
  <1>7. (s \ {y}) \ {x} = (s \ {x}) \ {y}
    OBVIOUS
  <1>8. w[x] \in Nat /\ w[y] \in Nat /\ f[(s \ {x}) \ {y}] \in Nat
    BY SumType DEF Summable
  <1> DEFINE rest == f[(s \ {x}) \ {y}]
  <1>9. f[s] = w[y] + (w[x] + rest) /\ f[s \ {x}] = w[y] + rest
    BY <1>3, <1>5, <1>6, <1>7
  <1>10. rest \in Nat
    BY <1>8
  <1> HIDE DEF rest
  <1>11. w[y] + (w[x] + rest) = w[x] + (w[y] + rest)
    BY <1>8, <1>10
  <1> QED
    BY <1>2, <1>9, <1>11

\* Only the members of the set matter.
LEMMA SumSame ==
    ASSUME NEW w, Summable(w), NEW f, IsSum(f, w),
           NEW v, Summable(v), NEW g, IsSum(g, v),
           NEW S \in SUBSET (DOMAIN w \cap DOMAIN v), \A x \in S : w[x] = v[x]
    PROVE  f[S] = g[S]
  <1> DEFINE C == {s \in SUBSET S : f[s] # g[s]}
  <1> SUFFICES ASSUME C # {} PROVE FALSE
    OBVIOUS
  <1>1. IsFiniteSet(S)
    BY FS_Subset DEF Summable
  <1>2. PICK s \in C : \A x \in s : s \ {x} \notin C
    BY <1>1, MinimalSet
  <1>3. s # {}
    BY SumNone
  <1>4. PICK x \in s : f[s] = w[x] + f[s \ {x}]
    BY <1>3, SumStep
  <1>5. g[s] = v[x] + g[s \ {x}]
    BY SumAny
  <1>6. f[s \ {x}] = g[s \ {x}]
    BY <1>2
  <1> QED
    BY <1>4, <1>5, <1>6

LEMMA SumNat ==
    ASSUME NEW w, Summable(w)
    PROVE  SumFunction(w) \in Nat
  BY SumIs, SumType DEF Summable

LEMMA SumEmpty ==
    ASSUME NEW w, DOMAIN w = {}
    PROVE  SumFunction(w) = 0
  BY SumIs, SumNone, FS_EmptySet

\* The value at x, and nothing where there is none.
ValueAt(w, x) == IF x \in DOMAIN w THEN w[x] ELSE 0

LEMMA SumApart ==
    ASSUME NEW w, Summable(w), NEW f, IsSum(f, w), NEW x
    PROVE  f[DOMAIN w] = ValueAt(w, x) + f[DOMAIN w \ {x}]
  <1>1. CASE x \in DOMAIN w
    BY <1>1, SumAny DEF ValueAt
  <1>2. CASE x \notin DOMAIN w
    <2>1. DOMAIN w \ {x} = DOMAIN w
      BY <1>2
    <2>2. f[DOMAIN w] \in Nat
      BY SumType
    <2> QED
      BY <1>2, <2>1, <2>2 DEF ValueAt
  <1> QED
    BY <1>1, <1>2

\* Two functions that differ at x alone: so do their sums.
LEMMA SumChange ==
    ASSUME NEW w, Summable(w), NEW v, Summable(v), NEW x,
           \A y : y # x => /\ y \in DOMAIN w <=> y \in DOMAIN v
                           /\ y \in DOMAIN w => w[y] = v[y]
    PROVE  SumFunction(v) + ValueAt(w, x) = SumFunction(w) + ValueAt(v, x)
  <1>1. PICK f : IsSum(f, w) /\ SumFunction(w) = f[DOMAIN w]
    BY SumIs DEF Summable
  <1>2. PICK g : IsSum(g, v) /\ SumFunction(v) = g[DOMAIN v]
    BY SumIs DEF Summable
  <1> DEFINE S == DOMAIN w \ {x}
  <1>3. S = DOMAIN v \ {x} /\ S \in SUBSET (DOMAIN w \cap DOMAIN v)
    OBVIOUS
  <1>4. \A y \in S : w[y] = v[y]
    OBVIOUS
  <1>5. f[S] = g[S]
    BY <1>1, <1>2, <1>3, <1>4, SumSame
  <1>6. f[DOMAIN w] = ValueAt(w, x) + f[S]
    BY <1>1, SumApart
  <1>7. g[DOMAIN v] = ValueAt(v, x) + g[S]
    BY <1>2, <1>3, SumApart
  <1>8. ValueAt(w, x) \in Nat /\ ValueAt(v, x) \in Nat
    BY DEF ValueAt, Summable
  <1>9. f[S] \in Nat
    BY <1>1, SumType
  <1> QED
    BY <1>1, <1>2, <1>5, <1>6, <1>7, <1>8, <1>9

\* Two functions of which one is nowhere larger: neither is its sum.
LEMMA SumLess ==
    ASSUME NEW w, Summable(w), NEW v, Summable(v), DOMAIN w = DOMAIN v,
           \A x \in DOMAIN w : w[x] <= v[x]
    PROVE  SumFunction(w) <= SumFunction(v)
  <1>1. PICK f : IsSum(f, w) /\ SumFunction(w) = f[DOMAIN w]
    BY SumIs DEF Summable
  <1>2. PICK g : IsSum(g, v) /\ SumFunction(v) = g[DOMAIN v]
    BY SumIs DEF Summable
  <1> DEFINE C == {s \in SUBSET DOMAIN w : ~(f[s] <= g[s])}
  <1>3. SUFFICES ASSUME C # {} PROVE FALSE
    BY <1>1, <1>2
  <1>4. PICK s \in C : \A x \in s : s \ {x} \notin C
    BY <1>3, MinimalSet DEF Summable
  <1>5. s # {}
    BY <1>1, <1>2, SumNone
  <1>6. PICK x \in s : f[s] = w[x] + f[s \ {x}]
    BY <1>1, <1>5, SumStep
  <1>7. g[s] = v[x] + g[s \ {x}]
    BY <1>2, SumAny
  <1>8. f[s \ {x}] <= g[s \ {x}]
    BY <1>4
  <1>9. f[s \ {x}] \in Nat /\ g[s \ {x}] \in Nat
    BY <1>1, <1>2, SumType
  <1>10. w[x] \in Nat /\ v[x] \in Nat /\ w[x] <= v[x]
    BY DEF Summable
  <1>11. f[s] <= g[s]
    BY <1>6, <1>7, <1>8, <1>9, <1>10
  <1> QED
    BY <1>11

\* No member is larger than b: the sum is no larger than b for each of them.
LEMMA SumBound ==
    ASSUME NEW w, Summable(w), NEW b \in Nat, \A x \in DOMAIN w : w[x] <= b
    PROVE  SumFunction(w) <= Cardinality(DOMAIN w) * b
  <1>1. PICK f : IsSum(f, w) /\ SumFunction(w) = f[DOMAIN w]
    BY SumIs DEF Summable
  <1> DEFINE C == {s \in SUBSET DOMAIN w : ~(f[s] <= Cardinality(s) * b)}
  <1>2. SUFFICES ASSUME C # {} PROVE FALSE
    BY <1>1
  <1>3. PICK s \in C : \A x \in s : s \ {x} \notin C
    BY <1>2, MinimalSet DEF Summable
  <1>4. CASE s = {}
    <2>1. f[s] = 0 /\ Cardinality(s) = 0
      BY <1>1, <1>4, SumNone, FS_EmptySet
    <2> QED
      BY <2>1
  <1>5. CASE s # {}
    <2>1. PICK x \in s : f[s] = w[x] + f[s \ {x}]
      BY <1>1, <1>5, SumStep
    <2>2. IsFiniteSet(s) /\ Cardinality(s) \in Nat
      BY FS_Subset, FS_CardinalityType DEF Summable
    <2> DEFINE c == Cardinality(s \ {x})
    <2>3. c = Cardinality(s) - 1 /\ c \in Nat
      BY <2>2, FS_RemoveElement, FS_CardinalityType
    <2>4. f[s \ {x}] <= c * b
      BY <1>3
    <2>5. f[s \ {x}] \in Nat /\ w[x] \in Nat /\ w[x] <= b
      BY <1>1, SumType DEF Summable
    <2> HIDE DEF c
    <2>6. Cardinality(s) = c + 1
      BY <2>2, <2>3
    <2>7. Cardinality(s) * b = c * b + b /\ c * b \in Nat
      BY <2>3, <2>6
    <2>8. ASSUME NEW e \in Nat, f[s \ {x}] <= e
          PROVE  f[s] <= e + b
      BY <2>1, <2>5, <2>8
    <2>9. f[s] <= Cardinality(s) * b
      BY <2>4, <2>7, <2>8
    <2> QED
      BY <2>9
  <1> QED
    BY <1>4, <1>5

=============================================================================
